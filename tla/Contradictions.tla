----------------------------- MODULE Contradictions ----------------------------
(***************************************************************************)
(* Contradictions between atoms: the deep check that asks a model about    *)
(* pairs of linked pages (`wiki lint --deep`, `wiki sync`), the wizard of  *)
(* `wiki sync`, and the tools of the MCP server that dismiss a pair or     *)
(* have a model resolve it (contradiction.py).                             *)
(*                                                                         *)
(* Decisions about pairs are kept in one JSON file, flags and texts in the *)
(* pages of the atoms.  Nothing locks either: shells and agents overlap,   *)
(* are killed, and people edit.  Of a text is kept the latest edit in it.  *)
(***************************************************************************)
EXTENDS Naturals, Sequences, FiniteSets

CONSTANTS
    Atoms,
    Linked,       \* linked pairs, those with most common links first
    MaxPairs,     \* pairs a check looks at
    Actors, MaxRuns, MaxEdits

VARIABLES
    text,         \* atom -> the user's latest edit in its page
    flagged,      \* is_flagged_for_agent
    verified,     \* is_verified_by_human
    store,        \* contradiction_dismissed.json: readable, and its pairs
    proc,
    decided,      \* history: pairs that were saved
    raced,        \* a decision was saved over another, or cut short
    overtaken,    \* a page was written over a later edit
    runs, edits

vars == <<text, flagged, verified, store, proc, decided, raced, overtaken, runs, edits>>

Both(p) == {p[1], p[2]}
Idle == [op |-> "none", at |-> "end", alone |-> TRUE, why |-> "", seen |-> {}, todo |-> <<>>, found |-> <<>>,
         pair |-> <<>>, copy |-> [x \in Atoms |-> 0], fresh |-> TRUE, revises |-> {}]

Init ==
    /\ text = [x \in Atoms |-> 0]
    /\ flagged = {} /\ verified = {} /\ decided = {}
    /\ store = [ok |-> TRUE, pairs |-> {}]
    /\ proc = [a \in Actors |-> Idle]
    /\ raced = FALSE /\ overtaken = FALSE
    /\ runs = 0 /\ edits = 0

Pages == <<text, flagged, verified, overtaken>>
Decisions == <<store, decided, raced>>

-----------------------------------------------------------------------------
(* A file that cannot be read counts as empty.                              *)
Loaded == IF store.ok THEN store.pairs ELSE {}

(* Mutant: a pair is looked up in the order it was given in.                *)
IsDismissedInOrder(dismissed, p) == p \in dismissed

IsDismissed(dismissed, p) == \E e \in dismissed : Both(e) = Both(p)

Ended(a) == proc[a].at = "end"
Goto(a, at) ==
    proc' = [proc EXCEPT ![a] =
        CASE at = "end" -> [Idle EXCEPT !.why = proc[a].why]
          [] at = "wizard" -> [Idle EXCEPT !.op = "sync", !.at = at, !.why = proc[a].why, !.alone = proc[a].alone, !.found = proc[a].found, !.copy = proc[a].copy]
          [] OTHER -> [proc[a] EXCEPT !.at = at]]

Edit ==
    /\ edits < MaxEdits /\ edits' = edits + 1
    /\ \E x \in Atoms : text' = [text EXCEPT ![x] = edits']
    /\ proc' = [a \in Actors |-> [proc[a] EXCEPT !.fresh = Ended(a)]]
    /\ UNCHANGED <<flagged, verified, Decisions, overtaken, runs>>

Start(a, p) ==
    /\ Ended(a) /\ runs < MaxRuns /\ runs' = runs + 1
    /\ proc' = [b \in Actors |-> IF b = a THEN [p EXCEPT !.alone = \A c \in Actors : Ended(c)]
                                 ELSE [proc[b] EXCEPT !.alone = Ended(b)]]
    /\ UNCHANGED <<Pages, Decisions, edits>>

(* The most connected pairs; those decided before are among them.           *)
Candidates == SubSeq(Linked, 1, IF Len(Linked) < MaxPairs THEN Len(Linked) ELSE MaxPairs)

(* A check reads the decisions and picks its pairs, once.  lint --fix flags *)
(* what it finds; sync has it reviewed.                                     *)
BeginCheck(a) ==
    \E op \in {"lint", "sync"} :
        Start(a, [Idle EXCEPT !.op = op, !.at = "check", !.seen = Loaded, !.todo = Candidates, !.copy = text])

BeginTool(a) ==
    \E i \in DOMAIN Linked, turned \in BOOLEAN, op \in {"dismiss", "resolve"} :
        LET p == IF turned /\ op = "dismiss" THEN <<Linked[i][2], Linked[i][1]>> ELSE Linked[i]
        IN  Start(a, [Idle EXCEPT !.op = op, !.why = op, !.pair = p, !.at = IF op = "dismiss" THEN "load" ELSE "read"])

Killed(a) ==
    /\ ~Ended(a)
    /\ proc' = [proc EXCEPT ![a] = Idle]
    /\ UNCHANGED <<Pages, Decisions, runs, edits>>

-----------------------------------------------------------------------------
(* Mutant: every pair is asked about.                                       *)
AskedAlways(a, p) == TRUE

Asked(a, p) == ~IsDismissed(proc[a].seen, p)

(* A pair that was dismissed when the check began is passed over; of the    *)
(* others a model says whether they contradict each other.                  *)
Check(a) ==
    /\ proc[a].at = "check"
    /\ IF proc[a].todo = <<>>
       THEN Goto(a, IF proc[a].op = "sync" /\ proc[a].found # <<>> THEN "wizard" ELSE "end")
       ELSE LET p == Head(proc[a].todo)
                rest == [proc[a] EXCEPT !.todo = Tail(@)]
            IN  \/ proc' = [proc EXCEPT ![a] = rest]
                \/ /\ Asked(a, p)
                   /\ proc' = [proc EXCEPT ![a] = IF @.op = "lint" THEN [rest EXCEPT !.at = "flag1", !.pair = p]
                                                  ELSE [rest EXCEPT !.found = Append(@, p)]]
    /\ UNCHANGED <<Pages, Decisions, runs, edits>>

Flag(a, k) ==
    /\ proc[a].at = <<"flag1", "flag2">>[k]
    /\ flagged' = flagged \cup {proc[a].pair[k]}
    /\ Goto(a, <<"flag2", "check">>[k])
    /\ UNCHANGED <<text, verified, overtaken, Decisions, runs, edits>>

(* The wizard: dismiss, resolve, skip or quit.                              *)
Wizard(a) ==
    /\ proc[a].at = "wizard"
    /\ \/ Goto(a, "end")
       \/ /\ proc[a].found # <<>>
          /\ \E why \in {"dismiss", "resolve", "skip"} :
                 proc' = [proc EXCEPT ![a] = [@ EXCEPT !.found = Tail(proc[a].found), !.pair = Head(proc[a].found), !.why = why,
                              !.at = CASE why = "dismiss" -> "load" [] why = "resolve" -> "read" [] OTHER -> "wizard"]]
    /\ UNCHANGED <<Pages, Decisions, runs, edits>>

Back(a) == IF proc[a].op = "sync" THEN "wizard" ELSE "end"

-----------------------------------------------------------------------------
(* add_dismissed: nothing to do for a pair that is there; else the list     *)
(* that was read is written back, longer by one.                            *)
Load(a) ==
    /\ proc[a].at = "load"
    /\ IF ~IsDismissed(Loaded, proc[a].pair) THEN proc' = [proc EXCEPT ![a] = [@ EXCEPT !.seen = Loaded, !.at = "save"]]
       ELSE Goto(a, IF proc[a].why = "dismiss" THEN "clear1" ELSE Back(a))
    /\ UNCHANGED <<Pages, Decisions, runs, edits>>

(* Mutant: the new decision replaces the list.                              *)
SavedAlone(seen, p) == {p}

Saved(seen, p) == seen \cup {p}

Save(a) ==
    /\ proc[a].at = "save"
    /\ \/ /\ store' = [ok |-> TRUE, pairs |-> Saved(proc[a].seen, proc[a].pair)]
          /\ decided' = decided \cup {proc[a].pair}
          /\ raced' = (raced \/ Loaded # proc[a].seen)
          /\ Goto(a, IF proc[a].why = "dismiss" THEN "clear1" ELSE Back(a))
       \/ /\ store' = [ok |-> FALSE, pairs |-> {}]
          /\ raced' = TRUE
          /\ proc' = [proc EXCEPT ![a] = Idle]
          /\ UNCHANGED decided
    /\ UNCHANGED <<Pages, runs, edits>>

(* Mutant: only the first of the two loses its flag.                        *)
ClearedFirst(k) == IF k = 1 THEN {1} ELSE {}

Cleared(k) == {k}

Clear(a, k) ==
    /\ proc[a].at = <<"clear1", "clear2">>[k]
    /\ flagged' = flagged \ {proc[a].pair[i] : i \in Cleared(k)}
    /\ Goto(a, <<"clear2", Back(a)>>[k])
    /\ UNCHANGED <<text, verified, overtaken, Decisions, runs, edits>>

-----------------------------------------------------------------------------
(* Mutant: the pages are those the check saw.                               *)
PagesSeen(a) == proc[a].copy

PagesRead(a) == text

(* The pages are read and a model is asked for both texts.  It may fail, or *)
(* leave one as it is; a person may decline.  The tool's call to review a   *)
(* proposal ends here, too: the call to apply it asks the model anew.       *)
Read(a) ==
    /\ proc[a].at = "read"
    /\ proc' = [proc EXCEPT ![a] = [@ EXCEPT !.copy = PagesRead(a), !.fresh = TRUE, !.at = "ask"]]
    /\ UNCHANGED <<Pages, Decisions, runs, edits>>

Propose(a) ==
    /\ proc[a].at = "ask"
    /\ \/ Goto(a, Back(a))
       \/ \E revises \in SUBSET {1, 2} : proc' = [proc EXCEPT ![a] = [@ EXCEPT !.revises = revises, !.at = "write1"]]
    /\ UNCHANGED <<Pages, Decisions, runs, edits>>

(* apply_resolution: a text that is empty is not written, nor its flag.     *)
Apply(a, k) ==
    /\ proc[a].at = <<"write1", "write2">>[k]
    /\ LET x == proc[a].pair[k]
       IN  IF k \in proc[a].revises
           THEN /\ text' = [text EXCEPT ![x] = proc[a].copy[x]]
                /\ overtaken' = (overtaken \/ text[x] # proc[a].copy[x])
                /\ flagged' = flagged \ {x}
                /\ verified' = verified \cup {x}
           ELSE UNCHANGED Pages
    /\ Goto(a, <<"write2", "load">>[k])
    /\ UNCHANGED <<Decisions, runs, edits>>

Step(a) ==
    \/ BeginCheck(a) \/ BeginTool(a) \/ Killed(a)
    \/ Check(a) \/ Wizard(a)
    \/ Load(a) \/ Save(a) \/ Read(a) \/ Propose(a)
    \/ \E k \in {1, 2} : Flag(a, k) \/ Clear(a, k) \/ Apply(a, k)

Next == Edit \/ \E a \in Actors : Step(a)

Spec == Init /\ [][Next]_vars

-----------------------------------------------------------------------------
Finishes(a, why) == proc[a].why = why /\ proc[a].alone /\ proc[a].at \notin {"end", "wizard"} /\ proc'[a].at \in {"end", "wizard"} /\ proc'[a].why = why

(* A decision about a pair, in whichever order its atoms were given, lasts  *)
(* while decisions do not overlap and none is cut short.                    *)
DecisionsLast == raced \/ \A p \in decided : IsDismissed(store.pairs, <<p[2], p[1]>>)

(* "Future `wiki sync` runs will skip this pair permanently": no check that *)
(* begins after the decision reports the pair or flags its atoms for it.    *)
DecidedNotReported ==
    \A a \in Actors : proc[a].at = "check" /\ proc[a].alone /\ ~raced /\ proc'[a].at \in {"check", "flag1"} =>
           \A p \in decided : /\ proc'[a].at = "flag1" => Both(proc'[a].pair) # Both(p)
                              /\ proc'[a].found # proc[a].found => Both(Head(proc[a].todo)) # Both(p)

(* A dismissal that nothing overlaps leaves neither atom flagged.           *)
DismissedUnflagged ==
    \A a \in Actors : Finishes(a, "dismiss") => Both(proc[a].pair) \cap flagged' = {}

(* A resolution is written over a later edit only if that was made while    *)
(* the model was asked, or the result reviewed; not if it was made after    *)
(* the check found the pair.                                                *)
EditsKept == overtaken' # overtaken => \E a \in Actors : proc[a].at \in {"write1", "write2"} /\ ~proc[a].fresh

(* Decisions last, are heeded, and cost no edit.                            *)
Deciding == DecisionsLast' /\ DecidedNotReported /\ DismissedUnflagged /\ EditsKept
DecisionsHold == [][Deciding]_vars

(* Not checked, and false: after a resolution "is_flagged_for_agent is set  *)
(* to false" (apply_resolution).  Not on an atom whose text is left as is.  *)
ResolvedUnflagged ==
    [][\A a \in Actors : Finishes(a, "resolve") /\ proc[a].at = "save" => Both(proc[a].pair) \cap flagged' = {}]_vars

(* Not checked, and false: a dismissal takes the flag only from the pair it *)
(* is about.  An atom flagged for two pairs loses it with the first, and is *)
(* then missing among the contradictions.                                   *)
OthersStayFlagged ==
    [][\A a \in Actors : proc[a].at = "clear1" =>
           \A i \in DOMAIN Linked : Both(Linked[i]) \subseteq flagged /\ ~IsDismissed(Loaded, Linked[i]) =>
               Both(Linked[i]) \subseteq flagged']_vars

(* Not checked, and false: every linked pair is looked at, or decided.  The *)
(* pairs that were dismissed keep their places among the MaxPairs.          *)
EveryPairHasItsTurn ==
    \A i \in DOMAIN Linked :
        \/ IsDismissed(Loaded, Linked[i])
        \/ \E j \in DOMAIN Candidates : Candidates[j] = Linked[i]
        \/ \E j \in DOMAIN Candidates : ~IsDismissed(Loaded, Candidates[j])
=============================================================================
