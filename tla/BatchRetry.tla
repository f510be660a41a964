------------------------------ MODULE BatchRetry ------------------------------
(***************************************************************************)
(* The extraction of one source's batches by a language model, with the    *)
(* split of a batch whose answer does not validate, and its resumption by  *)
(* a later run (pipeline/knowledge_units.py).                              *)
(*                                                                         *)
(* A batch is a sequence of pieces: a span, or a half of a half of it.  An *)
(* answer is accepted, fails validation, or raises; which one, nothing in  *)
(* the code decides.  One run is one step; it may die between two batches  *)
(* or inside one.  Accepted answers have units, and a stored batch is      *)
(* found again by its rendered text, which a batch stands for here.        *)
(* CompileSource has the run's place in a compile.                         *)
(***************************************************************************)
EXTENDS Integers, SequencesExt, FiniteSetsExt

CONSTANTS
    Batches,      \* the batches of the source: sequences of spans
    Size,         \* characters of a span
    Smallest,     \* _MIN_SINGLE_SPAN_RETRY_CHARS
    MaxDepth,     \* _MAX_RETRY_DEPTH
    MaxRuns       \* bound: runs

VARIABLES
    stored,       \* what has units without a generation
    accepted,     \* what was ever accepted
    lost,         \* accepted, and then given up
    again,        \* what the last run asked for although it was accepted and kept
    result,       \* what the last run returned
    runs

vars == <<stored, accepted, lost, again, result, runs>>

Pieces(batch) == [i \in DOMAIN batch |-> [span |-> batch[i], path |-> <<>>]]

Init ==
    /\ stored = {} /\ accepted = {} /\ lost = {} /\ again = {}
    /\ result = [ok |-> FALSE, parts |-> <<>>]
    /\ runs = 0

(* Both halves of a text reach over its middle. *)
Half(n) == (n \div 2) + Min({500, n \div 20})
Length(piece) == FoldLeft(LAMBDA n, side : Half(n), Size[piece.span], piece.path)
Sum(batch) == FoldLeft(LAMBDA n, p : n + Length(p), 0, batch)

(* The pieces up to the middle of the text, but not all of them. *)
SplitAt(batch) ==
    LET reach == {i \in DOMAIN batch : Sum(SubSeq(batch, 1, i)) >= Max({1, Sum(batch) \div 2})}
    IN Min({Min(reach), Len(batch) - 1})

(* Mutant: the piece at the middle is in both halves.                       *)
HalvesOverlapping(batch) ==
    IF Len(batch) > 1
    THEN LET at == SplitAt(batch) IN <<SubSeq(batch, 1, at), SubSeq(batch, at, Len(batch))>>
    ELSE [side \in {1, 2} |-> <<[batch[1] EXCEPT !.path = Append(@, side)]>>]

(* _split_batch_for_retry *)
Halves(batch) ==
    IF Len(batch) > 1
    THEN LET at == SplitAt(batch) IN <<SubSeq(batch, 1, at), SubSeq(batch, at + 1, Len(batch))>>
    ELSE [side \in {1, 2} |-> <<[batch[1] EXCEPT !.path = Append(@, side)]>>]

Splittable(batch) == Len(batch) > 1 \/ Length(batch[1]) > Smallest

(* parts: accepted or adopted, in order; fresh: accepted now, to be stored;  *)
(* paid: all that was accepted now; dropped: what of it was given up; asked: *)
(* all that was asked.                                                       *)
Adopted(batch) == [failed |-> FALSE, parts |-> <<batch>>, fresh |-> {}, paid |-> {}, dropped |-> {}, asked |-> {}]
Accepted(batch) == [failed |-> FALSE, parts |-> <<batch>>, fresh |-> {batch}, paid |-> {batch}, dropped |-> {},
                    asked |-> {batch}]
Failed(batch) == [failed |-> TRUE, parts |-> <<>>, fresh |-> {}, paid |-> {}, dropped |-> {}, asked |-> {batch}]

(* The right half is asked if the left one did not fail; what an inner half *)
(* of a failed left one had accepted is not handed on.                      *)
LeftFailed(batch, left) ==
    [left EXCEPT !.parts = <<>>, !.fresh = {}, !.dropped = left.paid, !.asked = @ \cup {batch}]

Joined(batch, left, right) ==
    [failed |-> right.failed, parts |-> left.parts \o right.parts, fresh |-> left.fresh \cup right.fresh,
     paid |-> left.paid \cup right.paid, dropped |-> left.dropped \cup right.dropped,
     asked |-> left.asked \cup right.asked \cup {batch}]

(* _run_batch_with_retry: all ways it may go. *)
RECURSIVE Outcomes(_, _)
Outcomes(batch, depth) ==
    IF batch \in stored THEN {Adopted(batch)}
    ELSE {Accepted(batch), Failed(batch)} \cup
         IF depth < MaxDepth /\ Splittable(batch)
         THEN UNION {IF left.failed THEN {LeftFailed(batch, left)}
                     ELSE {Joined(batch, left, right) : right \in Outcomes(Halves(batch)[2], depth + 1)} :
                        left \in Outcomes(Halves(batch)[1], depth + 1)}
         ELSE {}

(* Mutant: units are stored when the whole batch was accepted.              *)
PersistedWhole(o) == IF o.failed THEN {} ELSE o.fresh

(* Units of a batch are stored when it ends, also of one half of a failed one. *)
Persisted(o) == o.fresh

Nothing == [stored |-> {}, paid |-> {}, dropped |-> {}, asked |-> {}, parts |-> <<>>, ok |-> TRUE]

(* Batches in order up to the first that fails; a death inside one takes    *)
(* what it had accepted.                                                    *)
RECURSIVE Courses(_)
Courses(batches) ==
    IF batches = <<>> THEN {Nothing}
    ELSE UNION {
        LET paid(course) == [course EXCEPT !.paid = @ \cup o.paid, !.asked = @ \cup o.asked]
            kept(course) == [course EXCEPT !.stored = @ \cup Persisted(o), !.parts = o.parts \o @,
                                           !.dropped = @ \cup o.dropped]
            cut == paid([Nothing EXCEPT !.ok = FALSE])
        IN {[cut EXCEPT !.dropped = o.paid]} \cup
                      (IF o.failed THEN {kept(cut)}
                       ELSE {kept(paid(c)) : c \in Courses(Tail(batches))}) :
        o \in Outcomes(Pieces(Head(batches)), 0)}

(* extract_knowledge_units; the units of a run that succeeds are published. *)
Run ==
    /\ runs < MaxRuns /\ ~ result.ok
    /\ \E c \in Courses(Batches) :
          /\ stored' = stored \cup c.stored
          /\ accepted' = accepted \cup c.paid
          /\ lost' = (lost \cup c.dropped) \ c.stored
          /\ again' = (c.asked \cap accepted) \ lost
          /\ result' = [ok |-> c.ok, parts |-> c.parts]
    /\ runs' = runs + 1

Next == Run

Spec == Init /\ [][Next]_vars

-----------------------------------------------------------------------------
(* Properties *)

RECURSIVE Covers(_, _)
(* The pieces of a span are the span, or they cover both halves of it. *)
Covers(paths, depth) ==
    IF <<>> \in paths THEN paths = {<<>>}
    ELSE /\ depth > 0
         /\ \A side \in {1, 2} : Covers({Tail(p) : p \in {q \in paths : q[1] = side}}, depth - 1)

(* A run that succeeds has units of the whole text, each part of it once,   *)
(* however its batches were split, adopted and asked again.                 *)
WholeTextOnce ==
    LET pieces == FlattenSeq(result.parts) IN
    result.ok =>
        /\ \A b \in ToSet(Batches) : \A s \in ToSet(b) :
              Covers({p.path : p \in {q \in ToSet(pieces) : q.span = s}}, MaxDepth + 1)
        /\ Len(pieces) = Cardinality(ToSet(pieces))

(* An answer that was accepted is not paid for again, unless its units were *)
(* given up: by a death inside its batch, or inside a left half that failed. *)
PaidOnce == again = {}

(* A text is asked for whole, and paid for once, however its batches fail.  *)
TextOncePaidOnce == WholeTextOnce /\ PaidOnce
=============================================================================
