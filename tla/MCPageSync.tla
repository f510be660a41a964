----------------------------- MODULE MCPageSync -----------------------------
(* A vault of one Context, two Atoms, two Concepts and one Synthesis. *)
EXTENDS PageSync, TLC

CONSTANTS x1, a1, a2, c1, c2, y1, s1

Page(text, refs, mentions, relations) ==
    [text |-> text, refs |-> refs, mentions |-> mentions, relations |-> relations]

MCContexts  == {x1}
MCAtoms     == {a1, a2}
MCConcepts  == {c1, c2}
MCSyntheses == {y1}
MCSources   == {s1}
MCNamed     == {c1}

\* What reemit_projections writes: every Concept with one Relations section.
MCFirstPages ==
    x1 :> Page(0, {}, {}, <<>>)
 @@ a1 :> Page(0, {x1}, {}, <<>>)
 @@ a2 :> Page(0, {x1}, {}, <<>>)
 @@ c1 :> Page(0, {}, {}, <<{a1, a2}>>)
 @@ c2 :> Page(0, {}, {}, <<{a1}>>)
 @@ y1 :> Page(0, {c1, c2}, {}, <<>>)

\* Edits: other prose, a lost page, a lost or an emptied Relations section.
MCDrafts ==
    x1 :> {NoPage}
 @@ a1 :> {Page(1, {}, {}, <<>>)}
 @@ a2 :> {NoPage}
 @@ c1 :> {Page(0, {}, {a1, a2}, <<>>), Page(0, {}, {a1}, <<{}>>)}
 @@ c2 :> {NoPage}
 @@ y1 :> {}
=============================================================================
