----------------------------- MODULE Generations -----------------------------
(***************************************************************************)
(* What several devices serve of one Markdown source that each of them may *)
(* compile (db_sync.import_knowledge and its reconciliation of             *)
(* authoritative generations, with the publish transaction of a compile).  *)
(*                                                                         *)
(* A publish makes a generation authoritative: it stamps units and         *)
(* authored relations and lists them in its audit.  Devices exchange their *)
(* rows in snapshot files; rows are merged one by one, the newer revision  *)
(* winning, and then a single generation is chosen and made to serve.      *)
(*                                                                         *)
(* One transaction is one step here; DbSync has the passes, the tombstones *)
(* and the file synchronizer.  The source is not deleted, its file is a    *)
(* note, and the units a compile may keep are any it finds.                *)
(***************************************************************************)
EXTENDS FiniteSets, Revisions

CONSTANTS
    Devices,
    Gens,         \* ids of generations, ordered as texts; a new unit has its generation's
    Rels,         \* ids of authored relations: hashes, the same on every device
    Texts,        \* contents of the source, by age
    Skews,        \* how far a device's clock may be ahead
    Rank,         \* a device's part of a moment: two never write at the same one
    Step,         \* revisions between two moments
    MaxWrites     \* bound: publishes and updates of the source row

ASSUME GenerationsAssumption ==
    /\ IsFiniteSet(Devices) /\ IsFiniteSet(Gens) /\ IsFiniteSet(Rels)
    /\ Gens \subseteq Nat /\ Texts \subseteq Nat /\ 1 \in Texts
    /\ Skews \subseteq Nat /\ MaxWrites \in Nat /\ Step \in Nat \ {0}
    /\ Rank \in [Devices -> 0..(Step - 1)]

VARIABLES
    base,         \* per device: the rows of its database about the source
    file,         \* the snapshot it published last
    skew,         \* how far its clock is ahead
    writes

vars == <<base, file, skew, writes>>

Empty == [source |-> [text |-> 1, rev |-> 0], gens |-> <<>>, units |-> <<>>, rels |-> <<>>]

Init ==
    /\ base = [d \in Devices |-> Empty]
    /\ file = [d \in Devices |-> Empty]
    /\ skew \in {s \in [Devices -> Skews] : \E d \in Devices : s[d] = 0}
    /\ writes = 0

(* Strict successors of a moment fall between it and the next one. *)
Now(d) == Step * (writes + 1 + skew[d]) + Rank[d]

Authoritative(s) == {g \in DOMAIN s.gens : s.gens[g].status = "authoritative"}
Served(s) == {u \in DOMAIN s.units : s.units[u].live /\ s.units[u].gen \in Authoritative(s)}
Active(s) == {r \in DOMAIN s.rels : s.rels[r].active}

-----------------------------------------------------------------------------
(* Local writers *)

Write(d, s) ==
    /\ writes < MaxWrites
    /\ writes' = writes + 1
    /\ base' = [base EXCEPT ![d] = s]
    /\ UNCHANGED <<file, skew>>

(* Mutant: an update leaves the revision.                                   *)
TouchedSilently(s, text, now) == [s EXCEPT !.source.text = text]

Touched(s, text, now) == [s EXCEPT !.source = [text |-> text, rev |-> Successor(now, {@.rev})]]

(* The row of the source is updated: a newer text is registered, or a status. *)
UpdateSource(d, text) ==
    /\ text >= base[d].source.text
    /\ Write(d, Touched(base[d], text, Now(d)))

(* A relation of the new set is written anew, with the time as its revision, *)
(* and classified; one that is not in the set any more is retired.           *)
Authored(s, g, members, now) ==
    Over([r \in members |-> [gen |-> g, active |-> TRUE, rev |-> now + 1]],
         [r \in DOMAIN s.rels |->
             IF s.rels[r].active
             THEN [s.rels[r] EXCEPT !.active = FALSE, !.rev = Successor(now, {@})]
             ELSE s.rels[r]])

(* Mutant: only carried units are stamped.                                  *)
StampedCarried(s, g, carried, now) ==
    Over([u \in carried |-> [gen |-> g, live |-> TRUE, rev |-> now]], s.units)

(* Mutant: carried units keep their revision.                               *)
StampedSilently(s, g, carried, now) ==
    Over([u \in carried |-> [s.units[u] EXCEPT !.gen = g]],
         Over([u \in {g} |-> [gen |-> g, live |-> TRUE, rev |-> now]], s.units))

(* Extracted and carried units are stamped, the other served ones retired. *)
Stamped(s, g, carried, now) ==
    Over([u \in carried \cup {g} |-> [gen |-> g, live |-> TRUE, rev |-> now]],
         [u \in DOMAIN s.units |->
             IF u \in Served(s)
             THEN [s.units[u] EXCEPT !.live = FALSE, !.rev = Successor(now, {@})]
             ELSE s.units[u]])

(* The new generation is authoritative, its predecessor discarded. *)
Flipped(s, g, carried, members, now) ==
    Over([x \in {g} |-> [status |-> "authoritative", text |-> s.source.text, published |-> now,
                               rev |-> now, units |-> carried \cup {g}, members |-> members]],
         [h \in DOMAIN s.gens |->
             IF h \in Authoritative(s)
             THEN [s.gens[h] EXCEPT !.status = "discarded", !.rev = Successor(now, {@})]
             ELSE s.gens[h]])

(* An id that was never used; which one decides nothing, as no two *)
(* generations are published at one moment.                        *)
Fresh == LET free == Gens \ UNION {DOMAIN base[d].gens : d \in Devices} IN {g \in free : g = Min(free)}

(* The publish transaction, which stamps the source row too. *)
Publish(d, g, carried, members) ==
    LET s == base[d]  now == Now(d) IN
    /\ Write(d, Touched([s EXCEPT !.gens = Flipped(s, g, carried, members, now),
                                  !.units = Stamped(s, g, carried, now),
                                  !.rels = Authored(s, g, members, now)],
                        s.source.text, now))

-----------------------------------------------------------------------------
(* Import *)

Merged(s, f) ==
    [source |-> IF f.source.rev > s.source.rev THEN f.source ELSE s.source,
     gens |-> Newer(s.gens, f.gens), units |-> Newer(s.units, f.units), rels |-> Newer(s.rels, f.rels)]

(* Mutant: what was published first wins.                                   *)
BeatsFirst(s, g, h) == s.gens[g].published <= s.gens[h].published

(* winner_key, the larger wins: made of the text at hand, then published last. *)
Beats(s, g, h) ==
    LET a == s.gens[g]  b == s.gens[h]
        Key(x) == <<IF x.text = s.source.text THEN 1 ELSE 0, x.published, x.rev>>
        before == {i \in 1..3 : Key(a)[i] # Key(b)[i]}
    IN IF before = {} THEN g >= h ELSE Key(a)[Min(before)] > Key(b)[Min(before)]

Winner(s) == CHOOSE g \in Authoritative(s) : \A h \in Authoritative(s) : Beats(s, g, h)

(* Everything the reconciliation writes is newer than all it looks at. *)
Revision(s, g, now) ==
    Successor(now, {s.gens[h].rev : h \in Authoritative(s)} \cup {s.rels[r].rev : r \in DOMAIN s.rels})

(* Mutant: relations are left as the merge of their rows made them.         *)
RepairedNever(s, g, rev) == s.rels

(* Members are repaired where they need it, the rest of the source's *)
(* relations is retired.                                             *)
Repaired(s, g, rev) ==
    [r \in DOMAIN s.rels |->
        IF r \in s.gens[g].members
        THEN IF s.rels[r].gen = g /\ s.rels[r].active THEN s.rels[r]
             ELSE [gen |-> g, active |-> TRUE, rev |-> rev]
        ELSE IF s.rels[r].active THEN [s.rels[r] EXCEPT !.active = FALSE, !.rev = rev + 1]
             ELSE s.rels[r]]

(* What lost is discarded, newer than all that was looked at. *)
Discarded(s, g, rev) ==
    [h \in DOMAIN s.gens |->
        IF h \in Authoritative(s) \ {g}
        THEN [s.gens[h] EXCEPT !.status = "discarded", !.rev = rev]
        ELSE s.gens[h]]

(* _reconcile_authoritative_generations, also when there is only one. *)
Reconciled(s, now) ==
    IF Authoritative(s) = {} THEN s
    ELSE LET g == Winner(s)  rev == Revision(s, g, now) IN
         [s EXCEPT !.gens = Discarded(s, g, rev), !.rels = Repaired(s, g, rev)]

(* What an import may leave: rows are merged, then the choice is made. *)
After(d, p) == {Reconciled(s, Now(d)) : s \in {Merged(base[d], file[p])}}

(* One transaction. *)
Import(d, p) ==
    /\ \E s \in After(d, p) : s # base[d] /\ base' = [base EXCEPT ![d] = s]
    /\ UNCHANGED <<file, skew, writes>>

Export(d) ==
    /\ file[d] # base[d]
    /\ file' = [file EXCEPT ![d] = base[d]]
    /\ UNCHANGED <<base, skew, writes>>

Exchange ==
    \/ \E d \in Devices : Export(d)
    \/ \E d \in Devices : \E p \in Devices \ {d} : Import(d, p)

Next ==
    \/ \E d \in Devices, text \in Texts : UpdateSource(d, text)
    \/ \E d \in Devices : \E g \in Fresh, members \in SUBSET Rels :
          \E carried \in SUBSET Served(base[d]) : Publish(d, g, carried, members)
    \/ Exchange

Spec == Init /\ [][Next]_vars

(* The exchange goes on while a device has something to give, in any order. *)
Fairness == WF_vars(Exchange)

FairSpec == Spec /\ Fairness

-----------------------------------------------------------------------------
(* Properties *)

Rev == Nat
TypeOK ==
    /\ \A s \in {base[d] : d \in Devices} \cup {file[d] : d \in Devices} :
          /\ s.source \in [text : Texts, rev : Rev]
          /\ DOMAIN s.gens \subseteq Gens /\ DOMAIN s.units = DOMAIN s.gens /\ DOMAIN s.rels \subseteq Rels
          /\ \A g \in DOMAIN s.gens : s.gens[g] \in
                [status : {"authoritative", "discarded"}, text : Texts, published : Rev, rev : Rev,
                 units : SUBSET DOMAIN s.gens, members : SUBSET DOMAIN s.rels]
          /\ \A u \in DOMAIN s.units : s.units[u] \in [gen : DOMAIN s.gens, live : BOOLEAN, rev : Rev]
          /\ \A r \in DOMAIN s.rels : s.rels[r] \in [gen : DOMAIN s.gens, active : BOOLEAN, rev : Rev]
    /\ writes \in 0..MaxWrites /\ skew \in [Devices -> Skews]

(* Never do two generations serve on a device, whatever a merge brings.     *)
AtMostOneServes == \A d \in Devices : \A g, h \in Authoritative(base[d]) : g = h

(* The authored relations that count are those the serving generation's     *)
(* audit lists, whatever revisions the rows of relations had: a newer row   *)
(* of a generation that lost does not decide.                               *)
TopologyOfWinner ==
    \A d \in Devices : \A g \in Authoritative(base[d]) :
        /\ Active(base[d]) = base[d].gens[g].members
        /\ \A r \in Active(base[d]) : base[d].rels[r].gen = g

Quiet == \A d, p \in Devices : file[d] = base[d] /\ After(d, p) = {base[d]}

Agree == \A d, e \in Devices :
    /\ Authoritative(base[d]) = Authoritative(base[e])
    /\ Active(base[d]) = Active(base[e])
    /\ base[d].source = base[e].source

(* Once nobody writes, the devices come to serve one generation and one     *)
(* topology, and stop exchanging.                                           *)
Settles == <>[](Quiet /\ Agree)

(* What is known anywhere was made of one text, by clocks that agree.       *)
OneText ==
    /\ \A d, e \in Devices : skew[d] = skew[e]
    /\ \A d, e \in Devices : \A g \in DOMAIN base[d].gens, h \in DOMAIN base[e].gens :
          base[d].gens[g].text = base[e].gens[h].text

(* Then the generation published last, of those that a device knows, serves *)
(* there with every unit that it extracted or carried over, however far the *)
(* exchange has come: nothing it has is lost to an older generation.        *)
LastServes ==
    OneText =>
        \A d \in Devices : base[d].gens # <<>> =>
            \E g \in Authoritative(base[d]) :
                /\ \A h \in DOMAIN base[d].gens : base[d].gens[h].published <= base[d].gens[g].published
                /\ base[d].gens[g].units \subseteq Served(base[d])

(* A device serves one generation, with the relations and units that are    *)
(* its own.                                                                 *)
OneGenerationServes == TypeOK /\ AtMostOneServes /\ TopologyOfWinner /\ LastServes

(* A source that was compiled is served by exactly one generation.  It      *)
(* fails: with two texts about, each of two devices may discard the         *)
(* generation that the other one chose, as the choice follows the text that *)
(* the source has there; after the next exchange none serves any more.      *)
ServesOne == \A d \in Devices : base[d].gens # <<>> => Cardinality(Authoritative(base[d])) = 1
=============================================================================
