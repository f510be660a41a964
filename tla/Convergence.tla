----------------------------- MODULE Convergence -----------------------------
(***************************************************************************)
(* Rows of the knowledge graph that two devices extracted on their own     *)
(* (db_sync.import_knowledge with its identity maps).                      *)
(*                                                                         *)
(* An entity is known by its name and a relation by its ends, but rows     *)
(* travel under ids that the device minted.  An import finds the rows that *)
(* this device has under another id, and translates the ids of the peer in *)
(* its tombstones, in the rows that refer to them, and once more over all  *)
(* tables at the end.                                                      *)
(*                                                                         *)
(* The graph has one relation, from the first name to the second, and      *)
(* supports of it by knowledge units, which are deleted with a tombstone.  *)
(* One transaction is one step; the exchange of files is that of DbSync.   *)
(***************************************************************************)
EXTENDS FiniteSets, Revisions

CONSTANTS
    Devices,
    Units,        \* knowledge units that may support the relation
    Rank,         \* a device's part of a moment: two never write at the same one
    Step,         \* revisions between two moments
    MaxWrites     \* bound: extractions and deletions

VARIABLES
    base,         \* per device: entities, relations, supports and tombstones
    file,         \* the snapshot it published last
    writes

vars == <<base, file, writes>>

Names == {"subject", "object"}
Ends == [from : Names \X Devices, to : Names \X Devices]

Empty == [ids |-> <<>>, rels |-> <<>>, supports |-> <<>>, tombs |-> <<>>]

Init ==
    /\ base = [d \in Devices |-> Empty]
    /\ file = [d \in Devices |-> Empty]
    /\ writes = 0

Now(d) == Step * (writes + 1) + Rank[d]

-----------------------------------------------------------------------------
(* Local writers *)

Write(d, s) ==
    /\ writes < MaxWrites
    /\ writes' = writes + 1
    /\ base' = [base EXCEPT ![d] = s]
    /\ UNCHANGED file

(* The relation a device has between two entities, if it has one. *)
Between(s, ends) == {r \in DOMAIN s.rels : s.rels[r].ends = ends}

(* upsert_graph_entity: the id it has, or one of its own. *)
EntitiesOf(s, d) == Over(s.ids, [n \in Names |-> <<n, d>>])
EndsOf(ids) == [from |-> ids["subject"], to |-> ids["object"]]

(* A compile that finds the entities and states no relation. *)
Mention(d) ==
    /\ DOMAIN base[d].ids # Names
    /\ Write(d, [base[d] EXCEPT !.ids = EntitiesOf(base[d], d)])

(* upsert_graph_relation and upsert_graph_relation_support: a support that  *)
(* was deleted comes back newer than its tombstone.                         *)
Stated(s, r, u, ids, now) ==
    LET support == <<r, u>>
        buried == IF support \in DOMAIN s.tombs THEN {s.tombs[support].rev} ELSE {}
    IN [ids |-> ids,
        rels |-> Over([x \in {r} |-> [ends |-> EndsOf(ids), rev |-> now]], s.rels),
        supports |-> Over([x \in {support} |-> [rev |-> Successor(now, buried)]], s.supports),
        tombs |-> Without(s.tombs, {support})]

(* A unit states the relation, the one there is between these entities or a new one. *)
Extract(d, u) ==
    LET s == base[d]
        ids == EntitiesOf(s, d)
        known == Between(s, EndsOf(ids))
    IN Write(d, Stated(s, IF known = {} THEN d ELSE CHOOSE x \in known : TRUE, u, ids, Now(d)))

(* retire_knowledge_unit and the other deletions of supports. *)
Delete(d, key) ==
    LET s == base[d]  rev == Successor(Now(d), {s.supports[key].rev}) IN
    Write(d, [s EXCEPT !.supports = Without(@, {key}),
                       !.tombs = Over([x \in {key} |-> [rev |-> rev]], @)])

-----------------------------------------------------------------------------
(* Import *)

Image(map, x) == IF x \in DOMAIN map THEN map[x] ELSE x

(* Mutant: one of the two columns is forgotten.                             *)
FromIn(map, ends) == [ends EXCEPT !.from = Image(map, @)]

EndsIn(map, ends) == [from |-> Image(map, ends.from), to |-> Image(map, ends.to)]

(* What the file calls a row that is here under another id. *)
EntityMap(s, f) ==
    LET met == {n \in DOMAIN f.ids \cap DOMAIN s.ids : f.ids[n] # s.ids[n]} IN
    [id \in {f.ids[n] : n \in met} |-> s.ids[CHOOSE n \in met : f.ids[n] = id]]

(* Mutant: the ends of the peer's relations are compared as they are.       *)
MetUntranslated(s, f) ==
    LET met == {r \in DOMAIN f.rels : Between(s, f.rels[r].ends) \ {r} # {}} IN
    [r \in met |-> CHOOSE x \in Between(s, f.rels[r].ends) : x # r]

(* Relations that are here under another id, their ends translated. *)
Met(s, f) ==
    LET Here(r) == Between(s, EndsIn(EntityMap(s, f), f.rels[r].ends)) \ {r}
        met == {r \in DOMAIN f.rels : Here(r) # {}}
    IN [r \in met |-> CHOOSE x \in Here(r) : TRUE]

(* _prescan_converged_ids looks at relations if it found an entity. *)
Prescanned(s, f) == IF EntityMap(s, f) = <<>> THEN <<>> ELSE Met(s, f)

Key(map, key) == <<Image(map, key[1]), key[2]>>

(* Mutant: the keys of tombstones are taken as they come.                   *)
TombstonesAsSent(s, f) == f.tombs

(* A tombstone is translated by what the prescan found. *)
Tombstones(s, f) ==
    LET map == Prescanned(s, f)
        of(key) == {k \in DOMAIN f.tombs : Key(map, k) = key}
    IN [key \in {Key(map, k) : k \in DOMAIN f.tombs} |->
           [rev |-> Newest({f.tombs[k].rev : k \in of(key)})]]

(* _apply_tombstone: unless there is a newer one, or the row is newer. *)
Buried(s, f) ==
    LET ts == Tombstones(s, f)
        applied == {key \in DOMAIN ts :
                      /\ key \in DOMAIN s.tombs => s.tombs[key].rev < ts[key].rev
                      /\ key \in DOMAIN s.supports => s.supports[key].rev <= ts[key].rev}
    IN [s EXCEPT !.tombs = Over(Restrict(ts, applied), @), !.supports = Without(@, applied)]

(* Entities that are not here; relations under the id they have here. *)
GraphMerged(s, f) ==
    LET map == Met(s, f)
        rows == [r \in {Image(map, x) : x \in DOMAIN f.rels} |->
                    LET theirs == CHOOSE y \in DOMAIN f.rels : Image(map, y) = r IN
                    [f.rels[theirs] EXCEPT !.ends = EndsIn(EntityMap(s, f), @)]]
    IN [s EXCEPT !.ids = Over(s.ids, f.ids), !.rels = Newer(s.rels, rows)]

(* Mutant: a row is asked for its tombstone under the peer's id.            *)
SupportsAsSent(s, f) ==
    LET back == {key \in DOMAIN f.supports : key \in DOMAIN s.tombs => s.tombs[key].rev < f.supports[key].rev}
        map == Met(s, f)
        rows == [key \in {Key(map, k) : k \in back} |->
                    f.supports[CHOOSE k \in back : Key(map, k) = key]]
    IN [s EXCEPT !.supports = Newer(s.supports, rows), !.tombs = Without(@, back)]

(* Supports under the relation's id here, unless a tombstone bars them. *)
SupportsMerged(s, f) ==
    LET map == Met(s, f)
        rows == [key \in {Key(map, k) : k \in DOMAIN f.supports} |->
                    f.supports[CHOOSE k \in DOMAIN f.supports : Key(map, k) = key]]
        back == {key \in DOMAIN rows : key \in DOMAIN s.tombs => s.tombs[key].rev < rows[key].rev}
    IN [s EXCEPT !.supports = Newer(s.supports, Restrict(rows, back)),
                 !.tombs = Without(@, back)]

(* _remap_converged_ids: the same over what was here already. *)
Remapped(s, ents, rels) ==
    [s EXCEPT !.rels = [r \in DOMAIN s.rels |-> [s.rels[r] EXCEPT !.ends = EndsIn(ents, @)]],
              !.supports = [key \in {Key(rels, k) : k \in DOMAIN s.supports} |->
                               s.supports[CHOOSE k \in DOMAIN s.supports : Key(rels, k) = key]]]

(* One transaction, in the order of the tables in the file. *)
After(d, p) ==
    LET s == base[d]  f == file[p]
        merged == SupportsMerged(GraphMerged(Buried(s, f), f), f)
    IN Remapped(merged, EntityMap(s, f), Met(s, f))

Import(d, p) ==
    /\ base' = [base EXCEPT ![d] = After(d, p)]
    /\ base' # base
    /\ UNCHANGED <<file, writes>>

Export(d) ==
    /\ file[d] # base[d]
    /\ file' = [file EXCEPT ![d] = base[d]]
    /\ UNCHANGED <<base, writes>>

Next ==
    \/ \E d \in Devices : Mention(d)
    \/ \E d \in Devices, u \in Units : Extract(d, u)
    \/ \E d \in Devices : \E key \in DOMAIN base[d].supports : Delete(d, key)
    \/ \E d \in Devices : Export(d)
    \/ \E d \in Devices : \E p \in Devices \ {d} : Import(d, p)

Spec == Init /\ [][Next]_vars

-----------------------------------------------------------------------------
(* Properties *)

TypeOK ==
    /\ \A s \in {base[d] : d \in Devices} \cup {file[d] : d \in Devices} :
          /\ \A n \in DOMAIN s.ids : n \in Names /\ s.ids[n] \in {n} \X Devices
          /\ DOMAIN s.rels \subseteq Devices
          /\ \A r \in DOMAIN s.rels : s.rels[r] \in [ends : Ends, rev : Nat]
          /\ \A T \in {s.supports, s.tombs} :
                DOMAIN T \subseteq Devices \X Units /\ \A key \in DOMAIN T : T[key] \in [rev : Nat]
          /\ DOMAIN s.supports \cap DOMAIN s.tombs = {}
    /\ writes \in 0..MaxWrites

(* No row refers to a row this device does not have: the ends of relations  *)
(* are its own entities, supports are of its own relations.                 *)
NothingDangles ==
    \A d \in Devices : LET s == base[d] IN
        /\ \A r \in DOMAIN s.rels : {s.rels[r].ends.from, s.rels[r].ends.to} \subseteq {s.ids[n] : n \in DOMAIN s.ids}
        /\ \A key \in DOMAIN s.supports : key[1] \in DOMAIN s.rels

(* No import makes two rows of one relation. *)
OneRowPerRelation ==
    \A d \in Devices : \A r, q \in DOMAIN base[d].rels :
        base[d].rels[r].ends = base[d].rels[q].ends => r = q

SupportedBy(s) == {key[2] : key \in DOMAIN s.supports}

Quiet == \A d, p \in Devices : file[d] = base[d] /\ (d # p => After(d, p) = base[d])

(* The relation was minted twice while its ends were not: the prescan finds *)
(* no entity and does not look for relations.                               *)
MintedAlone ==
    \E d, p \in Devices : DOMAIN base[d].rels # DOMAIN base[p].rels /\ base[d].ids = base[p].ids

(* Where the exchange has come to rest, the devices hold the same supports: *)
(* a deletion reached the peer under its own ids, and a support did not     *)
(* walk back in past the tombstone of this device.                          *)
DeletesArrive ==
    Quiet /\ ~ MintedAlone => \A d, p \in Devices : SupportedBy(base[d]) = SupportedBy(base[p])

(* Identities that devices chose alone become one, and nothing is left over. *)
IdentitiesMeet == TypeOK /\ NothingDangles /\ OneRowPerRelation /\ DeletesArrive

(* The same without that exception.                                         *)
DeletesAlwaysArrive ==
    Quiet => \A d, p \in Devices : SupportedBy(base[d]) = SupportedBy(base[p])
=============================================================================
