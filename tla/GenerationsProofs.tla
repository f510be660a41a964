--------------------------- MODULE GenerationsProofs ---------------------------
(***************************************************************************)
(* Proofs about Generations, for any devices, generations, relations,      *)
(* texts, clocks and number of writes.                                     *)
(***************************************************************************)
EXTENDS Generations, FiniteSetTheorems, TLAPS

(* Tables with keys in K and rows in R.                                    *)
Tables(K, R) == UNION {[D -> R] : D \in SUBSET K}

SourceRows == [text : Texts, rev : Nat]
GenRows == [status : {"authoritative", "discarded"}, text : Texts, published : Nat, rev : Nat,
            units : SUBSET Gens, members : SUBSET Rels]
UnitRows == [gen : Gens, live : BOOLEAN, rev : Nat]
RelRows == [gen : Gens, active : BOOLEAN, rev : Nat]

Databases == [source : SourceRows, gens : Tables(Gens, GenRows),
              units : Tables(Gens, UnitRows), rels : Tables(Rels, RelRows)]

(* No row refers to one that is not there.                                 *)
Closed(s) ==
    /\ DOMAIN s.units = DOMAIN s.gens
    /\ \A g \in DOMAIN s.gens : s.gens[g].units \subseteq DOMAIN s.gens /\ s.gens[g].members \subseteq DOMAIN s.rels
    /\ \A u \in DOMAIN s.units : s.units[u].gen \in DOMAIN s.gens
    /\ \A r \in DOMAIN s.rels : s.rels[r].gen \in DOMAIN s.gens

One(s) == \A g, h \in Authoritative(s) : g = h

(* The relations that count are those of the generation that serves.       *)
Topology(s) ==
    \A g \in Authoritative(s) :
        /\ Active(s) = s.gens[g].members
        /\ \A r \in Active(s) : s.rels[r].gen = g

Sound(s) == s \in Databases /\ Closed(s) /\ One(s) /\ Topology(s)

-----------------------------------------------------------------------------
(* Finite sets and tables *)

(* A finite set has an element at which a function is largest: one takes   *)
(* a subset without such an element that has no smaller one.               *)
LEMMA Greatest ==
  ASSUME NEW S, IsFiniteSet(S), S # {}, NEW f \in [S -> Nat]
  PROVE  \E x \in S : \A y \in S : f[y] <= f[x]
<1> DEFINE Bad == {X \in SUBSET S : X # {} /\ \A x \in X : \E y \in X : ~ (f[y] <= f[x])}
<1>1. ASSUME Bad # {} PROVE FALSE
  <2>1. Bad \subseteq FiniteSubsetsOf(S)
    BY FS_Subset DEF FiniteSubsetsOf
  <2>2. IsWellFoundedOn(StrictSubsetOrdering(S), FiniteSubsetsOf(S))
    BY FS_StrictSubsetOrderingWellFounded
  <2> HIDE DEF Bad
  <2>3. PICK X \in Bad : \A Y \in Bad : ~ (<<Y, X>> \in StrictSubsetOrdering(S))
    BY <1>1, <2>1, <2>2, WFMin
  <2> USE DEF Bad
  <2>4. X \in SUBSET S /\ X # {} /\ \A x \in X : \E y \in X : ~ (f[y] <= f[x])
    OBVIOUS
  <2>5. PICK x \in X : TRUE
    BY <2>4
  <2>6. X \ {x} # {}
    BY <2>4, <2>5
  <2>7. X \ {x} \notin Bad
    BY <2>3, <2>4, <2>5 DEF StrictSubsetOrdering
  <2>8. PICK m \in X \ {x} : \A y \in X \ {x} : f[y] <= f[m]
    BY <2>4, <2>6, <2>7
  <2>9. f[x] \in Nat /\ f[m] \in Nat /\ \A y \in X : f[y] \in Nat
    BY <2>4, <2>5, <2>8
  <2>10. PICK y \in X : ~ (f[y] <= f[m])
    BY <2>4, <2>8
  <2>11. y = x
    BY <2>8, <2>10
  <2>12. f[m] < f[x]
    BY <2>9, <2>10, <2>11
  <2>13. \A z \in X : f[z] <= f[x]
    BY <2>8, <2>9, <2>12
  <2> QED
    BY <2>4, <2>5, <2>13
<1> QED
  BY <1>1

LEMMA NewestIs ==
  ASSUME NEW S, IsFiniteSet(S), S \subseteq Nat
  PROVE  Newest(S) \in S \cup {0} /\ \A x \in S : x <= Newest(S)
<1>1. IsFiniteSet(S \cup {0}) /\ S \cup {0} \subseteq Nat
  BY FS_AddElement
<1>2. PICK f : f = [x \in S \cup {0} |-> x]
  OBVIOUS
<1>3. f \in [S \cup {0} -> Nat] /\ \A x \in S \cup {0} : f[x] = x
  BY <1>1, <1>2
<1>4. PICK x \in S \cup {0} : \A y \in S \cup {0} : f[y] <= f[x]
  BY <1>1, <1>3, Greatest
<1>5. \A y \in S \cup {0} : x >= y
  BY <1>1, <1>3, <1>4
<1>6. Newest(S) \in S \cup {0} /\ \A y \in S \cup {0} : Newest(S) >= y
  BY <1>5 DEF Newest, Max
<1> QED
  BY <1>1, <1>6

(* The revision that is given to a row is newer than all it looks at, and  *)
(* it is the time where that is newer.                                     *)
LEMMA SuccessorIs ==
  ASSUME NEW S, IsFiniteSet(S), S \subseteq Nat, NEW now \in Nat
  PROVE  /\ Successor(now, S) \in Nat
         /\ \A x \in S : x < Successor(now, S)
         /\ 0 < now /\ (\A x \in S : x < now) => Successor(now, S) = now
<1>1. Newest(S) \in S \cup {0} /\ \A x \in S : x <= Newest(S)
  BY NewestIs
<1>2. PICK n : n = Newest(S)
  OBVIOUS
<1>3. n \in Nat /\ \A x \in S : x \in Nat /\ x <= n
  <2>1. n \in S \cup {0} /\ \A x \in S : x <= n
    BY <1>1, <1>2
  <2>2. S \cup {0} \subseteq Nat
    OBVIOUS
  <2> QED
    BY <2>1, <2>2
<1>4. 0 < now /\ (\A x \in S : x < now) => n < now
  BY <1>1, <1>2
<1>5. Successor(now, S) = IF n < now THEN now ELSE n + 1
  BY <1>2 DEF Successor
<1> QED
  BY <1>3, <1>4, <1>5

LEMMA SuccessorOfOne ==
  ASSUME NEW rev \in Nat, NEW now \in Nat
  PROVE  /\ Successor(now, {rev}) \in Nat
         /\ rev < Successor(now, {rev})
         /\ rev < now => Successor(now, {rev}) = now
<1>1. IsFiniteSet({rev}) /\ {rev} \subseteq Nat
  BY FS_Singleton
<1> QED
  BY <1>1, SuccessorIs

LEMMA TableIs ==
  ASSUME NEW K, NEW R, NEW t
  PROVE  t \in Tables(K, R) <=>
            /\ t = [x \in DOMAIN t |-> t[x]]
            /\ DOMAIN t \subseteq K
            /\ \A x \in DOMAIN t : t[x] \in R
<1>1. t \in Tables(K, R) => t = [x \in DOMAIN t |-> t[x]] /\ DOMAIN t \subseteq K /\ \A x \in DOMAIN t : t[x] \in R
  BY DEF Tables
<1>2. ASSUME t = [x \in DOMAIN t |-> t[x]], DOMAIN t \subseteq K, \A x \in DOMAIN t : t[x] \in R
      PROVE  t \in Tables(K, R)
  <2>1. t \in [DOMAIN t -> R]
    BY <1>2
  <2> QED
    BY <1>2, <2>1 DEF Tables
<1> QED
  BY <1>1, <1>2

LEMMA TableFrom ==
  ASSUME NEW K, NEW R, NEW D, D \subseteq K, NEW t, t \in [D -> R]
  PROVE  t \in Tables(K, R)
BY DEF Tables

(* The rows of f lie over those of t.                                      *)
LaidOver(o, f, t) ==
    /\ DOMAIN o = DOMAIN f \cup DOMAIN t
    /\ \A x \in DOMAIN f : o[x] = f[x]
    /\ \A x \in DOMAIN t \ DOMAIN f : o[x] = t[x]

(* The newer row of each key.                                              *)
NewerOf(o, mine, theirs) ==
    /\ DOMAIN o = DOMAIN mine \cup DOMAIN theirs
    /\ \A x \in DOMAIN theirs : (x \in DOMAIN mine => theirs[x].rev > mine[x].rev) => o[x] = theirs[x]
    /\ \A x \in DOMAIN mine : ~ (x \in DOMAIN theirs /\ theirs[x].rev > mine[x].rev) => o[x] = mine[x]

LEMMA OverIs ==
  ASSUME NEW K, NEW R, NEW f, NEW t, f \in Tables(K, R), t \in Tables(K, R)
  PROVE  Over(f, t) \in Tables(K, R) /\ LaidOver(Over(f, t), f, t)
<1>1. /\ DOMAIN f \subseteq K /\ \A x \in DOMAIN f : f[x] \in R
      /\ DOMAIN t \subseteq K /\ \A x \in DOMAIN t : t[x] \in R
  BY TableIs
<1>2. PICK o : o = Over(f, t)
  OBVIOUS
<1>3. o = [x \in DOMAIN f \cup DOMAIN t |-> IF x \in DOMAIN f THEN f[x] ELSE t[x]]
  BY <1>2 DEF Over
<1>4. /\ DOMAIN o = DOMAIN f \cup DOMAIN t
      /\ o = [x \in DOMAIN o |-> o[x]]
      /\ \A x \in DOMAIN f : o[x] = f[x]
      /\ \A x \in DOMAIN t \ DOMAIN f : o[x] = t[x]
  BY <1>3
<1>5. o \in Tables(K, R)
  BY <1>1, <1>4, TableIs
<1>6. LaidOver(o, f, t)
  BY <1>4 DEF LaidOver
<1> QED
  BY <1>2, <1>5, <1>6

LEMMA NewerIs ==
  ASSUME NEW K, NEW R, NEW mine, NEW theirs, mine \in Tables(K, R), theirs \in Tables(K, R)
  PROVE  Newer(mine, theirs) \in Tables(K, R) /\ NewerOf(Newer(mine, theirs), mine, theirs)
<1>1. PICK taken : taken = Restrict(theirs, Taken(mine, theirs))
  OBVIOUS
<1>2. /\ DOMAIN taken = Taken(mine, theirs)
      /\ taken = [x \in DOMAIN taken |-> taken[x]]
      /\ \A x \in DOMAIN taken : taken[x] = theirs[x]
  BY <1>1 DEF Restrict
<1>3. DOMAIN theirs \subseteq K /\ \A x \in DOMAIN theirs : theirs[x] \in R
  BY TableIs
<1>4. Taken(mine, theirs) \subseteq DOMAIN theirs
  BY DEF Taken
<1>5. taken \in Tables(K, R)
  BY <1>2, <1>3, <1>4, TableIs
<1>6. PICK o : o = Over(taken, mine)
  OBVIOUS
<1>7. o \in Tables(K, R) /\ LaidOver(o, taken, mine)
  BY <1>5, <1>6, OverIs
<1>8. \A x : x \in DOMAIN taken <=> x \in DOMAIN theirs /\ (x \in DOMAIN mine => theirs[x].rev > mine[x].rev)
  BY <1>2 DEF Taken
<1>9. NewerOf(o, mine, theirs)
  <2>1. /\ DOMAIN o = DOMAIN taken \cup DOMAIN mine
        /\ \A x \in DOMAIN taken : o[x] = taken[x]
        /\ \A x \in DOMAIN mine \ DOMAIN taken : o[x] = mine[x]
    BY <1>7 DEF LaidOver
  <2>2. DOMAIN o = DOMAIN mine \cup DOMAIN theirs
    BY <2>1, <1>8
  <2> QED
    BY <1>2, <1>8, <2>1, <2>2 DEF NewerOf
<1>10. Newer(mine, theirs) = o
  BY <1>1, <1>6 DEF Newer
<1> QED
  BY <1>7, <1>9, <1>10

(* What a function takes on a finite set is finite.                        *)
LEMMA ImageIs ==
  ASSUME NEW S, IsFiniteSet(S), NEW f \in [S -> Nat]
  PROVE  IsFiniteSet({f[x] : x \in S}) /\ {f[x] : x \in S} \subseteq Nat
<1>1. f \in Surjection(S, {f[x] : x \in S})
  BY DEF Surjection
<1> QED
  BY <1>1, FS_Surjection

-----------------------------------------------------------------------------
(* What the operations leave *)

LEMMA DatabaseIs ==
  ASSUME NEW s
  PROVE  s \in Databases <=>
            /\ s = [source |-> s.source, gens |-> s.gens, units |-> s.units, rels |-> s.rels]
            /\ s.source \in SourceRows
            /\ s.gens \in Tables(Gens, GenRows)
            /\ s.units \in Tables(Gens, UnitRows)
            /\ s.rels \in Tables(Rels, RelRows)
BY DEF Databases


LEMMA RowsAre ==
  ASSUME NEW s, s \in Databases
  PROVE  /\ \A h \in DOMAIN s.gens : /\ h \in Gens /\ s.gens[h].text \in Texts
                                     /\ s.gens[h].published \in Nat /\ s.gens[h].rev \in Nat
                                     /\ s.gens[h].units \in SUBSET Gens
         /\ \A u \in DOMAIN s.units : u \in Gens /\ s.units[u].rev \in Nat
<1>1. s.gens \in Tables(Gens, GenRows) /\ s.units \in Tables(Gens, UnitRows)
  BY DatabaseIs
<1>2. DOMAIN s.gens \subseteq Gens /\ \A h \in DOMAIN s.gens : s.gens[h] \in GenRows
  BY <1>1, TableIs
<1>3. DOMAIN s.units \subseteq Gens /\ \A u \in DOMAIN s.units : s.units[u] \in UnitRows
  BY <1>1, TableIs
<1> QED
  BY <1>2, <1>3 DEF GenRows, UnitRows

LEMMA TouchedIs ==
  ASSUME NEW s, s \in Databases, NEW text \in Texts, NEW now \in Nat
  PROVE  /\ Touched(s, text, now) \in Databases
         /\ Touched(s, text, now).gens = s.gens
         /\ Touched(s, text, now).units = s.units
         /\ Touched(s, text, now).rels = s.rels
<1>1. /\ s = [source |-> s.source, gens |-> s.gens, units |-> s.units, rels |-> s.rels]
      /\ s.source.rev \in Nat
  BY DatabaseIs DEF SourceRows
<1>2. PICK source : source = [text |-> text, rev |-> Successor(now, {s.source.rev})]
  OBVIOUS
<1>3. source \in SourceRows
  BY <1>1, <1>2, SuccessorOfOne DEF SourceRows
<1>4. PICK t : t = [source |-> source, gens |-> s.gens, units |-> s.units, rels |-> s.rels]
  OBVIOUS
<1>5. Touched(s, text, now) = t
  BY <1>1, <1>2, <1>4 DEF Touched
<1>6. t \in Databases
  BY <1>3, <1>4, DatabaseIs
<1> QED
  BY <1>4, <1>5, <1>6

(* The generations after a publish: g serves and no other.                 *)
FlippedTo(f, s, g, carried, members, now) ==
    /\ f \in Tables(Gens, GenRows)
    /\ DOMAIN f = {g} \cup DOMAIN s.gens
    /\ f[g] = [status |-> "authoritative", text |-> s.source.text, published |-> now,
               rev |-> now, units |-> carried \cup {g}, members |-> members]
    /\ \A h \in DOMAIN s.gens \ {g} :
          /\ f[h].status = "discarded" /\ f[h].text = s.gens[h].text
          /\ f[h].published = s.gens[h].published
          /\ f[h].units = s.gens[h].units /\ f[h].members = s.gens[h].members

LEMMA FlippedIs ==
  ASSUME NEW s, s \in Databases, NEW g \in Gens, NEW carried, carried \subseteq Gens,
         NEW members, members \subseteq Rels, NEW now \in Nat
  PROVE  FlippedTo(Flipped(s, g, carried, members, now), s, g, carried, members, now)
<1>1. /\ s.source.text \in Texts
      /\ DOMAIN s.gens \subseteq Gens /\ \A h \in DOMAIN s.gens : s.gens[h] \in GenRows
  BY DatabaseIs, TableIs DEF SourceRows
<1>2. PICK row : row = [status |-> "authoritative", text |-> s.source.text, published |-> now,
                        rev |-> now, units |-> carried \cup {g}, members |-> members]
  OBVIOUS
<1>3. row \in GenRows
  BY <1>1, <1>2 DEF GenRows
<1>4. PICK new : new = [x \in {g} |-> row]
  OBVIOUS
<1>5. new \in Tables(Gens, GenRows) /\ DOMAIN new = {g} /\ new[g] = row
  BY <1>3, <1>4, TableIs
<1>6. PICK old : old = [h \in DOMAIN s.gens |->
             IF h \in Authoritative(s)
             THEN [s.gens[h] EXCEPT !.status = "discarded", !.rev = Successor(now, {@})]
             ELSE s.gens[h]]
  OBVIOUS
<1>7. DOMAIN old = DOMAIN s.gens
  BY <1>6
<1>8. ASSUME NEW h \in DOMAIN s.gens
      PROVE  /\ old[h] \in GenRows
             /\ old[h].status = "discarded" /\ old[h].text = s.gens[h].text
             /\ old[h].published = s.gens[h].published
             /\ old[h].units = s.gens[h].units /\ old[h].members = s.gens[h].members
  <2>1. s.gens[h] \in GenRows /\ s.gens[h].rev \in Nat
    BY <1>1 DEF GenRows
  <2>2. Successor(now, {s.gens[h].rev}) \in Nat
    BY <2>1, SuccessorOfOne
  <2>3. CASE h \in Authoritative(s)
    <3>1. old[h] = [s.gens[h] EXCEPT !.status = "discarded", !.rev = Successor(now, {s.gens[h].rev})]
      BY <1>6, <2>3
    <3> QED
      BY <2>1, <2>2, <3>1 DEF GenRows
  <2>4. CASE h \notin Authoritative(s)
    <3>1. old[h] = s.gens[h]
      BY <1>6, <2>4
    <3>2. s.gens[h].status = "discarded"
      BY <2>1, <2>4 DEF Authoritative, GenRows
    <3> QED
      BY <2>1, <3>1, <3>2
  <2> QED
    BY <2>3, <2>4
<1>9. old \in Tables(Gens, GenRows)
  <2>1. old \in [DOMAIN s.gens -> GenRows]
    BY <1>6, <1>8
  <2> QED
    BY <1>1, <2>1, TableFrom
<1>10. PICK f : f = Over(new, old)
  OBVIOUS
<1>11. f \in Tables(Gens, GenRows) /\ LaidOver(f, new, old)
  BY <1>5, <1>9, <1>10, OverIs
<1>12. FlippedTo(f, s, g, carried, members, now)
  BY <1>2, <1>5, <1>7, <1>8, <1>11 DEF FlippedTo, LaidOver
<1>13. Flipped(s, g, carried, members, now) = f
  BY <1>2, <1>4, <1>6, <1>10 DEF Flipped
<1> QED
  BY <1>12, <1>13

(* The units after it: those of g are stamped with the time.               *)
StampedBy(t, s, g, carried, now) ==
    /\ t \in Tables(Gens, UnitRows)
    /\ DOMAIN t = (carried \cup {g}) \cup DOMAIN s.units
    /\ \A u \in carried \cup {g} : t[u] = [gen |-> g, live |-> TRUE, rev |-> now]
    /\ \A u \in DOMAIN s.units \ (carried \cup {g}) :
          t[u].gen = s.units[u].gen /\ (s.units[u].rev < now => t[u].rev <= now)

LEMMA StampedIs ==
  ASSUME NEW s, s \in Databases, NEW g \in Gens, NEW carried, carried \subseteq Gens, NEW now \in Nat
  PROVE  StampedBy(Stamped(s, g, carried, now), s, g, carried, now)
<1>1. DOMAIN s.units \subseteq Gens /\ \A u \in DOMAIN s.units : s.units[u] \in UnitRows
  BY DatabaseIs, TableIs
<1>2. PICK new : new = [u \in carried \cup {g} |-> [gen |-> g, live |-> TRUE, rev |-> now]]
  OBVIOUS
<1>3. /\ DOMAIN new = carried \cup {g}
      /\ \A u \in carried \cup {g} : new[u] = [gen |-> g, live |-> TRUE, rev |-> now] /\ new[u] \in UnitRows
  BY <1>2 DEF UnitRows
<1>4. new \in Tables(Gens, UnitRows)
  <2>1. new \in [carried \cup {g} -> UnitRows] /\ carried \cup {g} \subseteq Gens
    BY <1>2, <1>3
  <2> QED
    BY <2>1, TableFrom
<1>5. PICK old : old = [u \in DOMAIN s.units |->
             IF u \in Served(s)
             THEN [s.units[u] EXCEPT !.live = FALSE, !.rev = Successor(now, {@})]
             ELSE s.units[u]]
  OBVIOUS
<1>6. DOMAIN old = DOMAIN s.units
  BY <1>5
<1>7. ASSUME NEW u \in DOMAIN s.units
      PROVE  old[u] \in UnitRows /\ old[u].gen = s.units[u].gen /\ (s.units[u].rev < now => old[u].rev <= now)
  <2>1. s.units[u] \in UnitRows /\ s.units[u].rev \in Nat
    BY <1>1 DEF UnitRows
  <2>2. PICK rev : rev = Successor(now, {s.units[u].rev})
    OBVIOUS
  <2>3. rev \in Nat /\ (s.units[u].rev < now => rev = now)
    BY <2>1, <2>2, SuccessorOfOne
  <2>4. CASE u \in Served(s)
    <3>1. old[u] = [s.units[u] EXCEPT !.live = FALSE, !.rev = rev]
      BY <1>5, <2>2, <2>4
    <3>2. old[u] \in UnitRows /\ old[u].gen = s.units[u].gen /\ old[u].rev = rev
      BY <2>1, <2>3, <3>1 DEF UnitRows
    <3> QED
      BY <2>3, <3>2
  <2>5. CASE u \notin Served(s)
    <3>1. old[u] = s.units[u]
      BY <1>5, <2>5
    <3> QED
      BY <2>1, <3>1
  <2> QED
    BY <2>4, <2>5
<1>8. old \in Tables(Gens, UnitRows)
  <2>1. old \in [DOMAIN s.units -> UnitRows]
    BY <1>5, <1>7
  <2> QED
    BY <1>1, <2>1, TableFrom
<1>9. PICK t : t = Over(new, old)
  OBVIOUS
<1>10. t \in Tables(Gens, UnitRows) /\ LaidOver(t, new, old)
  BY <1>4, <1>8, <1>9, OverIs
<1>11. StampedBy(t, s, g, carried, now)
  BY <1>3, <1>6, <1>7, <1>10 DEF StampedBy, LaidOver
<1>12. Stamped(s, g, carried, now) = t
  BY <1>2, <1>5, <1>9 DEF Stamped
<1> QED
  BY <1>11, <1>12

(* The relations after it: the set of g counts, and nothing else.          *)
AuthoredBy(t, s, g, members) ==
    /\ t \in Tables(Rels, RelRows)
    /\ DOMAIN t = members \cup DOMAIN s.rels
    /\ \A r \in members : t[r].gen = g /\ t[r].active
    /\ \A r \in DOMAIN s.rels \ members : t[r].gen = s.rels[r].gen /\ ~ t[r].active

LEMMA AuthoredIs ==
  ASSUME NEW s, s \in Databases, NEW g \in Gens, NEW members, members \subseteq Rels, NEW now \in Nat
  PROVE  AuthoredBy(Authored(s, g, members, now), s, g, members)
<1>1. DOMAIN s.rels \subseteq Rels /\ \A r \in DOMAIN s.rels : s.rels[r] \in RelRows
  BY DatabaseIs, TableIs
<1>2. PICK new : new = [r \in members |-> [gen |-> g, active |-> TRUE, rev |-> now + 1]]
  OBVIOUS
<1>3. DOMAIN new = members /\ \A r \in members : new[r].gen = g /\ new[r].active /\ new[r] \in RelRows
  BY <1>2 DEF RelRows
<1>4. new \in Tables(Rels, RelRows)
  <2>1. new \in [members -> RelRows]
    BY <1>2, <1>3
  <2> QED
    BY <2>1, TableFrom
<1>5. PICK old : old = [r \in DOMAIN s.rels |->
             IF s.rels[r].active
             THEN [s.rels[r] EXCEPT !.active = FALSE, !.rev = Successor(now, {@})]
             ELSE s.rels[r]]
  OBVIOUS
<1>6. DOMAIN old = DOMAIN s.rels
  BY <1>5
<1>7. ASSUME NEW r \in DOMAIN s.rels
      PROVE  old[r] \in RelRows /\ old[r].gen = s.rels[r].gen /\ ~ old[r].active
  <2>1. s.rels[r] \in RelRows /\ s.rels[r].rev \in Nat
    BY <1>1 DEF RelRows
  <2>2. PICK rev : rev = Successor(now, {s.rels[r].rev})
    OBVIOUS
  <2>3. rev \in Nat
    BY <2>1, <2>2, SuccessorOfOne
  <2>4. CASE s.rels[r].active
    <3>1. old[r] = [s.rels[r] EXCEPT !.active = FALSE, !.rev = rev]
      BY <1>5, <2>2, <2>4
    <3> QED
      BY <2>1, <2>3, <3>1 DEF RelRows
  <2>5. CASE ~ s.rels[r].active
    <3>1. old[r] = s.rels[r]
      BY <1>5, <2>5
    <3> QED
      BY <2>1, <2>5, <3>1
  <2> QED
    BY <2>4, <2>5
<1>8. old \in Tables(Rels, RelRows)
  <2>1. old \in [DOMAIN s.rels -> RelRows]
    BY <1>5, <1>7
  <2> QED
    BY <1>1, <2>1, TableFrom
<1>9. PICK t : t = Over(new, old)
  OBVIOUS
<1>10. t \in Tables(Rels, RelRows) /\ LaidOver(t, new, old)
  BY <1>4, <1>8, <1>9, OverIs
<1>11. AuthoredBy(t, s, g, members)
  BY <1>3, <1>6, <1>7, <1>10 DEF AuthoredBy, LaidOver
<1>12. Authored(s, g, members, now) = t
  BY <1>2, <1>5, <1>9 DEF Authored
<1> QED
  BY <1>11, <1>12

LEMMA PublishIs ==
  ASSUME NEW s, Sound(s), NEW g \in Gens, NEW carried, carried \subseteq Served(s),
         NEW members, members \subseteq Rels, NEW now \in Nat,
         NEW n, n = Touched([s EXCEPT !.gens = Flipped(s, g, carried, members, now),
                                      !.units = Stamped(s, g, carried, now),
                                      !.rels = Authored(s, g, members, now)],
                            s.source.text, now)
  PROVE  /\ Sound(n)
         /\ FlippedTo(n.gens, s, g, carried, members, now)
         /\ StampedBy(n.units, s, g, carried, now)
<1>1. s \in Databases /\ Closed(s)
  BY DEF Sound
<1>2. DOMAIN s.units \subseteq Gens /\ carried \subseteq DOMAIN s.units
  BY <1>1, DatabaseIs, TableIs DEF Served
<1>3. PICK gens : gens = Flipped(s, g, carried, members, now)
  OBVIOUS
<1>4. PICK units : units = Stamped(s, g, carried, now)
  OBVIOUS
<1>5. PICK rels : rels = Authored(s, g, members, now)
  OBVIOUS
<1>6. FlippedTo(gens, s, g, carried, members, now)
  BY <1>1, <1>2, <1>3, FlippedIs
<1>7. StampedBy(units, s, g, carried, now)
  BY <1>1, <1>2, <1>4, StampedIs
<1>8. AuthoredBy(rels, s, g, members)
  BY <1>1, <1>5, AuthoredIs
<1>9. PICK m : m = [source |-> s.source, gens |-> gens, units |-> units, rels |-> rels]
  OBVIOUS
<1>10. m \in Databases
  BY <1>1, <1>6, <1>7, <1>8, <1>9, DatabaseIs DEF FlippedTo, StampedBy, AuthoredBy
<1>11. n = Touched(m, s.source.text, now)
  <2>1. s = [source |-> s.source, gens |-> s.gens, units |-> s.units, rels |-> s.rels]
    BY <1>1, DatabaseIs
  <2>2. [s EXCEPT !.gens = gens, !.units = units, !.rels = rels] = m
    <3>1. PICK a, b, c, d : /\ s = [source |-> a, gens |-> b, units |-> c, rels |-> d]
                            /\ m = [source |-> a, gens |-> gens, units |-> units, rels |-> rels]
      BY <1>9, <2>1
    <3>2. PICK s1 : s1 = [s EXCEPT !.gens = gens]
      OBVIOUS
    <3>3. s1 = [source |-> a, gens |-> gens, units |-> c, rels |-> d]
      BY <3>1, <3>2
    <3>4. PICK s2 : s2 = [s1 EXCEPT !.units = units]
      OBVIOUS
    <3>5. s2 = [source |-> a, gens |-> gens, units |-> units, rels |-> d]
      BY <3>3, <3>4
    <3>6. [s2 EXCEPT !.rels = rels] = m
      BY <3>1, <3>5
    <3> QED
      BY <3>2, <3>4, <3>6
  <2>3. n = Touched([s EXCEPT !.gens = gens, !.units = units, !.rels = rels], s.source.text, now)
    BY <1>3, <1>4, <1>5
  <2> QED
    BY <2>2, <2>3
<1>12. s.source.text \in Texts
  BY <1>1, DatabaseIs DEF SourceRows
<1>13. n \in Databases /\ n.gens = gens /\ n.units = units /\ n.rels = rels
  BY <1>9, <1>10, <1>11, <1>12, TouchedIs
<1>14. Closed(n)
  <2>1. DOMAIN s.gens \subseteq DOMAIN n.gens /\ DOMAIN s.rels \subseteq DOMAIN n.rels
    BY <1>6, <1>8, <1>13 DEF FlippedTo, AuthoredBy
  <2>2. DOMAIN n.units = DOMAIN n.gens
    BY <1>1, <1>2, <1>6, <1>7, <1>13 DEF FlippedTo, StampedBy, Closed
  <2>3. ASSUME NEW h \in DOMAIN n.gens
        PROVE  n.gens[h].units \subseteq DOMAIN n.gens /\ n.gens[h].members \subseteq DOMAIN n.rels
    <3>1. CASE h = g
      BY <1>1, <1>2, <1>6, <1>8, <1>13, <3>1 DEF FlippedTo, AuthoredBy, Closed
    <3>2. CASE h # g
      <4>1. h \in DOMAIN s.gens /\ n.gens[h].units = s.gens[h].units /\ n.gens[h].members = s.gens[h].members
        BY <1>6, <1>13, <3>2 DEF FlippedTo
      <4> QED
        BY <1>1, <2>1, <4>1 DEF Closed
    <3> QED
      BY <3>1, <3>2
  <2>4. ASSUME NEW u \in DOMAIN n.units PROVE n.units[u].gen \in DOMAIN n.gens
    <3>1. CASE u \in carried \cup {g}
      BY <1>6, <1>7, <1>13, <3>1 DEF FlippedTo, StampedBy
    <3>2. CASE u \notin carried \cup {g}
      BY <1>1, <1>7, <1>13, <2>1, <3>2 DEF StampedBy, Closed
    <3> QED
      BY <3>1, <3>2
  <2>5. ASSUME NEW r \in DOMAIN n.rels PROVE n.rels[r].gen \in DOMAIN n.gens
    <3>1. CASE r \in members
      BY <1>6, <1>8, <1>13, <3>1 DEF FlippedTo, AuthoredBy
    <3>2. CASE r \notin members
      BY <1>1, <1>8, <1>13, <2>1, <3>2 DEF AuthoredBy, Closed
    <3> QED
      BY <3>1, <3>2
  <2> QED
    BY <2>2, <2>3, <2>4, <2>5 DEF Closed
<1>15. Authoritative(n) = {g}
  BY <1>6, <1>13 DEF FlippedTo, Authoritative
<1>16. Active(n) = members /\ \A r \in members : n.rels[r].gen = g
  BY <1>8, <1>13 DEF AuthoredBy, Active
<1>17. n.gens[g].members = members
  BY <1>6, <1>13 DEF FlippedTo
<1> QED
  BY <1>6, <1>7, <1>13, <1>14, <1>15, <1>16, <1>17 DEF Sound, One, Topology

-----------------------------------------------------------------------------
(* What an import leaves *)

LEMMA MergedIs ==
  ASSUME NEW s, NEW f, Sound(s), Sound(f), NEW m, m = Merged(s, f)
  PROVE  /\ m \in Databases /\ Closed(m)
         /\ m.source.text \in {s.source.text, f.source.text}
         /\ NewerOf(m.gens, s.gens, f.gens)
         /\ NewerOf(m.units, s.units, f.units)
         /\ Authoritative(m) \subseteq Authoritative(s) \cup Authoritative(f)
<1>1. /\ s \in Databases /\ Closed(s) /\ f \in Databases /\ Closed(f)
  BY DEF Sound
<1>2. /\ s.source \in SourceRows /\ f.source \in SourceRows
      /\ s.gens \in Tables(Gens, GenRows) /\ f.gens \in Tables(Gens, GenRows)
      /\ s.units \in Tables(Gens, UnitRows) /\ f.units \in Tables(Gens, UnitRows)
      /\ s.rels \in Tables(Rels, RelRows) /\ f.rels \in Tables(Rels, RelRows)
  BY <1>1, DatabaseIs
<1>3. PICK source : source = IF f.source.rev > s.source.rev THEN f.source ELSE s.source
  OBVIOUS
<1>4. PICK gens : gens = Newer(s.gens, f.gens)
  OBVIOUS
<1>5. PICK units : units = Newer(s.units, f.units)
  OBVIOUS
<1>6. PICK rels : rels = Newer(s.rels, f.rels)
  OBVIOUS
<1>7. gens \in Tables(Gens, GenRows) /\ NewerOf(gens, s.gens, f.gens)
  BY <1>2, <1>4, NewerIs
<1>8. units \in Tables(Gens, UnitRows) /\ NewerOf(units, s.units, f.units)
  BY <1>2, <1>5, NewerIs
<1>9. rels \in Tables(Rels, RelRows) /\ NewerOf(rels, s.rels, f.rels)
  BY <1>2, <1>6, NewerIs
<1>10. m = [source |-> source, gens |-> gens, units |-> units, rels |-> rels]
  BY <1>3, <1>4, <1>5, <1>6 DEF Merged
<1>11. source \in SourceRows /\ source.text \in {s.source.text, f.source.text}
  BY <1>2, <1>3
<1>12. m \in Databases
  BY <1>7, <1>8, <1>9, <1>10, <1>11, DatabaseIs
<1>13. /\ DOMAIN m.gens = DOMAIN s.gens \cup DOMAIN f.gens
       /\ DOMAIN m.units = DOMAIN s.units \cup DOMAIN f.units
       /\ DOMAIN m.rels = DOMAIN s.rels \cup DOMAIN f.rels
  BY <1>7, <1>8, <1>9, <1>10 DEF NewerOf
<1>14. \A g \in DOMAIN m.gens : \/ g \in DOMAIN s.gens /\ m.gens[g] = s.gens[g]
                                \/ g \in DOMAIN f.gens /\ m.gens[g] = f.gens[g]
  BY <1>7, <1>10 DEF NewerOf
<1>15. \A u \in DOMAIN m.units : \/ u \in DOMAIN s.units /\ m.units[u] = s.units[u]
                                 \/ u \in DOMAIN f.units /\ m.units[u] = f.units[u]
  BY <1>8, <1>10 DEF NewerOf
<1>16. \A r \in DOMAIN m.rels : \/ r \in DOMAIN s.rels /\ m.rels[r] = s.rels[r]
                                \/ r \in DOMAIN f.rels /\ m.rels[r] = f.rels[r]
  BY <1>9, <1>10 DEF NewerOf
<1>17. Closed(m)
  <2>1. DOMAIN m.units = DOMAIN m.gens
    BY <1>1, <1>13 DEF Closed
  <2>2. \A g \in DOMAIN m.gens : m.gens[g].units \subseteq DOMAIN m.gens /\ m.gens[g].members \subseteq DOMAIN m.rels
    BY <1>1, <1>13, <1>14 DEF Closed
  <2>3. \A u \in DOMAIN m.units : m.units[u].gen \in DOMAIN m.gens
    BY <1>1, <1>13, <1>15 DEF Closed
  <2>4. \A r \in DOMAIN m.rels : m.rels[r].gen \in DOMAIN m.gens
    BY <1>1, <1>13, <1>16 DEF Closed
  <2> QED
    BY <2>1, <2>2, <2>3, <2>4 DEF Closed
<1>18. Authoritative(m) \subseteq Authoritative(s) \cup Authoritative(f)
  BY <1>14 DEF Authoritative
<1> QED
  BY <1>7, <1>8, <1>10, <1>11, <1>12, <1>17, <1>18

LEMMA MinIs ==
  ASSUME NEW S, S \subseteq Nat, NEW n \in S, \A x \in S : n <= x
  PROVE  Min(S) = n
<1>1. \E x \in S : \A y \in S : x <= y
  OBVIOUS
<1>2. Min(S) \in S /\ \A y \in S : Min(S) <= y
  BY <1>1 DEF Min
<1>3. PICK k : k = Min(S)
  OBVIOUS
<1>4. k \in Nat /\ n \in Nat /\ k <= n /\ n <= k
  BY <1>2, <1>3
<1> QED
  BY <1>3, <1>4

(* Whether a generation was made of the text at hand.                      *)
Made(s, g) == IF s.gens[g].text = s.source.text THEN 1 ELSE 0

LEMMA BeatsIs ==
  ASSUME NEW s, s \in Databases, NEW g \in DOMAIN s.gens, NEW h \in DOMAIN s.gens
  PROVE  Beats(s, g, h) <=>
           \/ Made(s, g) > Made(s, h)
           \/ /\ Made(s, g) = Made(s, h)
              /\ \/ s.gens[g].published > s.gens[h].published
                 \/ /\ s.gens[g].published = s.gens[h].published
                    /\ \/ s.gens[g].rev > s.gens[h].rev
                       \/ s.gens[g].rev = s.gens[h].rev /\ g >= h
<1>1. PICK a : a = s.gens[g]
  OBVIOUS
<1>2. PICK b : b = s.gens[h]
  OBVIOUS
<1>3. PICK ma : ma = Made(s, g)
  OBVIOUS
<1>4. PICK mb : mb = Made(s, h)
  OBVIOUS
<1>5. /\ ma \in Nat /\ mb \in Nat
      /\ a.published \in Nat /\ b.published \in Nat /\ a.rev \in Nat /\ b.rev \in Nat
  <2>1. s.gens[g] \in GenRows /\ s.gens[h] \in GenRows
    BY DatabaseIs, TableIs
  <2> QED
    BY <1>1, <1>2, <1>3, <1>4, <2>1 DEF Made, GenRows
<1>6. PICK ka : ka = <<ma, a.published, a.rev>>
  OBVIOUS
<1>7. PICK kb : kb = <<mb, b.published, b.rev>>
  OBVIOUS
<1>8. PICK before : before = {i \in 1..3 : ka[i] # kb[i]}
  OBVIOUS
<1>9. Beats(s, g, h) <=> IF before = {} THEN g >= h ELSE ka[Min(before)] > kb[Min(before)]
  BY <1>1, <1>2, <1>3, <1>4, <1>6, <1>7, <1>8 DEF Beats, Made
<1>10. /\ ka[1] = ma /\ ka[2] = a.published /\ ka[3] = a.rev
       /\ kb[1] = mb /\ kb[2] = b.published /\ kb[3] = b.rev
  BY <1>6, <1>7
<1>11. before \subseteq Nat /\ \A i : i \in before <=> i \in {1, 2, 3} /\ ka[i] # kb[i]
  BY <1>8
<1>12. CASE ma # mb
  <2>1. 1 \in before /\ \A i \in before : 1 <= i
    BY <1>10, <1>11, <1>12
  <2>2. Min(before) = 1
    BY <1>11, <2>1, MinIs
  <2>3. Beats(s, g, h) <=> ma > mb
    BY <1>9, <1>10, <2>1, <2>2
  <2> QED
    BY <1>3, <1>4, <1>5, <1>12, <2>3
<1>13. CASE ma = mb /\ a.published # b.published
  <2>1. 2 \in before /\ \A i \in before : 2 <= i
    BY <1>10, <1>11, <1>13
  <2>2. Min(before) = 2
    BY <1>11, <2>1, MinIs
  <2>3. Beats(s, g, h) <=> a.published > b.published
    BY <1>9, <1>10, <2>1, <2>2
  <2> QED
    BY <1>1, <1>2, <1>3, <1>4, <1>5, <1>13, <2>3
<1>14. CASE ma = mb /\ a.published = b.published /\ a.rev # b.rev
  <2>1. 3 \in before /\ \A i \in before : 3 <= i
    BY <1>10, <1>11, <1>14
  <2>2. Min(before) = 3
    BY <1>11, <2>1, MinIs
  <2>3. Beats(s, g, h) <=> a.rev > b.rev
    BY <1>9, <1>10, <2>1, <2>2
  <2> QED
    BY <1>1, <1>2, <1>3, <1>4, <1>5, <1>14, <2>3
<1>15. CASE ma = mb /\ a.published = b.published /\ a.rev = b.rev
  <2>1. before = {}
    BY <1>10, <1>11, <1>15
  <2>2. Beats(s, g, h) <=> g >= h
    BY <1>9, <2>1
  <2> QED
    BY <1>1, <1>2, <1>3, <1>4, <1>5, <1>15, <2>2
<1> QED
  BY <1>12, <1>13, <1>14, <1>15

(* Of two generations that serve, one is chosen.                           *)
LEMMA WinnerIs ==
  ASSUME NEW s, s \in Databases, NEW c, NEW d, Authoritative(s) \subseteq {c, d}, Authoritative(s) # {}
  PROVE  Winner(s) \in Authoritative(s) /\ \A h \in Authoritative(s) : Beats(s, Winner(s), h)
<1>1. \A g \in DOMAIN s.gens : s.gens[g] \in GenRows /\ g \in Gens
  BY DatabaseIs, TableIs
<1>2. Authoritative(s) \subseteq DOMAIN s.gens
  BY DEF Authoritative
<1>3. ASSUME NEW g \in Authoritative(s), NEW h \in Authoritative(s)
      PROVE  Beats(s, g, h) \/ Beats(s, h, g)
  <2>1. /\ s.gens[g].published \in Nat /\ s.gens[g].rev \in Nat /\ g \in Nat
        /\ s.gens[h].published \in Nat /\ s.gens[h].rev \in Nat /\ h \in Nat
    BY <1>1, <1>2, GenerationsAssumption DEF GenRows
  <2>2. Made(s, g) \in Nat /\ Made(s, h) \in Nat
    BY DEF Made
  <2>3. g \in DOMAIN s.gens /\ h \in DOMAIN s.gens
    BY <1>2
  <2> QED
    BY <2>1, <2>2, <2>3, BeatsIs
<1>4. \A g \in Authoritative(s) : Beats(s, g, g)
  BY <1>3
<1>5. \E g \in Authoritative(s) : \A h \in Authoritative(s) : Beats(s, g, h)
  BY <1>3, <1>4
<1> QED
  BY <1>5 DEF Winner

LEMMA RevisionIs ==
  ASSUME NEW s, s \in Databases, NEW g, NEW now \in Nat
  PROVE  Revision(s, g, now) \in Nat
<1>1. /\ DOMAIN s.gens \subseteq Gens /\ \A h \in DOMAIN s.gens : s.gens[h] \in GenRows
      /\ DOMAIN s.rels \subseteq Rels /\ \A r \in DOMAIN s.rels : s.rels[r] \in RelRows
  BY DatabaseIs, TableIs
<1>2. Authoritative(s) \subseteq DOMAIN s.gens
  BY DEF Authoritative
<1>3. IsFiniteSet(Authoritative(s)) /\ IsFiniteSet(DOMAIN s.rels)
  BY <1>1, <1>2, FS_Subset, GenerationsAssumption
<1>4. PICK fg : fg = [h \in Authoritative(s) |-> s.gens[h].rev]
  OBVIOUS
<1>5. PICK fr : fr = [r \in DOMAIN s.rels |-> s.rels[r].rev]
  OBVIOUS
<1>6. fg \in [Authoritative(s) -> Nat]
  BY <1>1, <1>2, <1>4 DEF GenRows
<1>7. fr \in [DOMAIN s.rels -> Nat]
  BY <1>1, <1>5 DEF RelRows
<1>8. PICK A : A = {fg[h] : h \in Authoritative(s)}
  OBVIOUS
<1>9. PICK B : B = {fr[r] : r \in DOMAIN s.rels}
  OBVIOUS
<1>10. IsFiniteSet(A) /\ A \subseteq Nat
  BY <1>3, <1>6, <1>8, ImageIs
<1>11. IsFiniteSet(B) /\ B \subseteq Nat
  BY <1>3, <1>7, <1>9, ImageIs
<1>12. IsFiniteSet(A \cup B) /\ A \cup B \subseteq Nat
  BY <1>10, <1>11, FS_Union
<1>13. Successor(now, A \cup B) \in Nat
  BY <1>12, SuccessorIs
<1>14. A = {s.gens[h].rev : h \in Authoritative(s)}
  BY <1>4, <1>8
<1>15. B = {s.rels[r].rev : r \in DOMAIN s.rels}
  BY <1>5, <1>9
<1> QED
  BY <1>13, <1>14, <1>15 DEF Revision

(* What the choice leaves of the generations: g alone serves.              *)
ChosenIn(n, s, g) ==
    /\ n \in Databases
    /\ n.source = s.source /\ n.units = s.units
    /\ DOMAIN n.gens = DOMAIN s.gens
    /\ Authoritative(n) = {g} /\ n.gens[g] = s.gens[g]
    /\ \A h \in DOMAIN s.gens :
          /\ n.gens[h].text = s.gens[h].text /\ n.gens[h].published = s.gens[h].published
          /\ n.gens[h].units = s.gens[h].units /\ n.gens[h].members = s.gens[h].members

LEMMA DiscardedIs ==
  ASSUME NEW s, s \in Databases, NEW g \in Authoritative(s), NEW rev \in Nat,
         NEW t, t = Discarded(s, g, rev)
  PROVE  /\ t \in Tables(Gens, GenRows)
         /\ DOMAIN t = DOMAIN s.gens /\ t[g] = s.gens[g]
         /\ \A h \in DOMAIN s.gens : /\ t[h].status = "authoritative" <=> h = g
                                     /\ t[h].text = s.gens[h].text /\ t[h].published = s.gens[h].published
                                     /\ t[h].units = s.gens[h].units /\ t[h].members = s.gens[h].members
<1>1. DOMAIN s.gens \subseteq Gens /\ \A h \in DOMAIN s.gens : s.gens[h] \in GenRows
  BY DatabaseIs, TableIs
<1>2. t = [h \in DOMAIN s.gens |->
             IF h \in Authoritative(s) \ {g}
             THEN [s.gens[h] EXCEPT !.status = "discarded", !.rev = rev]
             ELSE s.gens[h]]
  BY DEF Discarded
<1>3. g \in DOMAIN s.gens /\ s.gens[g].status = "authoritative" /\ t[g] = s.gens[g]
  BY <1>2 DEF Authoritative
<1>4. ASSUME NEW h \in DOMAIN s.gens
      PROVE  /\ t[h] \in GenRows
             /\ t[h].status = "authoritative" <=> h = g
             /\ t[h].text = s.gens[h].text /\ t[h].published = s.gens[h].published
             /\ t[h].units = s.gens[h].units /\ t[h].members = s.gens[h].members
  <2>1. s.gens[h] \in GenRows
    BY <1>1
  <2>2. CASE h \in Authoritative(s) \ {g}
    <3>1. t[h] = [s.gens[h] EXCEPT !.status = "discarded", !.rev = rev]
      BY <1>2, <2>2
    <3> QED
      BY <2>1, <2>2, <3>1 DEF GenRows
  <2>3. CASE h \notin Authoritative(s) \ {g}
    <3>1. t[h] = s.gens[h]
      BY <1>2, <2>3
    <3>2. h # g => s.gens[h].status # "authoritative"
      BY <2>3 DEF Authoritative
    <3> QED
      BY <1>3, <2>1, <3>1, <3>2
  <2> QED
    BY <2>2, <2>3
<1>5. t \in [DOMAIN s.gens -> GenRows]
  BY <1>2, <1>4
<1>6. t \in Tables(Gens, GenRows)
  BY <1>1, <1>5, TableFrom
<1> QED
  BY <1>2, <1>3, <1>4, <1>6

LEMMA RepairedIs ==
  ASSUME NEW s, s \in Databases, NEW g \in DOMAIN s.gens, NEW rev \in Nat,
         NEW t, t = Repaired(s, g, rev)
  PROVE  /\ t \in Tables(Rels, RelRows)
         /\ DOMAIN t = DOMAIN s.rels
         /\ \A r \in DOMAIN s.rels : /\ t[r].active <=> r \in s.gens[g].members
                                     /\ t[r].gen \in {s.rels[r].gen, g}
                                     /\ r \in s.gens[g].members => t[r].gen = g
<1>1. DOMAIN s.rels \subseteq Rels /\ \A r \in DOMAIN s.rels : s.rels[r] \in RelRows
  BY DatabaseIs, TableIs
<1>2. g \in Gens
  BY DatabaseIs, TableIs
<1>3. PICK members : members = s.gens[g].members
  OBVIOUS
<1>4. t = [r \in DOMAIN s.rels |->
             IF r \in members
             THEN IF s.rels[r].gen = g /\ s.rels[r].active THEN s.rels[r]
                  ELSE [gen |-> g, active |-> TRUE, rev |-> rev]
             ELSE IF s.rels[r].active THEN [s.rels[r] EXCEPT !.active = FALSE, !.rev = rev + 1]
                  ELSE s.rels[r]]
  BY <1>3 DEF Repaired
<1>5. ASSUME NEW r \in DOMAIN s.rels
      PROVE  /\ t[r] \in RelRows
             /\ t[r].active <=> r \in members
             /\ t[r].gen \in {s.rels[r].gen, g}
             /\ r \in members => t[r].gen = g
  <2>1. s.rels[r] \in RelRows /\ rev + 1 \in Nat
    BY <1>1
  <2>2. CASE r \in members /\ s.rels[r].gen = g /\ s.rels[r].active
    <3>1. t[r] = s.rels[r]
      BY <1>4, <2>2
    <3> QED
      BY <2>1, <2>2, <3>1
  <2>3. CASE r \in members /\ ~ (s.rels[r].gen = g /\ s.rels[r].active)
    <3>1. t[r] = [gen |-> g, active |-> TRUE, rev |-> rev]
      BY <1>4, <2>3
    <3> QED
      BY <1>2, <2>3, <3>1 DEF RelRows
  <2>4. CASE r \notin members /\ s.rels[r].active
    <3>1. t[r] = [s.rels[r] EXCEPT !.active = FALSE, !.rev = rev + 1]
      BY <1>4, <2>4
    <3> QED
      BY <2>1, <2>4, <3>1 DEF RelRows
  <2>5. CASE r \notin members /\ ~ s.rels[r].active
    <3>1. t[r] = s.rels[r]
      BY <1>4, <2>5
    <3> QED
      BY <2>1, <2>5, <3>1
  <2> QED
    BY <2>2, <2>3, <2>4, <2>5
<1>6. t \in [DOMAIN s.rels -> RelRows]
  BY <1>4, <1>5
<1>7. t \in Tables(Rels, RelRows)
  BY <1>1, <1>6, TableFrom
<1> QED
  BY <1>3, <1>4, <1>5, <1>7

LEMMA ReconciledIs ==
  ASSUME NEW s, s \in Databases, Closed(s), NEW now \in Nat,
         Authoritative(s) # {}, NEW g, g = Winner(s), g \in Authoritative(s),
         NEW n, n = Reconciled(s, now)
  PROVE  Sound(n) /\ ChosenIn(n, s, g)
<1>1. PICK rev : rev = Revision(s, g, now)
  OBVIOUS
<1>2. rev \in Nat
  BY <1>1, RevisionIs
<1>3. PICK gens : gens = Discarded(s, g, rev)
  OBVIOUS
<1>4. PICK rels : rels = Repaired(s, g, rev)
  OBVIOUS
<1>5. g \in DOMAIN s.gens
  BY DEF Authoritative
<1>6. /\ gens \in Tables(Gens, GenRows)
      /\ DOMAIN gens = DOMAIN s.gens /\ gens[g] = s.gens[g]
      /\ \A h \in DOMAIN s.gens : /\ gens[h].status = "authoritative" <=> h = g
                                  /\ gens[h].text = s.gens[h].text /\ gens[h].published = s.gens[h].published
                                  /\ gens[h].units = s.gens[h].units /\ gens[h].members = s.gens[h].members
  BY <1>2, <1>3, DiscardedIs
<1>7. /\ rels \in Tables(Rels, RelRows)
      /\ DOMAIN rels = DOMAIN s.rels
      /\ \A r \in DOMAIN s.rels : /\ rels[r].active <=> r \in s.gens[g].members
                                  /\ rels[r].gen \in {s.rels[r].gen, g}
                                  /\ r \in s.gens[g].members => rels[r].gen = g
  BY <1>2, <1>4, <1>5, RepairedIs
<1>8. n = [s EXCEPT !.gens = gens, !.rels = rels]
  BY <1>1, <1>3, <1>4 DEF Reconciled
<1>9. /\ s = [source |-> s.source, gens |-> s.gens, units |-> s.units, rels |-> s.rels]
      /\ s.source \in SourceRows /\ s.units \in Tables(Gens, UnitRows)
  BY DatabaseIs
<1>10. n = [source |-> s.source, gens |-> gens, units |-> s.units, rels |-> rels]
  <2>1. PICK a, b, c, d : /\ s = [source |-> a, gens |-> b, units |-> c, rels |-> d]
                          /\ a = s.source /\ c = s.units
    BY <1>9
  <2>2. PICK s1 : s1 = [s EXCEPT !.gens = gens]
    OBVIOUS
  <2>3. s1 = [source |-> a, gens |-> gens, units |-> c, rels |-> d]
    BY <2>1, <2>2
  <2>4. n = [s1 EXCEPT !.rels = rels]
    BY <1>8, <2>2
  <2>5. n = [source |-> a, gens |-> gens, units |-> c, rels |-> rels]
    BY <2>3, <2>4
  <2> QED
    BY <2>1, <2>5
<1>11. n \in Databases
  BY <1>6, <1>7, <1>9, <1>10, DatabaseIs
<1>12. Authoritative(n) = {g}
  BY <1>5, <1>6, <1>10 DEF Authoritative
<1>13. ChosenIn(n, s, g)
  BY <1>6, <1>10, <1>11, <1>12 DEF ChosenIn
<1>14. Closed(n)
  <2>1. /\ DOMAIN n.gens = DOMAIN s.gens /\ DOMAIN n.rels = DOMAIN s.rels /\ n.units = s.units
    BY <1>6, <1>7, <1>10
  <2>2. \A h \in DOMAIN s.gens : n.gens[h].units = s.gens[h].units /\ n.gens[h].members = s.gens[h].members
    BY <1>6, <1>10
  <2>3. \A r \in DOMAIN s.rels : n.rels[r].gen \in {s.rels[r].gen, g}
    BY <1>7, <1>10
  <2> QED
    BY <1>5, <2>1, <2>2, <2>3 DEF Closed
<1>15. Active(n) = s.gens[g].members
  <2>1. s.gens[g].members \subseteq DOMAIN s.rels
    BY <1>5 DEF Closed
  <2> QED
    BY <1>7, <1>10, <2>1 DEF Active
<1>16. \A r \in Active(n) : n.rels[r].gen = g
  BY <1>7, <1>10 DEF Active
<1>17. n.gens[g].members = s.gens[g].members
  BY <1>6, <1>10
<1> QED
  BY <1>11, <1>12, <1>13, <1>14, <1>15, <1>16, <1>17 DEF Sound, One, Topology

LEMMA AtMostTwo ==
  ASSUME NEW s, NEW f, One(s), One(f), NEW S, S \subseteq Authoritative(s) \cup Authoritative(f)
  PROVE  \E c, d : S \subseteq {c, d}
<1>1. PICK c : Authoritative(s) \subseteq {c}
  <2>1. CASE Authoritative(s) = {}
    BY <2>1
  <2>2. CASE Authoritative(s) # {}
    <3>1. PICK c \in Authoritative(s) : TRUE
      BY <2>2
    <3>2. Authoritative(s) \subseteq {c}
      BY <3>1 DEF One
    <3> QED
      BY <3>2
  <2> QED
    BY <2>1, <2>2
<1>2. PICK d : Authoritative(f) \subseteq {d}
  <2>1. CASE Authoritative(f) = {}
    BY <2>1
  <2>2. CASE Authoritative(f) # {}
    <3>1. PICK d \in Authoritative(f) : TRUE
      BY <2>2
    <3>2. Authoritative(f) \subseteq {d}
      BY <3>1 DEF One
    <3> QED
      BY <3>2
  <2> QED
    BY <2>1, <2>2
<1>3. S \subseteq {c, d}
  BY <1>1, <1>2
<1> QED
  BY <1>3

(* What n knows of a generation, s or f did.                               *)
KeptOf(n, s, f) ==
    /\ DOMAIN n.gens = DOMAIN s.gens \cup DOMAIN f.gens
    /\ \A h \in DOMAIN n.gens :
          \/ /\ h \in DOMAIN s.gens
             /\ n.gens[h].text = s.gens[h].text /\ n.gens[h].published = s.gens[h].published
             /\ n.gens[h].units = s.gens[h].units
          \/ /\ h \in DOMAIN f.gens
             /\ n.gens[h].text = f.gens[h].text /\ n.gens[h].published = f.gens[h].published
             /\ n.gens[h].units = f.gens[h].units

LEMMA ImportIs ==
  ASSUME NEW s, NEW f, Sound(s), Sound(f), NEW now \in Nat,
         NEW m, m = Merged(s, f), NEW n, n = Reconciled(m, now)
  PROVE  Sound(n) /\ KeptOf(n, s, f)
<1>1. /\ m \in Databases /\ Closed(m)
      /\ NewerOf(m.gens, s.gens, f.gens)
      /\ Authoritative(m) \subseteq Authoritative(s) \cup Authoritative(f)
  BY MergedIs
<1>2. KeptOf(m, s, f)
  BY <1>1 DEF NewerOf, KeptOf
<1>3. CASE Authoritative(m) = {}
  <2>1. n = m
    BY <1>3 DEF Reconciled
  <2> QED
    BY <1>1, <1>2, <1>3, <2>1 DEF Sound, One, Topology
<1>4. CASE Authoritative(m) # {}
  <2>1. PICK c, d : Authoritative(m) \subseteq {c, d}
    BY <1>1, AtMostTwo DEF Sound
  <2>2. PICK g : g = Winner(m)
    OBVIOUS
  <2>3. g \in Authoritative(m)
    BY <1>1, <1>4, <2>1, <2>2, WinnerIs
  <2>4. Sound(n) /\ ChosenIn(n, m, g)
    BY <1>1, <1>4, <2>2, <2>3, ReconciledIs
  <2>5. KeptOf(n, s, f)
    BY <1>2, <2>4 DEF KeptOf, ChosenIn
  <2> QED
    BY <2>4, <2>5
<1> QED
  BY <1>3, <1>4

(* Where s knows g, it serves it with its units, and everything else is    *)
(* older; where it does not, all it knows is older.                        *)
Leads(s, g, p, U) ==
    /\ g \in DOMAIN s.gens =>
          /\ s.gens[g].status = "authoritative" /\ s.gens[g].published = p /\ s.gens[g].units = U
          /\ \A u \in U : s.units[u] = [gen |-> g, live |-> TRUE, rev |-> p]
    /\ \A h \in DOMAIN s.gens \ {g} : s.gens[h].published < p
    /\ \A u \in DOMAIN s.units : s.units[u].rev <= p /\ (g \notin DOMAIN s.gens => s.units[u].rev < p)

Serves(s) ==
    DOMAIN s.gens # {} => \E g \in DOMAIN s.gens : Leads(s, g, s.gens[g].published, s.gens[g].units)

(* Two databases mean the same generation by an id.                        *)
Agrees(s, t) ==
    \A g \in DOMAIN s.gens \cap DOMAIN t.gens :
        /\ s.gens[g].text = t.gens[g].text /\ s.gens[g].published = t.gens[g].published
        /\ s.gens[g].units = t.gens[g].units

(* No two generations were published at one moment.                        *)
Distinct(s, t) ==
    \A g \in DOMAIN s.gens, h \in DOMAIN t.gens : s.gens[g].published = t.gens[h].published => g = h

(* The generation that leads here or the one that leads there leads both.  *)
LEMMA OneLeads ==
  ASSUME NEW s, NEW f, Sound(s), Sound(f), Serves(s), Serves(f), Agrees(s, f), Distinct(s, f),
         DOMAIN s.gens \cup DOMAIN f.gens # {}
  PROVE  \E g \in DOMAIN s.gens \cup DOMAIN f.gens : \E p \in Nat : \E U \in SUBSET Gens :
            Leads(s, g, p, U) /\ Leads(f, g, p, U)
<1>1. /\ s \in Databases /\ f \in Databases
      /\ DOMAIN s.units = DOMAIN s.gens /\ DOMAIN f.units = DOMAIN f.gens
  BY DEF Sound, Closed
<1>2. /\ \A h \in DOMAIN s.gens : s.gens[h].published \in Nat /\ s.gens[h].units \in SUBSET Gens
      /\ \A h \in DOMAIN f.gens : f.gens[h].published \in Nat /\ f.gens[h].units \in SUBSET Gens
  BY <1>1, RowsAre
<1>3. /\ \A u \in DOMAIN s.units : s.units[u].rev \in Nat
      /\ \A u \in DOMAIN f.units : f.units[u].rev \in Nat
  BY <1>1, RowsAre
<1>4. CASE DOMAIN f.gens = {}
  <2>1. PICK g \in DOMAIN s.gens : Leads(s, g, s.gens[g].published, s.gens[g].units)
    BY <1>4 DEF Serves
  <2>2. Leads(f, g, s.gens[g].published, s.gens[g].units)
    BY <1>1, <1>4 DEF Leads
  <2> QED
    BY <1>2, <2>1, <2>2
<1>5. CASE DOMAIN s.gens = {}
  <2>1. PICK g \in DOMAIN f.gens : Leads(f, g, f.gens[g].published, f.gens[g].units)
    BY <1>5 DEF Serves
  <2>2. Leads(s, g, f.gens[g].published, f.gens[g].units)
    BY <1>1, <1>5 DEF Leads
  <2> QED
    BY <1>2, <2>1, <2>2
<1>6. CASE DOMAIN s.gens # {} /\ DOMAIN f.gens # {}
  <2>1. PICK g \in DOMAIN s.gens : Leads(s, g, s.gens[g].published, s.gens[g].units)
    BY <1>6 DEF Serves
  <2>2. PICK h \in DOMAIN f.gens : Leads(f, h, f.gens[h].published, f.gens[h].units)
    BY <1>6 DEF Serves
  <2>3. PICK p \in Nat : p = s.gens[g].published
    BY <1>2
  <2>4. PICK q \in Nat : q = f.gens[h].published
    BY <1>2
  <2>5. Leads(s, g, p, s.gens[g].units) /\ Leads(f, h, q, f.gens[h].units)
    BY <2>1, <2>2, <2>3, <2>4
  <2>6. CASE g = h
    <3>1. p = q /\ s.gens[g].units = f.gens[h].units
      BY <2>3, <2>4, <2>6 DEF Agrees
    <3> QED
      BY <1>2, <2>5, <2>6, <3>1
  <2>7. CASE g # h /\ q < p
    <3>1. g \notin DOMAIN f.gens
      <4>1. SUFFICES ASSUME g \in DOMAIN f.gens PROVE FALSE
        OBVIOUS
      <4>2. f.gens[g].published = p
        BY <2>3, <4>1 DEF Agrees
      <4>3. f.gens[g].published < q
        BY <2>5, <2>7, <4>1 DEF Leads
      <4> QED
        BY <2>7, <4>2, <4>3
    <3>2. \A x \in DOMAIN f.gens : f.gens[x].published < p
      <4>1. \A x \in DOMAIN f.gens : f.gens[x].published <= q
        <5>1. \A x \in DOMAIN f.gens \ {h} : f.gens[x].published < q
          BY <2>5 DEF Leads
        <5> QED
          BY <1>2, <2>4, <5>1
      <4> QED
        BY <1>2, <2>7, <4>1
    <3>3. \A u \in DOMAIN f.units : f.units[u].rev < p
      BY <1>3, <2>5, <2>7 DEF Leads
    <3>4. Leads(f, g, p, s.gens[g].units)
      BY <1>3, <3>1, <3>2, <3>3 DEF Leads
    <3> QED
      BY <1>2, <2>5, <3>4
  <2>8. CASE g # h /\ p < q
    <3>1. h \notin DOMAIN s.gens
      <4>1. SUFFICES ASSUME h \in DOMAIN s.gens PROVE FALSE
        OBVIOUS
      <4>2. s.gens[h].published = q
        BY <2>4, <4>1 DEF Agrees
      <4>3. s.gens[h].published < p
        BY <2>5, <2>8, <4>1 DEF Leads
      <4> QED
        BY <2>8, <4>2, <4>3
    <3>2. \A x \in DOMAIN s.gens : s.gens[x].published < q
      <4>1. \A x \in DOMAIN s.gens : s.gens[x].published <= p
        <5>1. \A x \in DOMAIN s.gens \ {g} : s.gens[x].published < p
          BY <2>5 DEF Leads
        <5> QED
          BY <1>2, <2>3, <5>1
      <4> QED
        BY <1>2, <2>8, <4>1
    <3>3. \A u \in DOMAIN s.units : s.units[u].rev < q
      BY <1>3, <2>5, <2>8 DEF Leads
    <3>4. Leads(s, h, q, f.gens[h].units)
      BY <1>3, <3>1, <3>2, <3>3 DEF Leads
    <3> QED
      BY <1>2, <2>5, <3>4
  <2>9. g # h => p # q
    BY <2>3, <2>4 DEF Distinct
  <2> QED
    BY <2>6, <2>7, <2>8, <2>9
<1> QED
  BY <1>4, <1>5, <1>6

LEMMA MergeKeepsLeader ==
  ASSUME NEW s, NEW f, Sound(s), Sound(f), NEW m, m = Merged(s, f),
         NEW g \in DOMAIN s.gens \cup DOMAIN f.gens, NEW p \in Nat, NEW U \in SUBSET Gens,
         Leads(s, g, p, U), Leads(f, g, p, U)
  PROVE  g \in Authoritative(m) /\ Leads(m, g, p, U)
<1>1. /\ Closed(s) /\ Closed(f)
      /\ NewerOf(m.gens, s.gens, f.gens) /\ NewerOf(m.units, s.units, f.units)
  BY MergedIs DEF Sound
<1>2. \A h \in DOMAIN m.gens : \/ h \in DOMAIN s.gens /\ m.gens[h] = s.gens[h]
                               \/ h \in DOMAIN f.gens /\ m.gens[h] = f.gens[h]
  BY <1>1 DEF NewerOf
<1>3. \A u \in DOMAIN m.units : \/ u \in DOMAIN s.units /\ m.units[u] = s.units[u]
                                \/ u \in DOMAIN f.units /\ m.units[u] = f.units[u]
  BY <1>1 DEF NewerOf
<1>4. g \in DOMAIN m.gens
  BY <1>1 DEF NewerOf
<1>5. m.gens[g].status = "authoritative" /\ m.gens[g].published = p /\ m.gens[g].units = U
  BY <1>2, <1>4 DEF Leads
<1>6. \A h \in DOMAIN m.gens \ {g} : m.gens[h].published < p
  BY <1>2 DEF Leads
<1>7. \A u \in DOMAIN m.units : m.units[u].rev <= p
  BY <1>3 DEF Leads
<1>8. ASSUME NEW u \in U PROVE m.units[u] = [gen |-> g, live |-> TRUE, rev |-> p]
  <2> DEFINE row == [gen |-> g, live |-> TRUE, rev |-> p]
  <2>1. CASE g \in DOMAIN s.gens /\ g \in DOMAIN f.gens
    <3>1. u \in DOMAIN s.units /\ s.units[u] = row /\ u \in DOMAIN f.units /\ f.units[u] = row
      BY <1>1, <2>1 DEF Leads, Closed
    <3>2. u \in DOMAIN m.units
      BY <1>1, <3>1 DEF NewerOf
    <3> QED
      BY <1>3, <3>1, <3>2
  <2>2. CASE g \in DOMAIN s.gens /\ g \notin DOMAIN f.gens
    <3>1. u \in DOMAIN s.units /\ s.units[u] = row
      BY <1>1, <2>2 DEF Leads, Closed
    <3>2. s.units[u].rev = p /\ (u \in DOMAIN f.units => f.units[u].rev < p)
      BY <2>2, <3>1 DEF Leads
    <3>3. ~ (u \in DOMAIN f.units /\ f.units[u].rev > s.units[u].rev)
      <4>1. ASSUME u \in DOMAIN f.units PROVE f.units[u].rev \in Nat
        BY <4>1, RowsAre DEF Sound
      <4> QED
        BY <3>2, <4>1
    <3>4. m.units[u] = s.units[u]
      BY <1>1, <3>1, <3>3 DEF NewerOf
    <3> QED
      BY <3>1, <3>4
  <2>3. CASE g \notin DOMAIN s.gens /\ g \in DOMAIN f.gens
    <3>1. u \in DOMAIN f.units /\ f.units[u] = row
      BY <1>1, <2>3 DEF Leads, Closed
    <3>2. f.units[u].rev = p /\ (u \in DOMAIN s.units => s.units[u].rev < p)
      BY <2>3, <3>1 DEF Leads
    <3>3. u \in DOMAIN s.units => f.units[u].rev > s.units[u].rev
      <4>1. ASSUME u \in DOMAIN s.units PROVE s.units[u].rev \in Nat
        BY <4>1, RowsAre DEF Sound
      <4> QED
        BY <3>2, <4>1
    <3>4. m.units[u] = f.units[u]
      BY <1>1, <3>1, <3>3 DEF NewerOf
    <3> QED
      BY <3>1, <3>4
  <2> QED
    BY <2>1, <2>2, <2>3
<1>9. g \in Authoritative(m)
  BY <1>4, <1>5 DEF Authoritative
<1> QED
  BY <1>4, <1>5, <1>6, <1>7, <1>8, <1>9, Zenon DEF Leads

(* After an import of rows that were all made of one text, the generation  *)
(* published last serves, with its units.                                  *)
LEMMA ImportServes ==
  ASSUME NEW s, NEW f, Sound(s), Sound(f), NEW now \in Nat,
         NEW m, m = Merged(s, f), NEW n, n = Reconciled(m, now),
         Serves(s), Serves(f), Agrees(s, f), Distinct(s, f),
         NEW text, \A h \in DOMAIN s.gens : s.gens[h].text = text,
         \A h \in DOMAIN f.gens : f.gens[h].text = text
  PROVE  Serves(n)
<1>1. /\ m \in Databases /\ Closed(m)
      /\ NewerOf(m.gens, s.gens, f.gens)
      /\ Authoritative(m) \subseteq Authoritative(s) \cup Authoritative(f)
  BY MergedIs
<1>2. KeptOf(n, s, f)
  BY ImportIs
<1>3. SUFFICES ASSUME DOMAIN s.gens \cup DOMAIN f.gens # {} PROVE Serves(n)
  BY <1>2 DEF KeptOf, Serves
<1>4. PICK g \in DOMAIN s.gens \cup DOMAIN f.gens, p \in Nat, U \in SUBSET Gens :
          Leads(s, g, p, U) /\ Leads(f, g, p, U)
  BY <1>3, OneLeads
<1>5. g \in Authoritative(m) /\ Leads(m, g, p, U)
  BY <1>4, MergeKeepsLeader
<1>6. PICK c, d : Authoritative(m) \subseteq {c, d}
  BY <1>1, AtMostTwo DEF Sound
<1>7. PICK w : w = Winner(m)
  OBVIOUS
<1>8. w \in Authoritative(m) /\ \A h \in Authoritative(m) : Beats(m, w, h)
  BY <1>1, <1>5, <1>6, <1>7, WinnerIs
<1>9. g \in DOMAIN m.gens /\ w \in DOMAIN m.gens
  BY <1>5, <1>8 DEF Authoritative
<1>10. m.gens[w].text = text /\ m.gens[g].text = text
  BY <1>1, <1>9 DEF NewerOf
<1>11. w = g
  <2>1. SUFFICES ASSUME w # g PROVE FALSE
    OBVIOUS
  <2>2. m.gens[w].published < p /\ m.gens[g].published = p
    BY <1>5, <1>9, <2>1 DEF Leads
  <2>3. m.gens[w].published \in Nat
    BY <1>1, <1>9, RowsAre
  <2>4. Beats(m, w, g)
    BY <1>5, <1>8
  <2>5. Made(m, w) = Made(m, g) /\ Made(m, w) \in Nat
    BY <1>10 DEF Made
  <2> QED
    BY <1>1, <1>9, <2>2, <2>3, <2>4, <2>5, BeatsIs
<1>12. ChosenIn(n, m, g)
  BY <1>1, <1>5, <1>7, <1>11, ReconciledIs
<1>13. Leads(n, g, p, U)
  <2>1. /\ n.units = m.units /\ DOMAIN n.gens = DOMAIN m.gens /\ n.gens[g] = m.gens[g]
        /\ \A h \in DOMAIN m.gens : n.gens[h].published = m.gens[h].published
    BY <1>12 DEF ChosenIn
  <2> QED
    BY <1>5, <2>1 DEF Leads
<1>14. g \in DOMAIN n.gens /\ n.gens[g].published = p /\ n.gens[g].units = U
  BY <1>9, <1>12, <1>13 DEF ChosenIn, Leads
<1> QED
  BY <1>13, <1>14 DEF Serves

-----------------------------------------------------------------------------
(* The invariant *)

Snapshots == {base[d] : d \in Devices} \cup {file[d] : d \in Devices}

(* All was published before the next write.                                *)
Late(s) == \A h \in DOMAIN s.gens, d \in Devices : s.gens[h].published < Step * (writes + 1 + skew[d])

IInv ==
    /\ base \in [Devices -> Databases] /\ file \in [Devices -> Databases]
    /\ writes \in 0..MaxWrites /\ skew \in [Devices -> Skews]
    /\ \A s \in Snapshots : Sound(s)
    /\ \A s, t \in Snapshots : Agrees(s, t)
    /\ \A d \in Devices : DOMAIN file[d].gens \subseteq DOMAIN base[d].gens
    /\ OneText => /\ \A s \in Snapshots : Serves(s) /\ Late(s)
                  /\ \A s, t \in Snapshots : Distinct(s, t)

LEMMA EmptyIs == <<>> = [x \in {} |-> 0] /\ DOMAIN <<>> = {}
OBVIOUS

LEMMA NoRows ==
  ASSUME NEW K, NEW R, NEW t, t \in Tables(K, R)
  PROVE  <<>> \in Tables(K, R) /\ (DOMAIN t = {} => t = <<>>)
<1>1. <<>> \in [{} -> R]
  BY EmptyIs
<1>2. ASSUME DOMAIN t = {} PROVE t = <<>>
  <2>1. t = [x \in DOMAIN t |-> t[x]]
    BY TableIs
  <2>2. t = [x \in {} |-> 0]
    BY <1>2, <2>1
  <2> QED
    BY <2>2, EmptyIs
<1> QED
  BY <1>1, <1>2, TableFrom

LEMMA Moments ==
  ASSUME NEW w \in Nat, NEW k \in Nat, NEW r \in 0..(Step - 1)
  PROVE  /\ Step * (w + 1 + k) \in Nat /\ Step * (w + 1 + k) + r \in Nat
         /\ Step * (w + 1 + k) + r < Step * (w + 1 + 1 + k)
         /\ Step * (w + 1 + k) <= Step * (w + 1 + k) + r
<1>1. PICK a : a = w + 1 + k
  OBVIOUS
<1>2. a \in Nat /\ w + 1 + 1 + k = a + 1 /\ Step \in Nat \ {0} /\ r \in Nat /\ r < Step
  BY <1>1, GenerationsAssumption
<1>3. PICK b : b = Step * a
  OBVIOUS
<1>4. b \in Nat /\ Step * (a + 1) = b + Step
  BY <1>2, <1>3
<1> QED
  BY <1>1, <1>2, <1>3, <1>4

LEMMA InitInv == Init => IInv
<1> SUFFICES ASSUME Init PROVE IInv
  OBVIOUS
<1>1. Empty \in Databases
  <2>1. [text |-> 1, rev |-> 0] \in SourceRows
    BY GenerationsAssumption DEF SourceRows
  <2>2. <<>> \in [{} -> GenRows] /\ <<>> \in [{} -> UnitRows] /\ <<>> \in [{} -> RelRows]
    BY EmptyIs
  <2>3. <<>> \in Tables(Gens, GenRows) /\ <<>> \in Tables(Gens, UnitRows) /\ <<>> \in Tables(Rels, RelRows)
    BY <2>2, TableFrom
  <2> QED
    BY <2>1, <2>3 DEF Empty, Databases
<1>2. DOMAIN Empty.gens = {} /\ DOMAIN Empty.units = {} /\ DOMAIN Empty.rels = {}
  BY EmptyIs DEF Empty
<1>3. Authoritative(Empty) = {}
  BY <1>2 DEF Authoritative
<1>4. Sound(Empty)
  BY <1>1, <1>2, <1>3 DEF Sound, Closed, One, Topology
<1>5. \A s \in Snapshots : s = Empty
  BY DEF Init, Snapshots
<1>6. Agrees(Empty, Empty) /\ Distinct(Empty, Empty) /\ Serves(Empty) /\ Late(Empty)
  BY <1>2 DEF Agrees, Distinct, Serves, Late
<1>7. skew \in [Devices -> Skews] /\ writes \in 0..MaxWrites
  BY GenerationsAssumption DEF Init
<1>8. /\ base \in [Devices -> Databases] /\ file \in [Devices -> Databases]
      /\ \A d \in Devices : DOMAIN file[d].gens \subseteq DOMAIN base[d].gens
  BY <1>1 DEF Init
<1> QED
  BY <1>4, <1>5, <1>6, <1>7, <1>8 DEF IInv

(* A step that changes one database keeps the invariant when the database  *)
(* it leaves fits.                                                         *)
LEMMA WriteKeeps ==
  ASSUME IInv, NEW d \in Devices, NEW n, base' = [base EXCEPT ![d] = n], UNCHANGED <<file, skew>>,
         writes' \in 0..MaxWrites, writes' \in {writes, writes + 1},
         Sound(n), \A t \in Snapshots : Agrees(n, t), DOMAIN base[d].gens \subseteq DOMAIN n.gens,
         OneText /\ OneText' =>
            /\ Serves(n) /\ \A t \in Snapshots : Distinct(n, t)
            /\ Distinct(n, n)
            /\ \A h \in DOMAIN n.gens, e \in Devices : n.gens[h].published < Step * (writes' + 1 + skew[e])
  PROVE  IInv'
<1>1. n \in Databases
  BY DEF Sound
<1>2. /\ base \in [Devices -> Databases] /\ file \in [Devices -> Databases]
      /\ writes \in Nat /\ skew \in [Devices -> Nat] /\ skew \in [Devices -> Skews]
  <2>1. writes \in 0..MaxWrites /\ MaxWrites \in Nat /\ Skews \subseteq Nat /\ skew \in [Devices -> Skews]
    BY GenerationsAssumption DEF IInv
  <2>2. writes \in Nat
    BY <2>1
  <2>3. skew \in [Devices -> Nat]
    BY <2>1
  <2> QED
    BY <2>1, <2>2, <2>3 DEF IInv
<1>3. base' \in [Devices -> Databases] /\ file' \in [Devices -> Databases]
  BY <1>1, <1>2
<1>4. base'[d] = n /\ \A e \in Devices \ {d} : base'[e] = base[e]
  BY <1>2
<1>5. PICK S : S = Snapshots
  OBVIOUS
<1>6. PICK S2 : S2 = Snapshots'
  OBVIOUS
<1>7. S2 \subseteq S \cup {n} /\ \A e \in Devices : base[e] \in S /\ file[e] \in S
  BY <1>4, <1>5, <1>6 DEF Snapshots
<1>8. \A s \in S2 : Sound(s)
  BY <1>5, <1>7 DEF IInv
<1>9. Agrees(n, n) /\ \A t \in S : Agrees(n, t) /\ Agrees(t, n)
  BY <1>5 DEF Agrees
<1>10. \A s, t \in S2 : Agrees(s, t)
  BY <1>5, <1>7, <1>9 DEF IInv
<1>11. \A e \in Devices : DOMAIN base[e].gens \subseteq DOMAIN base'[e].gens
  BY <1>4
<1>12. \A e \in Devices : DOMAIN file'[e].gens \subseteq DOMAIN base'[e].gens
  BY <1>11 DEF IInv
<1>13. ASSUME OneText' PROVE OneText
  <2>1. \A e, f \in Devices : skew[e] = skew[f]
    BY <1>13 DEF OneText
  <2>2. ASSUME NEW e \in Devices, NEW g \in DOMAIN base[e].gens
        PROVE  g \in DOMAIN base'[e].gens /\ base'[e].gens[g].text = base[e].gens[g].text
    <3>1. Agrees(n, base[d])
      BY <1>7, <1>9
    <3> QED
      BY <1>4, <1>11, <3>1 DEF Agrees
  <2>3. ASSUME NEW e \in Devices, NEW f \in Devices,
               NEW g \in DOMAIN base[e].gens, NEW h \in DOMAIN base[f].gens
        PROVE  base[e].gens[g].text = base[f].gens[h].text
    <3>1. base'[e].gens[g].text = base'[f].gens[h].text
      BY <1>13, <2>2 DEF OneText
    <3> QED
      BY <2>2, <3>1
  <2> QED
    BY <2>1, <2>3 DEF OneText
<1>14. ASSUME OneText'
       PROVE  /\ \A s \in S2 : Serves(s)
              /\ \A s, t \in S2 : Distinct(s, t)
              /\ \A s \in S2 : \A h \in DOMAIN s.gens, e \in Devices :
                    s.gens[h].published < Step * (writes' + 1 + skew[e])
  <2>1. OneText
    BY <1>13, <1>14
  <2>2. \A s \in S2 : Serves(s)
    BY <1>5, <1>7, <1>14, <2>1 DEF IInv
  <2>3. Distinct(n, n) /\ \A t \in S : Distinct(n, t) /\ Distinct(t, n)
    BY <1>5, <1>14, <2>1 DEF Distinct
  <2>4. \A s, t \in S2 : Distinct(s, t)
    BY <1>5, <1>7, <2>1, <2>3 DEF IInv
  <2>5. ASSUME NEW s \in S, NEW h \in DOMAIN s.gens, NEW e \in Devices
        PROVE  s.gens[h].published < Step * (writes' + 1 + skew[e])
    <3>1. s.gens[h].published < Step * (writes + 1 + skew[e])
      BY <1>5, <2>1 DEF IInv, Late
    <3>2. s.gens[h].published \in Nat
      <4>1. s \in Databases
        BY <1>5 DEF IInv, Sound
      <4> QED
        BY <4>1, RowsAre
    <3>3. skew[e] \in Nat
      BY <1>2
    <3>4. 0 \in 0..(Step - 1)
      BY GenerationsAssumption
    <3>5. /\ Step * (writes + 1 + skew[e]) \in Nat /\ Step * (writes + 1 + skew[e]) + 0 \in Nat
          /\ Step * (writes + 1 + skew[e]) + 0 < Step * (writes + 1 + 1 + skew[e])
      BY <1>2, <3>3, <3>4, Moments
    <3>6. 0 \in 0..(Step - 1) /\ writes + 1 \in Nat
      BY <1>2, <3>4
    <3>7. Step * (writes + 1 + 1 + skew[e]) \in Nat
      BY <3>3, <3>6, Moments
    <3>8. CASE writes' = writes
      BY <3>1, <3>8
    <3>9. CASE writes' = writes + 1
      <4>1. s.gens[h].published < Step * (writes + 1 + 1 + skew[e])
        <5> DEFINE a == Step * (writes + 1 + skew[e])
                   b == Step * (writes + 1 + 1 + skew[e])
        <5>1. s.gens[h].published < a /\ a \in Nat /\ a + 0 < b /\ b \in Nat
          BY <3>1, <3>5, <3>7
        <5> HIDE DEF a, b
        <5>2. s.gens[h].published < b
          BY <3>2, <5>1
        <5> QED
          BY <5>2 DEF b
      <4> QED
        BY <3>9, <4>1
    <3> QED
      BY <3>8, <3>9
  <2> QED
    BY <1>7, <1>14, <2>1, <2>2, <2>4, <2>5
<1>15. ASSUME OneText'
       PROVE  /\ \A s \in S2 : Serves(s) /\ Late(s)'
              /\ \A s, t \in S2 : Distinct(s, t)
  BY <1>14, <1>15 DEF Late
<1>16. skew' \in [Devices -> Skews]
  BY <1>2
<1> QED
  BY <1>3, <1>6, <1>8, <1>10, <1>12, <1>15, <1>16 DEF IInv

LEMMA NowIs ==
  ASSUME IInv, NEW d \in Devices
  PROVE  /\ writes \in Nat /\ skew[d] \in Nat /\ Now(d) \in Nat
         /\ Step * (writes + 1 + skew[d]) <= Now(d)
         /\ Now(d) < Step * (writes + 1 + 1 + skew[d])
         /\ Step * (writes + 1 + skew[d]) \in Nat /\ Step * (writes + 1 + 1 + skew[d]) \in Nat
<1>1. writes \in 0..MaxWrites /\ MaxWrites \in Nat /\ Skews \subseteq Nat /\ skew \in [Devices -> Skews]
  BY GenerationsAssumption DEF IInv
<1>2. writes \in Nat /\ skew[d] \in Nat /\ writes + 1 \in Nat
  <2>1. writes \in Nat /\ writes + 1 \in Nat
    BY <1>1
  <2>2. skew[d] \in Skews
    BY <1>1
  <2> QED
    BY <1>1, <2>1, <2>2
<1>3. Rank[d] \in 0..(Step - 1) /\ 0 \in 0..(Step - 1)
  BY GenerationsAssumption
<1>4. Step * (writes + 1 + 1 + skew[d]) \in Nat
  BY <1>2, <1>3, Moments
<1> QED
  BY <1>2, <1>3, <1>4, Moments DEF Now

LEMMA SnapshotsAre ==
  ASSUME IInv, NEW d \in Devices
  PROVE  /\ base[d] \in Snapshots /\ Sound(base[d]) /\ base[d] \in Databases
         /\ file[d] \in Snapshots /\ Sound(file[d]) /\ file[d] \in Databases
         /\ Closed(base[d]) /\ Closed(file[d])
         /\ DOMAIN file[d].gens \subseteq DOMAIN base[d].gens
<1>1. base[d] \in Snapshots /\ file[d] \in Snapshots
  BY DEF Snapshots
<1>2. Sound(base[d]) /\ Sound(file[d])
  BY <1>1 DEF IInv
<1> QED
  BY <1>1, <1>2 DEF IInv, Sound

LEMMA UpdateKeeps ==
  ASSUME IInv, NEW d \in Devices, NEW text \in Texts, UpdateSource(d, text)
  PROVE  IInv'
<1>1. PICK now : now = Now(d)
  OBVIOUS
<1>2. PICK n : n = Touched(base[d], text, now)
  OBVIOUS
<1>3. /\ writes < MaxWrites /\ writes' = writes + 1
      /\ base' = [base EXCEPT ![d] = n] /\ UNCHANGED <<file, skew>>
  BY <1>1, <1>2 DEF UpdateSource, Write
<1>4. /\ now \in Nat /\ writes \in Nat
  BY <1>1, NowIs
<1>5. Sound(base[d]) /\ base[d] \in Databases /\ base[d] \in Snapshots
  BY SnapshotsAre
<1>6. n \in Databases /\ n.gens = base[d].gens /\ n.units = base[d].units /\ n.rels = base[d].rels
  BY <1>2, <1>4, <1>5, TouchedIs
<1>7. Sound(n)
  BY <1>5, <1>6 DEF Sound, Closed, One, Topology, Authoritative, Active
<1>8. \A t \in Snapshots : Agrees(n, t)
  BY <1>5, <1>6 DEF IInv, Agrees
<1>9. writes' \in 0..MaxWrites
  BY <1>3, <1>4, GenerationsAssumption
<1>10. ASSUME OneText, OneText'
       PROVE  /\ Serves(n) /\ \A t \in Snapshots : Distinct(n, t)
              /\ Distinct(n, n)
              /\ \A h \in DOMAIN n.gens, e \in Devices : n.gens[h].published < Step * (writes' + 1 + skew[e])
  <2>1. Serves(n)
    BY <1>5, <1>6, <1>10 DEF IInv, Serves, Leads
  <2>2. Distinct(n, n) /\ \A t \in Snapshots : Distinct(n, t)
    BY <1>5, <1>6, <1>10 DEF IInv, Distinct
  <2>3. ASSUME NEW h \in DOMAIN n.gens, NEW e \in Devices
        PROVE  n.gens[h].published < Step * (writes' + 1 + skew[e])
    <3>1. n.gens[h].published < Step * (writes + 1 + skew[e])
      BY <1>5, <1>6, <1>10 DEF IInv, Late
    <3>2. PICK a : a = Step * (writes + 1 + skew[e])
      OBVIOUS
    <3>3. PICK b : b = Step * (writes + 1 + 1 + skew[e])
      OBVIOUS
    <3>4. PICK c : c = Now(e)
      OBVIOUS
    <3>5. a \in Nat /\ b \in Nat /\ c \in Nat /\ a <= c /\ c < b
      BY <3>2, <3>3, <3>4, NowIs
    <3>6. n.gens[h].published \in Nat
      BY <1>6, RowsAre
    <3>7. n.gens[h].published < b
      BY <3>1, <3>2, <3>5, <3>6
    <3> QED
      BY <1>3, <3>3, <3>7
  <2> QED
    BY <2>1, <2>2, <2>3
<1>11. DOMAIN base[d].gens \subseteq DOMAIN n.gens
  BY <1>6
<1> QED
  BY <1>3, <1>7, <1>8, <1>9, <1>10, <1>11, WriteKeeps

LEMMA PublishKeeps ==
  ASSUME IInv, NEW d \in Devices, NEW g \in Fresh, NEW members \in SUBSET Rels,
         NEW carried \in SUBSET Served(base[d]), Publish(d, g, carried, members)
  PROVE  IInv'
<1>1. PICK s : s = base[d]
  OBVIOUS
<1>2. PICK now : now = Now(d)
  OBVIOUS
<1>3. PICK n : n = Touched([s EXCEPT !.gens = Flipped(s, g, carried, members, now),
                                     !.units = Stamped(s, g, carried, now),
                                     !.rels = Authored(s, g, members, now)],
                           s.source.text, now)
  OBVIOUS
<1>4. /\ writes < MaxWrites /\ writes' = writes + 1
      /\ base' = [base EXCEPT ![d] = n] /\ UNCHANGED <<file, skew>>
  BY <1>1, <1>2, <1>3 DEF Publish, Write
<1>5. now \in Nat /\ writes \in Nat
  BY <1>2, NowIs
<1>6. Sound(s) /\ s \in Databases /\ s \in Snapshots /\ Closed(s)
  BY <1>1, SnapshotsAre
<1>7. g \in Gens /\ \A e \in Devices : g \notin DOMAIN base[e].gens
  BY DEF Fresh
<1>8. \A t \in Snapshots : g \notin DOMAIN t.gens
  BY <1>7 DEF IInv, Snapshots
<1>9. carried \subseteq Served(s) /\ members \subseteq Rels
  BY <1>1
<1>10. /\ Sound(n)
       /\ FlippedTo(n.gens, s, g, carried, members, now)
       /\ StampedBy(n.units, s, g, carried, now)
  BY <1>3, <1>5, <1>6, <1>7, <1>9, PublishIs
<1>11. /\ DOMAIN n.gens = {g} \cup DOMAIN s.gens
       /\ n.gens[g].status = "authoritative" /\ n.gens[g].published = now /\ n.gens[g].units = carried \cup {g}
       /\ \A h \in DOMAIN s.gens : /\ n.gens[h].text = s.gens[h].text
                                   /\ n.gens[h].published = s.gens[h].published
                                   /\ n.gens[h].units = s.gens[h].units
  BY <1>6, <1>8, <1>10 DEF FlippedTo
<1>12. \A t \in Snapshots : Agrees(n, t)
  <2>1. ASSUME NEW t \in Snapshots, NEW h \in DOMAIN n.gens \cap DOMAIN t.gens
        PROVE  /\ n.gens[h].text = t.gens[h].text /\ n.gens[h].published = t.gens[h].published
               /\ n.gens[h].units = t.gens[h].units
    <3>1. h \in DOMAIN s.gens \cap DOMAIN t.gens
      BY <1>8, <1>11
    <3>2. Agrees(s, t)
      BY <1>6 DEF IInv
    <3> QED
      BY <1>11, <3>1, <3>2 DEF Agrees
  <2> QED
    BY <2>1 DEF Agrees
<1>13. writes' \in 0..MaxWrites
  BY <1>4, <1>5, GenerationsAssumption
<1>14. ASSUME OneText, OneText'
       PROVE  /\ Serves(n) /\ \A t \in Snapshots : Distinct(n, t)
              /\ Distinct(n, n)
              /\ \A h \in DOMAIN n.gens, e \in Devices : n.gens[h].published < Step * (writes' + 1 + skew[e])
  <2>1. PICK a : a = Step * (writes + 1 + skew[d])
    OBVIOUS
  <2>2. PICK b : b = Step * (writes + 1 + 1 + skew[d])
    OBVIOUS
  <2>3. a \in Nat /\ b \in Nat /\ a <= now /\ now < b
    BY <1>2, <2>1, <2>2, NowIs
  <2>4. ASSUME NEW t \in Snapshots, NEW h \in DOMAIN t.gens
        PROVE  t.gens[h].published \in Nat /\ t.gens[h].published < a
    <3>1. t \in Databases
      BY DEF IInv, Sound
    <3> QED
      BY <1>14, <2>1, <3>1, RowsAre DEF IInv, Late
  <2>5. \A h \in DOMAIN s.gens : s.gens[h].published \in Nat /\ s.gens[h].published < now
    BY <1>5, <1>6, <2>3, <2>4
  <2>6. ASSUME NEW u \in DOMAIN s.units PROVE s.units[u].rev \in Nat /\ s.units[u].rev < now
    <3>1. DOMAIN s.gens # {}
      BY <1>6 DEF Closed
    <3>2. PICK l \in DOMAIN s.gens : Leads(s, l, s.gens[l].published, s.gens[l].units)
      BY <1>6, <1>14, <3>1 DEF IInv, Serves
    <3>3. s.units[u].rev <= s.gens[l].published
      BY <3>2 DEF Leads
    <3>4. s.units[u].rev \in Nat
      BY <1>6, RowsAre
    <3> QED
      BY <1>5, <2>5, <3>3, <3>4
  <2>7. Leads(n, g, now, carried \cup {g})
    <3>1. \A u \in carried \cup {g} : n.units[u] = [gen |-> g, live |-> TRUE, rev |-> now]
      BY <1>10 DEF StampedBy
    <3>2. \A h \in DOMAIN n.gens \ {g} : n.gens[h].published < now
      BY <1>11, <2>5
    <3>3. ASSUME NEW u \in DOMAIN n.units PROVE n.units[u].rev <= now
      <4>1. CASE u \in carried \cup {g}
        BY <1>5, <3>1, <4>1
      <4>2. CASE u \notin carried \cup {g}
        BY <1>10, <2>6, <4>2 DEF StampedBy
      <4> QED
        BY <4>1, <4>2
    <3>4. /\ g \in DOMAIN n.gens /\ n.gens[g].status = "authoritative"
          /\ n.gens[g].published = now /\ n.gens[g].units = carried \cup {g}
      BY <1>11
    <3>5. g \in DOMAIN n.gens =>
             /\ n.gens[g].status = "authoritative" /\ n.gens[g].published = now
             /\ n.gens[g].units = carried \cup {g}
             /\ \A u \in carried \cup {g} : n.units[u] = [gen |-> g, live |-> TRUE, rev |-> now]
      BY <3>1, <3>4, Zenon
    <3>6. \A u \in DOMAIN n.units : n.units[u].rev <= now /\ (g \notin DOMAIN n.gens => n.units[u].rev < now)
      BY <3>3, <3>4, Zenon
    <3> QED
      BY <3>2, <3>5, <3>6 DEF Leads
  <2>8. Serves(n)
    BY <1>11, <2>7 DEF Serves
  <2>9. ASSUME NEW t \in Snapshots PROVE Distinct(n, t)
    <3>1. Distinct(s, t)
      BY <1>6, <1>14 DEF IInv
    <3>2. \A h \in DOMAIN t.gens : t.gens[h].published # n.gens[g].published
      BY <1>5, <1>11, <2>3, <2>4
    <3> QED
      BY <1>11, <3>1, <3>2 DEF Distinct
  <2>10. Distinct(n, n)
    <3>1. Distinct(s, s)
      BY <1>6, <1>14 DEF IInv
    <3>2. \A h \in DOMAIN s.gens : n.gens[h].published # n.gens[g].published
      BY <1>5, <1>11, <2>5
    <3> QED
      BY <1>11, <3>1, <3>2 DEF Distinct
  <2>11. ASSUME NEW h \in DOMAIN n.gens, NEW e \in Devices
         PROVE  n.gens[h].published < Step * (writes' + 1 + skew[e])
    <3>1. skew[e] = skew[d]
      BY <1>14 DEF OneText
    <3>2. n.gens[h].published \in Nat /\ n.gens[h].published <= now
      BY <1>5, <1>11, <2>5
    <3>3. n.gens[h].published < b
      BY <1>5, <2>3, <3>2
    <3> QED
      BY <1>4, <2>2, <3>1, <3>3
  <2> QED
    BY <2>8, <2>9, <2>10, <2>11
<1>15. DOMAIN base[d].gens \subseteq DOMAIN n.gens
  BY <1>1, <1>11
<1> QED
  BY <1>4, <1>10, <1>12, <1>13, <1>14, <1>15, WriteKeeps

LEMMA ImportKeeps ==
  ASSUME IInv, NEW d \in Devices, NEW p \in Devices, Import(d, p)
  PROVE  IInv'
<1>1. PICK s : s = base[d]
  OBVIOUS
<1>2. PICK f : f = file[p]
  OBVIOUS
<1>3. PICK now : now = Now(d)
  OBVIOUS
<1>4. PICK m : m = Merged(s, f)
  OBVIOUS
<1>5. PICK n : n = Reconciled(m, now)
  OBVIOUS
<1>6. base' = [base EXCEPT ![d] = n] /\ UNCHANGED <<file, skew, writes>>
  BY <1>1, <1>2, <1>3, <1>4, <1>5 DEF Import, After
<1>7. now \in Nat /\ writes \in Nat
  BY <1>3, NowIs
<1>8. Sound(s) /\ s \in Snapshots /\ Sound(f) /\ f \in Snapshots
  BY <1>1, <1>2, SnapshotsAre
<1>9. Sound(n) /\ KeptOf(n, s, f)
  BY <1>4, <1>5, <1>7, <1>8, ImportIs
<1>10. ASSUME NEW t \in Snapshots PROVE Agrees(n, t)
  <2>1. Agrees(s, t) /\ Agrees(f, t)
    BY <1>8 DEF IInv
  <2> QED
    BY <1>9, <2>1 DEF KeptOf, Agrees
<1>11. ASSUME OneText, OneText'
       PROVE  /\ Serves(n) /\ \A t \in Snapshots : Distinct(n, t)
              /\ Distinct(n, n)
              /\ \A h \in DOMAIN n.gens, e \in Devices : n.gens[h].published < Step * (writes' + 1 + skew[e])
  <2>1. PICK text : \A e \in Devices, h \in Gens : h \in DOMAIN base[e].gens => base[e].gens[h].text = text
    <3>1. CASE \A e \in Devices : DOMAIN base[e].gens = {}
      BY <3>1
    <3>2. CASE ~ \A e \in Devices : DOMAIN base[e].gens = {}
      <4>1. PICK c \in Devices : DOMAIN base[c].gens # {}
        BY <3>2
      <4>2. PICK k \in DOMAIN base[c].gens : TRUE
        BY <4>1
      <4>3. PICK t : t = base[c].gens[k].text
        OBVIOUS
      <4>4. \A e \in Devices : \A h \in DOMAIN base[e].gens : base[e].gens[h].text = t
        BY <1>11, <4>2, <4>3 DEF OneText
      <4> QED
        BY <4>4
    <3> QED
      BY <3>1, <3>2
  <2>2. ASSUME NEW h \in DOMAIN s.gens PROVE s.gens[h].text = text
    <3>1. h \in Gens
      BY <1>8, RowsAre DEF Sound
    <3> QED
      BY <1>1, <2>1, <3>1
  <2>3. ASSUME NEW h \in DOMAIN f.gens PROVE f.gens[h].text = text
    <3>1. h \in Gens
      BY <1>8, RowsAre DEF Sound
    <3>2. h \in DOMAIN base[p].gens /\ Agrees(f, base[p])
      BY <1>2, <1>8, SnapshotsAre DEF IInv
    <3>3. f.gens[h].text = base[p].gens[h].text
      BY <3>2 DEF Agrees
    <3> QED
      BY <2>1, <3>1, <3>2, <3>3
  <2>4. Serves(s) /\ Serves(f) /\ Agrees(s, f) /\ Distinct(s, f)
    BY <1>8, <1>11 DEF IInv
  <2>5. Serves(n)
    BY <1>4, <1>5, <1>7, <1>8, <2>2, <2>3, <2>4, ImportServes
  <2>6. ASSUME NEW t \in Snapshots PROVE Distinct(n, t) /\ Distinct(t, n)
    <3>1. Distinct(s, t) /\ Distinct(f, t)
      BY <1>8, <1>11 DEF IInv
    <3> QED
      BY <1>9, <3>1 DEF KeptOf, Distinct
  <2>7. Distinct(n, n)
    <3>1. Distinct(s, n) /\ Distinct(f, n)
      BY <1>8, <2>6
    <3> QED
      BY <1>9, <3>1 DEF KeptOf, Distinct
  <2>8. ASSUME NEW h \in DOMAIN n.gens, NEW e \in Devices
        PROVE  n.gens[h].published < Step * (writes' + 1 + skew[e])
    <3>1. Late(s) /\ Late(f)
      BY <1>8, <1>11 DEF IInv
    <3> QED
      BY <1>6, <1>9, <3>1 DEF KeptOf, Late
  <2> QED
    BY <2>5, <2>6, <2>7, <2>8
<1>12. DOMAIN base[d].gens \subseteq DOMAIN n.gens
  BY <1>1, <1>9 DEF KeptOf
<1>13. writes' \in 0..MaxWrites /\ writes' \in {writes, writes + 1}
  BY <1>6 DEF IInv
<1> QED
  BY <1>6, <1>9, <1>10, <1>11, <1>12, <1>13, WriteKeeps

LEMMA ExportKeeps ==
  ASSUME IInv, NEW d \in Devices, Export(d)
  PROVE  IInv'
<1>1. file' = [file EXCEPT ![d] = base[d]] /\ UNCHANGED <<base, skew, writes>>
  BY DEF Export
<1>2. base \in [Devices -> Databases] /\ file \in [Devices -> Databases]
  BY DEF IInv
<1>3. file'[d] = base[d] /\ \A e \in Devices \ {d} : file'[e] = file[e]
  BY <1>1, <1>2
<1>4. PICK S : S = Snapshots
  OBVIOUS
<1>5. PICK S2 : S2 = Snapshots'
  OBVIOUS
<1>6. S2 \subseteq S
  BY <1>1, <1>3, <1>4, <1>5 DEF Snapshots
<1>7. base' \in [Devices -> Databases] /\ file' \in [Devices -> Databases]
  BY <1>1, <1>2
<1>8. /\ \A s \in S2 : Sound(s)
      /\ \A s, t \in S2 : Agrees(s, t)
  BY <1>4, <1>6 DEF IInv
<1>9. \A e \in Devices : DOMAIN file'[e].gens \subseteq DOMAIN base'[e].gens
  BY <1>1, <1>3 DEF IInv
<1>10. ASSUME OneText'
       PROVE  /\ \A s \in S2 : Serves(s) /\ Late(s)'
              /\ \A s, t \in S2 : Distinct(s, t)
  <2>1. OneText
    BY <1>1, <1>10 DEF OneText
  <2>2. \A s \in S2 : Serves(s) /\ Late(s)
    BY <1>4, <1>6, <2>1 DEF IInv
  <2>3. \A s \in S2 : Late(s)'
    BY <1>1, <2>2 DEF Late
  <2> QED
    BY <1>4, <1>6, <2>1, <2>2, <2>3 DEF IInv
<1>11. writes' \in 0..MaxWrites /\ skew' \in [Devices -> Skews]
  BY <1>1 DEF IInv
<1> QED
  BY <1>5, <1>7, <1>8, <1>9, <1>10, <1>11 DEF IInv

LEMMA StepInv == IInv /\ [Next]_vars => IInv'
<1> SUFFICES ASSUME IInv, [Next]_vars PROVE IInv'
  OBVIOUS
<1>1. ASSUME NEW d \in Devices, NEW text \in Texts, UpdateSource(d, text) PROVE IInv'
  BY <1>1, UpdateKeeps
<1>2. ASSUME NEW d \in Devices, NEW g \in Fresh, NEW members \in SUBSET Rels,
             NEW carried \in SUBSET Served(base[d]), Publish(d, g, carried, members)
      PROVE  IInv'
  BY <1>2, PublishKeeps
<1>3. ASSUME NEW d \in Devices, Export(d) PROVE IInv'
  BY <1>3, ExportKeeps
<1>4. ASSUME NEW d \in Devices, NEW p \in Devices \ {d}, Import(d, p) PROVE IInv'
  BY <1>4, ImportKeeps
<1>5. CASE UNCHANGED vars
  <2>1. Snapshots' = Snapshots /\ (OneText' <=> OneText)
    BY <1>5 DEF vars, Snapshots, OneText
  <2>2. \A s : Late(s)' <=> Late(s)
    BY <1>5 DEF vars, Late
  <2> QED
    BY <1>5, <2>1, <2>2 DEF vars, IInv
<1> QED
  BY <1>1, <1>2, <1>3, <1>4, <1>5 DEF Next, Exchange

-----------------------------------------------------------------------------
(* What follows from it *)

LEMMA InvTypes == IInv => TypeOK
<1> SUFFICES ASSUME IInv PROVE TypeOK
  OBVIOUS
<1>1. ASSUME NEW s \in Snapshots
      PROVE  /\ s.source \in [text : Texts, rev : Rev]
             /\ DOMAIN s.gens \subseteq Gens /\ DOMAIN s.units = DOMAIN s.gens /\ DOMAIN s.rels \subseteq Rels
             /\ \A g \in DOMAIN s.gens : s.gens[g] \in
                   [status : {"authoritative", "discarded"}, text : Texts, published : Rev, rev : Rev,
                    units : SUBSET DOMAIN s.gens, members : SUBSET DOMAIN s.rels]
             /\ \A u \in DOMAIN s.units : s.units[u] \in [gen : DOMAIN s.gens, live : BOOLEAN, rev : Rev]
             /\ \A r \in DOMAIN s.rels : s.rels[r] \in [gen : DOMAIN s.gens, active : BOOLEAN, rev : Rev]
  <2>1. s \in Databases /\ Closed(s)
    BY DEF IInv, Sound
  <2>2. /\ s.source \in SourceRows /\ s.gens \in Tables(Gens, GenRows)
        /\ s.units \in Tables(Gens, UnitRows) /\ s.rels \in Tables(Rels, RelRows)
    BY <2>1, DatabaseIs
  <2>3. DOMAIN s.gens \subseteq Gens /\ \A g \in DOMAIN s.gens : s.gens[g] \in GenRows
    BY <2>2, TableIs
  <2>4. \A u \in DOMAIN s.units : s.units[u] \in UnitRows
    BY <2>2, TableIs
  <2>5. DOMAIN s.rels \subseteq Rels /\ \A r \in DOMAIN s.rels : s.rels[r] \in RelRows
    BY <2>2, TableIs
  <2>6. ASSUME NEW g \in DOMAIN s.gens
        PROVE  s.gens[g] \in
                   [status : {"authoritative", "discarded"}, text : Texts, published : Rev, rev : Rev,
                    units : SUBSET DOMAIN s.gens, members : SUBSET DOMAIN s.rels]
    <3>1. s.gens[g] \in GenRows
      BY <2>3
    <3>2. s.gens[g].units \subseteq DOMAIN s.gens /\ s.gens[g].members \subseteq DOMAIN s.rels
      BY <2>1 DEF Closed
    <3> QED
      BY <3>1, <3>2 DEF GenRows, Rev
  <2>7. ASSUME NEW u \in DOMAIN s.units PROVE s.units[u] \in [gen : DOMAIN s.gens, live : BOOLEAN, rev : Rev]
    BY <2>1, <2>4 DEF Closed, UnitRows, Rev
  <2>8. ASSUME NEW r \in DOMAIN s.rels PROVE s.rels[r] \in [gen : DOMAIN s.gens, active : BOOLEAN, rev : Rev]
    BY <2>1, <2>5 DEF Closed, RelRows, Rev
  <2> QED
    BY <2>1, <2>2, <2>3, <2>5, <2>6, <2>7, <2>8 DEF Closed, SourceRows, Rev
<1>2. writes \in 0..MaxWrites /\ skew \in [Devices -> Skews]
  BY DEF IInv
<1> QED
  BY <1>1, <1>2 DEF TypeOK, Snapshots

LEMMA InvOne == IInv => AtMostOneServes
BY SnapshotsAre DEF AtMostOneServes, Sound, One

LEMMA InvTopology == IInv => TopologyOfWinner
BY SnapshotsAre DEF TopologyOfWinner, Sound, Topology

LEMMA InvLast == IInv => LastServes
<1> SUFFICES ASSUME IInv, OneText, NEW d \in Devices, base[d].gens # <<>>
             PROVE  \E g \in Authoritative(base[d]) :
                       /\ \A h \in DOMAIN base[d].gens : base[d].gens[h].published <= base[d].gens[g].published
                       /\ base[d].gens[g].units \subseteq Served(base[d])
  BY DEF LastServes
<1>1. PICK s : s = base[d]
  OBVIOUS
<1>2. s \in Databases /\ Closed(s) /\ s \in Snapshots
  BY <1>1, SnapshotsAre
<1>3. DOMAIN s.gens # {}
  <2>1. s.gens \in Tables(Gens, GenRows)
    BY <1>2, DatabaseIs
  <2>2. s.gens # <<>>
    BY <1>1
  <2>3. DOMAIN s.gens = {} => s.gens = <<>>
    BY <2>1, NoRows
  <2> QED
    BY <2>2, <2>3
<1>4. PICK g \in DOMAIN s.gens : Leads(s, g, s.gens[g].published, s.gens[g].units)
  BY <1>2, <1>3 DEF IInv, Serves
<1>5. g \in Authoritative(s)
  BY <1>4 DEF Leads, Authoritative
<1>6. \A h \in DOMAIN s.gens : s.gens[h].published <= s.gens[g].published
  <2>1. \A h \in DOMAIN s.gens \ {g} : s.gens[h].published < s.gens[g].published
    BY <1>4 DEF Leads
  <2>2. \A h \in DOMAIN s.gens : s.gens[h].published \in Nat
    BY <1>2, RowsAre
  <2> QED
    BY <1>4, <2>1, <2>2
<1>7. s.gens[g].units \subseteq Served(s)
  <2>1. \A u \in s.gens[g].units : s.units[u].live /\ s.units[u].gen = g
    BY <1>4 DEF Leads
  <2>2. s.gens[g].units \subseteq DOMAIN s.units
    BY <1>2, <1>4 DEF Closed
  <2> QED
    BY <1>5, <2>1, <2>2 DEF Served
<1> QED
  BY <1>1, <1>5, <1>6, <1>7

-----------------------------------------------------------------------------
(* Theorems *)

LEMMA Invariant == Spec => []IInv
<1>1. Init => IInv
  BY InitInv
<1>2. IInv /\ [Next]_vars => IInv'
  BY StepInv
<1> QED
  BY <1>1, <1>2, PTL DEF Spec

(* Rows of generations, units and relations are what they are taken for,   *)
(* in every database and every snapshot, and refer to rows that are there. *)
THEOREM TypeCorrect == Spec => []TypeOK
BY Invariant, InvTypes, PTL

(* Whatever a merge brings, no two generations serve on a device.          *)
THEOREM OnlyOneServes == Spec => []AtMostOneServes
BY Invariant, InvOne, PTL

(* The authored relations that count on a device are those the audit of    *)
(* the generation that serves there lists.                                 *)
THEOREM WinnersTopology == Spec => []TopologyOfWinner
BY Invariant, InvTopology, PTL

(* Of generations made of one text, by clocks that agree, the one that was *)
(* published last serves wherever it is known, with all its units.         *)
THEOREM LastOneServes == Spec => []LastServes
BY Invariant, InvLast, PTL

(* All of it: what the run checks.                                         *)
THEOREM GenerationsHold == Spec => []OneGenerationServes
BY Invariant, InvTypes, InvOne, InvTopology, InvLast, PTL DEF OneGenerationServes
=============================================================================
