-------------------------- MODULE Changefeed_proofs --------------------------
(***************************************************************************)
(* Proofs about Changefeed for any rows, parents, writers, drops and       *)
(* retries: that a retried add makes one row, that one connection delivers *)
(* at a time, and that the lists of every ref follow the database, however *)
(* late changes are read and whatever is written meanwhile.                *)
(***************************************************************************)
EXTENDS Changefeed, FiniteSetTheorems, SequenceTheorems, TLAPS

USE DEF dataVars, linkVars

-----------------------------------------------------------------------------
(* Types *)

Rows == [owners : SUBSET Owners, orgs : SUBSET Orgs, value : Values]
RowOrAbsent == Rows \cup {Absent}
Types == {"added", "modified", "removed"}
FieldSets == SUBSET {"owners", "orgs", "value"}
Entry == [id : Ids, type : Types, fields : FieldSets, old : RowOrAbsent, new : RowOrAbsent]
CollectionRefs == {All} \cup OwnerRefs
ReqRecord ==
    [op : {"none", "add", "patch", "delete"}, id : Ids, ref : CollectionRefs,
     row : [owners : SUBSET Owners, orgs : SUBSET Orgs, value : Values \cup {0}],
     fields : FieldSets, stage : {"idle", "written", "done", "lost"}]

\* A change says what became of a row: that it is there now, that it was and is, or
\* that it was.
EntryOK(c) ==
    /\ c.type = "added" => c.old = Absent /\ There(c.new)
    /\ c.type = "removed" => There(c.old) /\ c.new = Absent
    /\ c.type = "modified" => /\ There(c.old) /\ There(c.new)
                              /\ "value" \in c.fields \/ c.old.value = c.new.value
    /\ c.type = "modified" /\ backend \notin Moving =>
           c.old.owners = c.new.owners /\ c.old.orgs = c.new.orgs

\* A POST carries a whole row, under the client's id where the route takes it; only
\* D1's requests wait to be published, and only a POST is asked again.
ReqOK(r) ==
    /\ r.op = "add" => r.row \in Rows /\ (backend \in Taking => r.id = NewId)
    /\ "value" \in r.fields => r.row.value \in Values
    /\ "owners" \in r.fields \/ "orgs" \in r.fields => backend \in Moving
    /\ r.stage = "lost" => r.op = "add"
    /\ r.stage = "written" => r.op # "none"

DataTypeOK ==
    /\ backend \in Backends /\ images \in BOOLEAN
    /\ db \in [Ids -> RowOrAbsent]
    /\ reqs \in [Writers -> ReqRecord]
    /\ \A w \in Writers : ReqOK(reqs[w]) /\ (reqs[w].stage = "written" => backend = "d1")
    /\ log \in Seq(Entry) /\ \A k \in DOMAIN log : EntryOK(log[k])
    /\ lists \in [Refs -> [Ids -> Nat]]
    /\ through \in [Ids -> SUBSET CollectionRefs]

-----------------------------------------------------------------------------
(* Rows and requests *)

LEMMA RowFacts ==
    /\ Absent \in RowOrAbsent /\ ~There(Absent) /\ Absent.owners = {} /\ Absent.orgs = {}
    /\ \A row \in Rows : There(row) /\ row.value \in Nat \ {0}
    /\ \A row \in RowOrAbsent : /\ row.value \in Nat /\ (~There(row) => row = Absent)
                                /\ (There(row) => row \in Rows)
                                /\ row.owners \subseteq Owners /\ row.orgs \subseteq Orgs
<1>1. /\ Absent \in RowOrAbsent /\ ~There(Absent) /\ Absent.owners = {} /\ Absent.orgs = {}
      /\ Absent.value = 0
    BY DEF RowOrAbsent, Absent, There
<1>2. \A row \in Rows : /\ There(row) /\ row.value \in Nat \ {0}
                        /\ row.owners \subseteq Owners /\ row.orgs \subseteq Orgs
    BY ValuesAssumption DEF Rows, There
<1> QED
    BY <1>1, <1>2 DEF RowOrAbsent

LEMMA RefFacts ==
    /\ CollectionRefs \subseteq Refs /\ DeepRefs \subseteq Refs /\ All \in CollectionRefs
    /\ \A ref \in OwnerRefs : ref # All /\ ref.org = Star /\ ref.owner \in Owners
    /\ \A ref \in DeepRefs : ref # All /\ ref.org # Star /\ ref.org \in Orgs /\ ref.owner \in Owners
    /\ All.org = Star /\ All.owner = Star
    /\ Star \notin Owners /\ Star \notin Orgs
BY ParentsAssumption DEF CollectionRefs, Refs, All, OwnerRefs, DeepRefs, Star

LEMMA RequestType ==
    ASSUME backend \in Backends, NEW q \in Request
    PROVE  q \in ReqRecord /\ ReqOK(q) /\ q.stage = "written" /\ q.op # "none" /\ q.id = NewId
<1> DEFINE refs == {All} \cup {r \in OwnerRefs : backend = "postgres" => backend \in Scalar}
           make(op, id, ref, row, fields) ==
               [op |-> op, id |-> id, ref |-> ref, row |-> row, fields |-> fields, stage |-> "written"]
           adds == {make("add", NewId, r, [owners |-> o, orgs |-> {g}, value |-> v], {}) :
                       r \in refs, o \in Sets(Owners), g \in Orgs, v \in Values}
           values == {make("patch", NewId, r, [Absent EXCEPT !.value = v], {"value"}) :
                         r \in refs, v \in Values}
           owners == {make("patch", NewId, r, [Absent EXCEPT !.owners = o], {"owners"}) :
                         r \in refs, o \in IF backend \in Moving THEN Sets(Owners) ELSE {}}
           orgs == {make("patch", NewId, r, [Absent EXCEPT !.orgs = {g}], {"orgs"}) :
                       r \in refs, g \in IF backend \in Moving THEN Orgs ELSE {}}
           moves == {make("patch", NewId, r, [owners |-> o, orgs |-> {g}, value |-> 0], {"owners", "orgs"}) :
                        r \in refs, o \in Sets(Owners), g \in IF Crossing /\ backend \in Moving THEN Orgs ELSE {}}
           deletes == {make("delete", NewId, r, Absent, {}) : r \in refs}
<1>1. refs \subseteq CollectionRefs /\ Sets(Owners) \subseteq SUBSET Owners
    BY DEF CollectionRefs, Sets
<1>2. NewId \in Ids /\ Values \subseteq Nat \ {0}
    BY NewIdAssumption, ValuesAssumption
<1>3. q \in adds \cup values \cup owners \cup orgs \cup moves \cup deletes
    BY DEF Request
<1> HIDE DEF refs
<1>4. CASE q \in adds
    BY <1>1, <1>2, <1>4 DEF ReqRecord, ReqOK, Rows, FieldSets
<1>5. CASE q \in values
    BY <1>1, <1>2, <1>5 DEF ReqRecord, ReqOK, Rows, FieldSets, Absent
<1>6. CASE q \in owners
    BY <1>1, <1>2, <1>6 DEF ReqRecord, ReqOK, Rows, FieldSets, Absent
<1>7. CASE q \in orgs
    BY <1>1, <1>2, <1>7 DEF ReqRecord, ReqOK, Rows, FieldSets, Absent
<1>8. CASE q \in moves
    BY <1>1, <1>2, <1>8 DEF ReqRecord, ReqOK, FieldSets
<1>9. CASE q \in deletes
    BY <1>1, <1>2, <1>9 DEF ReqRecord, ReqOK, Rows, FieldSets, Absent
<1> HIDE DEF adds, values, owners, orgs, moves, deletes
<1> QED
    BY <1>3, <1>4, <1>5, <1>6, <1>7, <1>8, <1>9

LEMMA PatchedType ==
    ASSUME NEW row \in Rows, NEW r \in ReqRecord, ReqOK(r)
    PROVE  /\ Patched(row, r) \in Rows
           /\ "value" \in r.fields => Patched(row, r).value = r.row.value
           /\ "value" \notin r.fields => Patched(row, r).value = row.value
           /\ backend \notin Moving => /\ Patched(row, r).owners = row.owners
                                       /\ Patched(row, r).orgs = row.orgs
BY DEF Rows, ReqRecord, ReqOK, Patched

LEMMA NewRowType ==
    ASSUME NEW r \in ReqRecord, r.row \in Rows
    PROVE  /\ NewRow(r) \in Rows
           /\ r.ref.owner # Star => NewRow(r).owners = {r.ref.owner}
BY RefFacts DEF Rows, ReqRecord, NewRow, CollectionRefs

-----------------------------------------------------------------------------
(* Who is told of a change, and what the list makes of it *)

\* What a list shows of a row.
Shown(row, ref) == IF Under(row, ref) THEN row.value ELSE 0

\* What a list holds of a row after it was told of a change of it.
Outcome(held, c, ref) == IF ref \in DOMAIN Told(c) THEN Held(held, Told(c)[ref], c) ELSE held

LEMMA UnderRef ==
    ASSUME NEW row
    PROVE  /\ Under(row, All) <=> There(row)
           /\ \A ref \in OwnerRefs : Under(row, ref) <=> There(row) /\ ref.owner \in row.owners
           /\ \A ref \in DeepRefs : Under(row, ref) <=>
                  There(row) /\ ref.owner \in row.owners /\ ref.org \in row.orgs
BY RefFacts DEF Under

LEMMA ToldRefs ==
    ASSUME NEW c
    PROVE  /\ All \in DOMAIN Told(c) /\ Told(c)[All] = c.type
           /\ \A ref \in OwnerRefs :
                  /\ ref \in DOMAIN Told(c) <=> ref.owner \in DOMAIN Parents(c, "owners")
                  /\ ref \in DOMAIN Told(c) => Told(c)[ref] = Parents(c, "owners")[ref.owner]
           /\ \A ref \in DeepRefs :
                  /\ ref \in DOMAIN Told(c) <=> /\ ref.owner \in DOMAIN Parents(c, "owners")
                                                /\ ref.org \in DOMAIN Parents(c, "orgs")
                  /\ ref \in DOMAIN Told(c) =>
                         Told(c)[ref] = Deeper(Parents(c, "orgs")[ref.org], Parents(c, "owners")[ref.owner])
<1> DEFINE owners == Parents(c, "owners")
           orgs == Parents(c, "orgs")
           refs == {All} \cup {r \in OwnerRefs : r.owner \in DOMAIN owners}
                   \cup {r \in DeepRefs : r.owner \in DOMAIN owners /\ r.org \in DOMAIN orgs}
<1>1. Told(c) = [r \in refs |-> IF r = All THEN c.type
                               ELSE IF r.org = Star THEN owners[r.owner]
                               ELSE Deeper(orgs[r.org], owners[r.owner])]
    BY DEF Told
<1> HIDE DEF owners, orgs
<1>2. DOMAIN Told(c) = refs
    BY <1>1
<1>3. \A ref \in OwnerRefs : ref \notin DeepRefs /\ ref # All
    BY RefFacts
<1>4. \A ref \in DeepRefs : ref \notin OwnerRefs /\ ref # All
    BY RefFacts
<1> QED
    BY <1>1, <1>2, <1>3, <1>4, RefFacts DEF owners, orgs

\* What the datasource reports is complete: the old row of an update and of a delete.
Whole(c) ==
    /\ c.type \in Types
    /\ c.type = "added" => c.old = Absent /\ There(c.new)
    /\ c.type = "removed" => There(c.old) /\ c.new = Absent
    /\ c.type = "modified" => There(c.old)
    /\ c.type = "modified" /\ backend = "postgres" /\ backend \in Scalar =>
           c.old.owners = c.new.owners /\ c.old.orgs = c.new.orgs

LEMMA ParentsOf ==
    ASSUME NEW c, Whole(c), backend \in {"mongo", "postgres"}, NEW field \in {"owners", "orgs"}
    PROVE  /\ DOMAIN Parents(c, field) = c.old[field] \cup c.new[field]
           /\ \A p \in c.old[field] \cup c.new[field] :
                  Parents(c, field)[p] = Change(c.old[field], c.new[field], p)
<1>1. Absent[field] = {}
    BY DEF Absent
<1>2. CASE backend = "mongo"
    BY <1>1, <1>2 DEF Whole, Types, Parents, MongoParents, Change
<1>3. CASE backend = "postgres"
  <2>1. backend \in Scalar /\ c.new[field] # {} => c.new[field] = c.old[field] \cup c.new[field]
    <3>1. CASE c.type = "modified"
        BY <1>3, <3>1 DEF Whole
    <3>2. CASE c.type = "added"
        BY <1>1, <3>2 DEF Whole
    <3>3. CASE c.type = "removed"
        BY <1>1, <3>3 DEF Whole
    <3> QED
        BY <3>1, <3>2, <3>3 DEF Whole, Types
  <2>2. Parents(c, field) = [p \in c.old[field] \cup c.new[field] |->
            IF c.type = "modified" THEN Change(c.old[field], c.new[field], p) ELSE c.type]
      BY <1>3, <2>1 DEF Parents, PostgresParents
  <2> QED
      BY <1>1, <2>2 DEF Whole, Types, Change
<1> QED
    BY <1>2, <1>3

LEMMA DeeperOf ==
    ASSUME backend \in {"mongo", "postgres"}
    PROVE  /\ \A t \in Types : Deeper("modified", t) = t /\ Deeper(t, "modified") = t
           /\ \A t \in Types : Deeper(t, t) = t
BY DEF Deeper, MongoDeeper, PostgresDeeper, Types

\* A row stays on a list, joins it or leaves it.
Joins(c, ref) == ~Under(c.old, ref) /\ Under(c.new, ref)
Leaves(c, ref) == Under(c.old, ref) /\ ~Under(c.new, ref)
Stays(c, ref) == Under(c.old, ref) /\ Under(c.new, ref)

\* What a list below two parents is told says one thing.
OneParentMoved(c) ==
    c.type = "modified" /\ There(c.new) => c.old.owners = c.new.owners \/ c.old.orgs = c.new.orgs

\* What a change makes of a list: what the row has become there, whatever was held;
\* but a row that stays is only renewed, and one that is gone since stays on `posts`.
OutcomeSays(held, c, ref) ==
    /\ Stays(c, ref) => Outcome(held, c, ref) = IF held # 0 /\ "value" \in c.fields THEN c.new.value ELSE held
    /\ Joins(c, ref) => Outcome(held, c, ref) = c.new.value
    /\ Leaves(c, ref) => Outcome(held, c, ref) = IF ref = All /\ c.type = "modified" THEN held ELSE 0
    /\ ~Under(c.old, ref) /\ ~Under(c.new, ref) => Outcome(held, c, ref) = held

LEMMA OutcomeAll ==
    ASSUME NEW c, Whole(c), NEW held
    PROVE  OutcomeSays(held, c, All)
<1>1. Outcome(held, c, All) = Held(held, c.type, c)
    BY ToldRefs DEF Outcome
<1> QED
    BY <1>1, UnderRef, RowFacts DEF OutcomeSays, Whole, Types, Held, Stays, Joins, Leaves

\* What each parent is told of a change.
LEMMA ParentTold ==
    ASSUME NEW c, Whole(c), backend \in {"mongo", "postgres"}, NEW field \in {"owners", "orgs"}, NEW p
    PROVE  /\ p \in DOMAIN Parents(c, field) <=> p \in c.old[field] \/ p \in c.new[field]
           /\ p \in c.old[field] /\ p \in c.new[field] => Parents(c, field)[p] = "modified"
           /\ p \in c.old[field] /\ p \notin c.new[field] => Parents(c, field)[p] = "removed"
           /\ p \notin c.old[field] /\ p \in c.new[field] => Parents(c, field)[p] = "added"
<1>1. /\ DOMAIN Parents(c, field) = c.old[field] \cup c.new[field]
      /\ \A x \in c.old[field] \cup c.new[field] :
             Parents(c, field)[x] = Change(c.old[field], c.new[field], x)
    BY ParentsOf
<1> QED
    BY <1>1 DEF Change

LEMMA RowsOfWhole ==
    ASSUME NEW c, Whole(c), c.old \in RowOrAbsent, c.new \in RowOrAbsent
    PROVE  /\ ~There(c.old) => c.old.owners = {} /\ c.old.orgs = {} /\ c.type = "added"
           /\ ~There(c.new) => c.new.owners = {} /\ c.new.orgs = {} /\ c.type # "added"
           /\ There(c.old) /\ There(c.new) => c.type = "modified"
BY RowFacts DEF Whole, Types

LEMMA OutcomeOwner ==
    ASSUME NEW c, Whole(c), backend \in {"mongo", "postgres"}, NEW held, NEW ref \in OwnerRefs,
           c.old \in RowOrAbsent, c.new \in RowOrAbsent
    PROVE  OutcomeSays(held, c, ref)
<1> DEFINE o == ref.owner
<1>1. /\ Under(c.old, ref) <=> There(c.old) /\ o \in c.old.owners
      /\ Under(c.new, ref) <=> There(c.new) /\ o \in c.new.owners
      /\ ref # All
    BY UnderRef, RefFacts
<1>2. Under(c.old, ref) <=> o \in c.old.owners
    BY <1>1, RowsOfWhole
<1>3. Under(c.new, ref) <=> o \in c.new.owners
    BY <1>1, RowsOfWhole
<1>4. /\ o \in DOMAIN Parents(c, "owners") <=> o \in c.old.owners \/ o \in c.new.owners
      /\ o \in c.old.owners /\ o \in c.new.owners => Parents(c, "owners")[o] = "modified"
      /\ o \in c.old.owners /\ o \notin c.new.owners => Parents(c, "owners")[o] = "removed"
      /\ o \notin c.old.owners /\ o \in c.new.owners => Parents(c, "owners")[o] = "added"
    BY ParentTold
<1>5. /\ ref \in DOMAIN Told(c) <=> o \in DOMAIN Parents(c, "owners")
      /\ ref \in DOMAIN Told(c) => Told(c)[ref] = Parents(c, "owners")[o]
    BY ToldRefs
<1> QED
    BY <1>1, <1>2, <1>3, <1>4, <1>5 DEF OutcomeSays, Outcome, Held, Stays, Joins, Leaves

LEMMA OutcomeDeep ==
    ASSUME NEW c, Whole(c), OneParentMoved(c), backend \in {"mongo", "postgres"}, NEW held, NEW ref \in DeepRefs,
           c.old \in RowOrAbsent, c.new \in RowOrAbsent
    PROVE  OutcomeSays(held, c, ref)
<1> DEFINE o == ref.owner
           g == ref.org
           t == Parents(c, "owners")[o]
           u == Parents(c, "orgs")[g]
<1>1. /\ Under(c.old, ref) <=> There(c.old) /\ o \in c.old.owners /\ g \in c.old.orgs
      /\ Under(c.new, ref) <=> There(c.new) /\ o \in c.new.owners /\ g \in c.new.orgs
      /\ ref # All
    BY UnderRef, RefFacts
<1>2. Under(c.old, ref) <=> o \in c.old.owners /\ g \in c.old.orgs
    BY <1>1, RowsOfWhole
<1>3. Under(c.new, ref) <=> o \in c.new.owners /\ g \in c.new.orgs
    BY <1>1, RowsOfWhole
<1>4. /\ o \in DOMAIN Parents(c, "owners") <=> o \in c.old.owners \/ o \in c.new.owners
      /\ o \in c.old.owners /\ o \in c.new.owners => t = "modified"
      /\ o \in c.old.owners /\ o \notin c.new.owners => t = "removed"
      /\ o \notin c.old.owners /\ o \in c.new.owners => t = "added"
    BY ParentTold
<1>5. /\ g \in DOMAIN Parents(c, "orgs") <=> g \in c.old.orgs \/ g \in c.new.orgs
      /\ g \in c.old.orgs /\ g \in c.new.orgs => u = "modified"
      /\ g \in c.old.orgs /\ g \notin c.new.orgs => u = "removed"
      /\ g \notin c.old.orgs /\ g \in c.new.orgs => u = "added"
    BY ParentTold
<1>6. \/ c.old.owners = {} /\ c.old.orgs = {}
      \/ c.new.owners = {} /\ c.new.orgs = {}
      \/ c.old.owners = c.new.owners \/ c.old.orgs = c.new.orgs
    BY RowsOfWhole DEF OneParentMoved
<1>7. /\ ref \in DOMAIN Told(c) <=> o \in DOMAIN Parents(c, "owners") /\ g \in DOMAIN Parents(c, "orgs")
      /\ ref \in DOMAIN Told(c) => Told(c)[ref] = Deeper(u, t)
    BY ToldRefs
<1>8. /\ Deeper("modified", t) = t \/ t \notin Types
      /\ Deeper(u, "modified") = u \/ u \notin Types
      /\ Deeper("added", "added") = "added" /\ Deeper("removed", "removed") = "removed"
    BY DeeperOf DEF Types
<1> HIDE DEF o, g, t, u
<1>9. CASE Stays(c, ref)
  <2>1. ref \in DOMAIN Told(c) /\ Told(c)[ref] = "modified"
      BY <1>2, <1>3, <1>4, <1>5, <1>7, <1>8, <1>9 DEF Stays, Types
  <2> QED
      BY <1>1, <1>9, <2>1 DEF OutcomeSays, Outcome, Held, Stays, Joins, Leaves
<1>10. CASE Joins(c, ref)
  <2>1. ref \in DOMAIN Told(c) /\ Told(c)[ref] = "added"
      BY <1>2, <1>3, <1>4, <1>5, <1>6, <1>7, <1>8, <1>10 DEF Joins, Types
  <2> QED
      BY <1>1, <1>10, <2>1 DEF OutcomeSays, Outcome, Held, Stays, Joins, Leaves
<1>11. CASE Leaves(c, ref)
  <2>1. ref \in DOMAIN Told(c) /\ Told(c)[ref] = "removed"
      BY <1>2, <1>3, <1>4, <1>5, <1>6, <1>7, <1>8, <1>11 DEF Leaves, Types
  <2> QED
      BY <1>1, <1>11, <2>1 DEF OutcomeSays, Outcome, Held, Stays, Joins, Leaves
<1>12. CASE ~Under(c.old, ref) /\ ~Under(c.new, ref)
  <2>1. ref \notin DOMAIN Told(c)
      BY <1>2, <1>3, <1>4, <1>5, <1>6, <1>7, <1>12
  <2> QED
      BY <1>12, <2>1 DEF OutcomeSays, Outcome, Held, Stays, Joins, Leaves
<1> QED
    BY <1>9, <1>10, <1>11, <1>12 DEF Stays, Joins, Leaves

-----------------------------------------------------------------------------
(* Changes that are still to be read *)

\* A change that mends what a list holds: if the row is not to be shown, it leaves the
\* list; if it is, it joins it, or it stays and a list that holds it gets a value.
Mends(c, ref, held, shown) ==
    IF shown = 0 THEN Leaves(c, ref)
    ELSE Joins(c, ref) \/ (held # 0 /\ Stays(c, ref) /\ "value" \in c.fields)

\* A list that does not hold what is to be shown is mended by a change after the k-th.
Mended(queue, shown, ref, i, held, k) ==
    held # shown => \E l \in DOMAIN queue : l > k /\ queue[l].id = i /\ Mends(queue[l], ref, held, shown)

\* So is what the list holds now, and what any change that is read makes of it.
Kept(queue, shown, ref, i, held) ==
    /\ Mended(queue, shown, ref, i, held, 0)
    /\ \A k \in DOMAIN queue : queue[k].id = i => Mended(queue, shown, ref, i, Shown(queue[k].new, ref), k)

LEMMA ShownType ==
    ASSUME NEW row \in RowOrAbsent, NEW ref
    PROVE  Shown(row, ref) \in Nat /\ (Shown(row, ref) # 0 <=> Under(row, ref))
BY RowFacts DEF Shown, Under, There

LEMMA MendedAppend ==
    ASSUME NEW queue \in Seq(Entry), NEW c \in Entry, EntryOK(c), NEW ref, NEW held, NEW k \in Nat,
           k <= Len(queue), Mended(queue, Shown(c.old, ref), ref, c.id, held, k)
    PROVE  Mended(Append(queue, c), Shown(c.new, ref), ref, c.id, held, k)
<1> DEFINE n == Len(queue) + 1
           more == Append(queue, c)
           was == Shown(c.old, ref)
           is == Shown(c.new, ref)
<1>1. /\ n \in DOMAIN more /\ n > k /\ more[n] = c
      /\ \A l \in DOMAIN queue : l \in DOMAIN more /\ more[l] = queue[l]
    BY AppendProperties
<1>2. /\ was # 0 <=> Under(c.old, ref)
      /\ is # 0 <=> Under(c.new, ref)
    BY ShownType DEF Entry
<1> SUFFICES ASSUME held # is
             PROVE  \E l \in DOMAIN more : l > k /\ more[l].id = c.id /\ Mends(more[l], ref, held, is)
    BY DEF Mended
<1>3. CASE held # was /\ (was = 0 <=> is = 0)
  <2>1. PICK l \in DOMAIN queue : l > k /\ queue[l].id = c.id /\ Mends(queue[l], ref, held, was)
      BY <1>3 DEF Mended
  <2>2. Mends(queue[l], ref, held, is)
      BY <1>3, <2>1 DEF Mends
  <2> QED
      BY <1>1, <2>1, <2>2
<1>4. CASE was = 0 /\ is # 0
  <2>1. Mends(c, ref, held, is)
      BY <1>2, <1>4 DEF Mends, Joins
  <2> QED
      BY <1>1, <2>1
<1>5. CASE was # 0 /\ is = 0
  <2>1. Mends(c, ref, held, is)
      BY <1>2, <1>5 DEF Mends, Leaves
  <2> QED
      BY <1>1, <2>1
<1>6. CASE held = was /\ was # 0 /\ is # 0
  <2>1. Stays(c, ref) /\ c.old.value # c.new.value
      BY <1>2, <1>6 DEF Stays, Shown
  <2>2. There(c.old) /\ There(c.new)
      BY <2>1 DEF Stays, Under
  <2>3. "value" \in c.fields
      BY <2>1, <2>2, RowFacts DEF EntryOK, Entry, Types
  <2>4. Mends(c, ref, held, is)
      BY <1>6, <2>1, <2>3 DEF Mends
  <2> QED
      BY <1>1, <2>4
<1> QED
    BY <1>3, <1>4, <1>5, <1>6

LEMMA KeptAppend ==
    ASSUME NEW queue \in Seq(Entry), NEW c \in Entry, EntryOK(c), NEW ref, NEW held,
           Kept(queue, Shown(c.old, ref), ref, c.id, held)
    PROVE  Kept(Append(queue, c), Shown(c.new, ref), ref, c.id, held)
<1> DEFINE more == Append(queue, c)
<1>1. /\ DOMAIN more = DOMAIN queue \cup {Len(queue) + 1} /\ more[Len(queue) + 1] = c
      /\ \A l \in DOMAIN queue : more[l] = queue[l] /\ l \in Nat /\ l <= Len(queue)
      /\ 0 <= Len(queue) /\ Len(queue) \in Nat
    BY AppendProperties, LenProperties
<1>2. Mended(more, Shown(c.new, ref), ref, c.id, held, 0)
    BY <1>1, MendedAppend DEF Kept
<1>3. \A k \in DOMAIN queue : queue[k].id = c.id =>
          Mended(more, Shown(c.new, ref), ref, c.id, Shown(more[k].new, ref), k)
    BY <1>1, MendedAppend DEF Kept
<1>4. Mended(more, Shown(c.new, ref), ref, c.id, Shown(c.new, ref), Len(queue) + 1)
    BY DEF Mended
<1> HIDE DEF more
<1> QED
    BY <1>1, <1>2, <1>3, <1>4 DEF Kept, more

LEMMA KeptAppendOther ==
    ASSUME NEW queue \in Seq(Entry), NEW c \in Entry, NEW ref, NEW held, NEW i, c.id # i, NEW shown,
           Kept(queue, shown, ref, i, held)
    PROVE  Kept(Append(queue, c), shown, ref, i, held)
<1> DEFINE more == Append(queue, c)
<1>1. /\ DOMAIN more = DOMAIN queue \cup {Len(queue) + 1} /\ more[Len(queue) + 1] = c
      /\ \A l \in DOMAIN queue : more[l] = queue[l]
    BY AppendProperties, LenProperties
<1> HIDE DEF more
<1> QED
    BY <1>1 DEF Kept, Mended

LEMMA KeptNone ==
    ASSUME NEW queue, NEW ref, NEW held, NEW i, NEW shown, Kept(queue, shown, ref, i, held),
           \A k \in DOMAIN queue : queue[k].id # i
    PROVE  held = shown /\ Kept(<<>>, shown, ref, i, held)
BY DEF Kept, Mended

\* The first change is read.
LEMMA KeptTail ==
    ASSUME NEW queue \in Seq(Entry), queue # <<>>, NEW ref, NEW held, NEW next, NEW i, NEW shown,
           Kept(queue, shown, ref, i, held),
           \/ Head(queue).id = i /\ next = Shown(Head(queue).new, ref)
           \/ next = shown
           \/ next = held /\ (Head(queue).id # i \/ held = shown \/ ~Mends(Head(queue), ref, held, shown))
    PROVE  Kept(Tail(queue), shown, ref, i, next)
<1> DEFINE rest == Tail(queue)
<1>1. /\ Head(queue) = queue[1] /\ 1 \in DOMAIN queue
      /\ \A k \in DOMAIN rest : k \in Nat \ {0} /\ k + 1 \in DOMAIN queue /\ rest[k] = queue[k + 1]
      /\ \A l \in DOMAIN queue : l \in Nat \ {0} /\ (l > 1 => l - 1 \in DOMAIN rest /\ rest[l - 1] = queue[l])
    BY HeadTailProperties, LenProperties
<1> HIDE DEF rest
<1>2. ASSUME NEW v, NEW k \in Nat \ {0}, Mended(queue, shown, ref, i, v, k)
      PROVE  Mended(rest, shown, ref, i, v, k - 1)
  <2> SUFFICES ASSUME v # shown
               PROVE  \E l \in DOMAIN rest : l > k - 1 /\ rest[l].id = i /\ Mends(rest[l], ref, v, shown)
      BY DEF Mended
  <2>1. PICK l \in DOMAIN queue : l > k /\ queue[l].id = i /\ Mends(queue[l], ref, v, shown)
      BY <1>2 DEF Mended
  <2>2. l - 1 \in DOMAIN rest /\ rest[l - 1] = queue[l] /\ l - 1 > k - 1
      BY <1>1, <2>1
  <2> QED
      BY <2>1, <2>2
<1>3. \A k \in DOMAIN rest : rest[k].id = i => Mended(rest, shown, ref, i, Shown(rest[k].new, ref), k)
  <2> TAKE k \in DOMAIN rest
  <2> HAVE rest[k].id = i
  <2>1. k + 1 \in DOMAIN queue /\ rest[k] = queue[k + 1] /\ k \in Nat
      BY <1>1
  <2>2. Mended(queue, shown, ref, i, Shown(rest[k].new, ref), k + 1)
      BY <2>1 DEF Kept
  <2>3. Mended(rest, shown, ref, i, Shown(rest[k].new, ref), (k + 1) - 1)
      BY <1>2, <2>1, <2>2
  <2> QED
      BY <2>1, <2>3
<1>4. Mended(rest, shown, ref, i, next, 0)
  <2>1. CASE Head(queue).id = i /\ next = Shown(Head(queue).new, ref)
    <3>1. Mended(queue, shown, ref, i, next, 1)
        BY <1>1, <2>1 DEF Kept
    <3>2. Mended(rest, shown, ref, i, next, 1 - 1)
        BY <1>2, <3>1
    <3> QED
        BY <3>2
  <2>2. CASE next = shown
      BY <2>2 DEF Mended
  <2>3. CASE next = held /\ (Head(queue).id # i \/ ~Mends(Head(queue), ref, held, shown))
    <3>1. Mended(queue, shown, ref, i, next, 1)
        BY <1>1, <2>3 DEF Kept, Mended
    <3>2. Mended(rest, shown, ref, i, next, 1 - 1)
        BY <1>2, <3>1
    <3> QED
        BY <3>2
  <2> QED
      BY <2>1, <2>2, <2>3
<1> QED
    BY <1>3, <1>4 DEF Kept, rest

-----------------------------------------------------------------------------
(* A change is read *)

\* The change with the row that is looked up, if one is, and its pre-image.
LookedUp(c) ==
    [c EXCEPT !.new = IF backend = "mongo" /\ c.type = "modified" THEN db[c.id] ELSE @]

\* The lists that follow: all of them with pre-images, `posts` without; a list below
\* two parents not if the row was read with both changed.
Followed(ref) == backend = "mongo" => images \/ ref = All
Crossed(c) == c.type = "modified" /\ There(c.new) /\ c.old.owners # c.new.owners /\ c.old.orgs # c.new.orgs

\* A route of Postgres with a scalar parent does not move rows.
ScalarsStay == "postgres" \in Scalar => "postgres" \notin Moving

LEMMA LookedUpType ==
    ASSUME ScalarsStay, DataTypeOK, NEW c \in Entry, EntryOK(c)
    PROVE  /\ LookedUp(c) \in Entry /\ Whole(LookedUp(c))
           /\ LookedUp(c).type = c.type /\ LookedUp(c).old = c.old /\ LookedUp(c).fields = c.fields
           /\ LookedUp(c).new = IF backend = "mongo" /\ c.type = "modified" THEN db[c.id] ELSE c.new
<1>1. LookedUp(c) \in Entry
    BY DEF DataTypeOK, LookedUp, Entry
<1>2. /\ LookedUp(c).type = c.type /\ LookedUp(c).old = c.old /\ LookedUp(c).fields = c.fields
      /\ LookedUp(c).new = IF backend = "mongo" /\ c.type = "modified" THEN db[c.id] ELSE c.new
    BY DEF LookedUp, Entry
<1>3. Whole(LookedUp(c))
    BY <1>2 DEF Whole, EntryOK, Entry, ScalarsStay
<1> QED
    BY <1>1, <1>2, <1>3

LEMMA SeenLookedUp ==
    ASSUME DataTypeOK, NEW c \in Entry, backend \in {"mongo", "postgres"}
    PROVE  /\ backend = "mongo" /\ images => Seen(c) = LookedUp(c)
           /\ backend = "postgres" => Seen(c) = LookedUp(c)
           /\ Seen(c).type = c.type /\ Seen(c).id = c.id /\ Seen(c).fields = c.fields
           /\ Seen(c).new = LookedUp(c).new
<1>1. CASE backend = "mongo"
  <2>1. CASE images
      BY <1>1, <2>1 DEF Seen, LookedUp, Entry
  <2>2. CASE ~images
      BY <1>1, <2>2 DEF Seen, LookedUp, Entry
  <2> QED
      BY <1>1, <2>1, <2>2
<1>2. CASE backend = "postgres"
    BY <1>2 DEF Seen, LookedUp, Entry
<1> QED
    BY <1>1, <1>2

LEMMA OutcomeRead ==
    ASSUME ScalarsStay, DataTypeOK, NEW c \in Entry, EntryOK(c), backend \in {"mongo", "postgres"}, NEW ref \in Refs,
           Followed(ref), ref \in DeepRefs => ~Crossed(Seen(c)), NEW held
    PROVE  /\ Outcome(held, Seen(c), ref) = Outcome(held, LookedUp(c), ref)
           /\ OutcomeSays(held, LookedUp(c), ref)
<1> DEFINE e == LookedUp(c)
<1>1. e \in Entry /\ Whole(e) /\ e.old \in RowOrAbsent /\ e.new \in RowOrAbsent /\ e.type = c.type
    BY LookedUpType DEF Entry
<1>2. CASE Seen(c) = e
  <2>1. CASE ref = All
      BY <1>1, <1>2, <2>1, OutcomeAll
  <2>2. CASE ref \in OwnerRefs
      BY <1>1, <1>2, <2>2, OutcomeOwner
  <2>3. CASE ref \in DeepRefs
    <3>1. OneParentMoved(e)
        BY <1>2, <2>3 DEF OneParentMoved, Crossed
    <3> QED
        BY <1>1, <1>2, <2>3, <3>1, OutcomeDeep
  <2> QED
      BY <2>1, <2>2, <2>3 DEF Refs
<1>3. CASE Seen(c) # e
  <2>1. ref = All
      BY <1>3, SeenLookedUp DEF Followed
  <2>2. Outcome(held, Seen(c), All) = Held(held, c.type, Seen(c))
      BY ToldRefs, SeenLookedUp DEF Outcome
  <2>3. Outcome(held, e, All) = Held(held, c.type, e)
      BY <1>1, ToldRefs DEF Outcome
  <2>4. Seen(c).new = e.new /\ Seen(c).fields = e.fields
      BY SeenLookedUp, LookedUpType
  <2>5. Held(held, c.type, Seen(c)) = Held(held, c.type, e)
      BY <2>4 DEF Held
  <2> QED
      BY <1>1, <2>1, <2>2, <2>3, <2>5, OutcomeAll
<1> QED
    BY <1>2, <1>3

\* A list that was told shows the row as the change has it or as it is now; or it
\* holds what it held, and the change was not one to mend it.
LEMMA ReadMends ==
    ASSUME ScalarsStay, DataTypeOK, NEW c \in Entry, EntryOK(c), backend \in {"mongo", "postgres"}, NEW ref \in Refs,
           Followed(ref), ref \in DeepRefs => ~Crossed(Seen(c)), NEW held \in Nat
    PROVE  LET next == Outcome(held, Seen(c), ref)
               shown == Shown(db[c.id], ref)
           IN  \/ next = Shown(c.new, ref)
               \/ next = shown
               \/ next = held /\ (held = shown \/ ~Mends(c, ref, held, shown))
<1> DEFINE e == LookedUp(c)
           next == Outcome(held, e, ref)
           shown == Shown(db[c.id], ref)
<1>1. Outcome(held, Seen(c), ref) = next /\ OutcomeSays(held, e, ref)
    BY OutcomeRead
<1>2. /\ e.type = c.type /\ e.old = c.old /\ e.fields = c.fields
      /\ e.new = IF backend = "mongo" /\ c.type = "modified" THEN db[c.id] ELSE c.new
    BY LookedUpType
<1>3. db[c.id] \in RowOrAbsent /\ c.new \in RowOrAbsent /\ c.old \in RowOrAbsent
    BY DEF DataTypeOK, Entry
<1>4. /\ shown # 0 <=> Under(db[c.id], ref)
      /\ Shown(c.new, ref) # 0 <=> Under(c.new, ref)
    BY <1>3, ShownType
<1>5. /\ Under(e.new, ref) => Shown(e.new, ref) = e.new.value
      /\ ~Under(e.new, ref) => Shown(e.new, ref) = 0
    BY DEF Shown
<1>6. /\ Stays(e, ref) => next = IF held # 0 /\ "value" \in c.fields THEN e.new.value ELSE held
      /\ Joins(e, ref) => next = e.new.value
      /\ Leaves(e, ref) => next = IF ref = All /\ c.type = "modified" THEN held ELSE 0
      /\ ~Under(e.old, ref) /\ ~Under(e.new, ref) => next = held
    BY <1>1, <1>2 DEF OutcomeSays
<1> HIDE DEF next
<1>7. CASE e.new = c.new
  <2>1. CASE Stays(c, ref)
      BY <1>1, <1>2, <1>4, <1>5, <1>6, <1>7, <2>1 DEF Stays, Joins, Leaves, Mends
  <2>2. CASE Joins(c, ref)
      BY <1>1, <1>2, <1>4, <1>5, <1>6, <1>7, <2>2 DEF Joins
  <2>3. CASE Leaves(c, ref)
    <3>1. ~(ref = All /\ c.type = "modified")
        BY <2>3, UnderRef DEF EntryOK, Leaves
    <3> QED
        BY <1>1, <1>2, <1>4, <1>5, <1>6, <1>7, <2>3, <3>1 DEF Leaves
  <2>4. CASE ~Under(c.old, ref) /\ ~Under(c.new, ref)
      BY <1>1, <1>2, <1>6, <1>7, <2>4 DEF Stays, Joins, Leaves, Mends
  <2> QED
      BY <2>1, <2>2, <2>3, <2>4 DEF Stays, Joins, Leaves
<1>8. CASE e.new = db[c.id] /\ c.type = "modified"
  <2>1. CASE Stays(e, ref)
      BY <1>1, <1>2, <1>4, <1>5, <1>6, <1>8, <2>1 DEF Stays, Joins, Mends
  <2>2. CASE Joins(e, ref)
      BY <1>1, <1>2, <1>4, <1>5, <1>6, <1>8, <2>2 DEF Joins
  <2>3. CASE Leaves(e, ref)
    <3>1. CASE ref = All
      <4>1. ~Leaves(c, ref)
          BY <1>8, <3>1, UnderRef DEF EntryOK, Leaves
      <4> QED
          BY <1>1, <1>4, <1>6, <1>8, <2>3, <3>1, <4>1 DEF Leaves, Mends
    <3>2. CASE ref # All
        BY <1>1, <1>4, <1>6, <1>8, <2>3, <3>2 DEF Leaves
    <3> QED
        BY <3>1, <3>2
  <2>4. CASE ~Under(e.old, ref) /\ ~Under(e.new, ref)
      BY <1>1, <1>2, <1>4, <1>6, <1>8, <2>4 DEF Leaves, Mends
  <2> QED
      BY <2>1, <2>2, <2>3, <2>4 DEF Stays, Joins, Leaves
<1> QED
    BY <1>2, <1>7, <1>8

-----------------------------------------------------------------------------
(* A request is handled *)

Reported(r, i, type, new) ==
    [id |-> i, type |-> type, fields |-> r.fields, old |-> db[i], new |-> new]

\* A request that changes a row reports what it was and what it is.
LEMMA HandleChanges ==
    ASSUME DataTypeOK, NEW w \in Writers, NEW r \in ReqRecord, ReqOK(r), Handle(w, r)
    PROVE  \/ Refused /\ UNCHANGED born
           \/ \E i \in Ids, type \in Types, new \in RowOrAbsent :
                  /\ Commit(r, i, type, new)
                  /\ Reported(r, i, type, new) \in Entry /\ EntryOK(Reported(r, i, type, new))
                  /\ \/ UNCHANGED born
                     \/ born' = born \cup {i} /\ (backend \in Taking => i = NewId)
<1>1. CASE Post(w, r)
  <2>1. r.row \in Rows /\ r.op = "add"
      BY <1>1 DEF Post, ReqOK
  <2>2. PICK i \in NewIds(r) :
            IF There(db[i]) THEN Refused /\ UNCHANGED born /\ Reply(w, r, FALSE)
            ELSE /\ Commit(r, i, "added", NewRow(r))
                 /\ born' = born \cup {i}
                 /\ Reply(w, [r EXCEPT !.id = i, !.row = NewRow(r)], TRUE)
      BY <1>1 DEF Post
  <2>3. i \in Ids /\ (backend \in Taking => i = NewId)
      BY <2>1, <2>2 DEF NewIds, ReqRecord, ReqOK
  <2>4. NewRow(r) \in Rows /\ There(NewRow(r)) /\ NewRow(r) \in RowOrAbsent
      BY <2>1, NewRowType, RowFacts DEF RowOrAbsent
  <2>5. CASE There(db[i])
      BY <2>2, <2>5
  <2>6. CASE ~There(db[i])
    <3>1. db[i] = Absent /\ db[i] \in RowOrAbsent
        BY <2>3, <2>6, RowFacts DEF DataTypeOK
    <3>2. /\ Reported(r, i, "added", NewRow(r)) \in Entry
          /\ EntryOK(Reported(r, i, "added", NewRow(r)))
        BY <2>3, <2>4, <3>1 DEF Reported, Entry, EntryOK, Types, ReqRecord
    <3> QED
        BY <2>2, <2>3, <2>4, <2>6, <3>2 DEF Types
  <2> QED
      BY <2>5, <2>6
<1>2. CASE Patch(w, r)
  <2>1. CASE Matches(r)
    <3>1. r.id \in Ids /\ db[r.id] \in Rows /\ db[r.id] \in RowOrAbsent
        BY <2>1, RowFacts DEF Matches, Under, ReqRecord, DataTypeOK
    <3>2. Patched(db[r.id], r) \in Rows /\ Patched(db[r.id], r) \in RowOrAbsent
        BY <3>1, PatchedType DEF RowOrAbsent
    <3>3. /\ "value" \in r.fields \/ db[r.id].value = Patched(db[r.id], r).value
          /\ backend \notin Moving => /\ db[r.id].owners = Patched(db[r.id], r).owners
                                      /\ db[r.id].orgs = Patched(db[r.id], r).orgs
        BY <3>1, PatchedType
    <3>4. There(db[r.id]) /\ There(Patched(db[r.id], r))
        BY <3>1, <3>2, RowFacts
    <3>5. /\ Reported(r, r.id, "modified", Patched(db[r.id], r)) \in Entry
          /\ EntryOK(Reported(r, r.id, "modified", Patched(db[r.id], r)))
        BY <3>1, <3>2, <3>3, <3>4 DEF Reported, Entry, EntryOK, Types, ReqRecord
    <3> QED
        BY <1>2, <2>1, <3>1, <3>2, <3>5 DEF Patch, Types
  <2>2. CASE ~Matches(r)
      BY <1>2, <2>2 DEF Patch
  <2> QED
      BY <2>1, <2>2
<1>3. CASE Delete(w, r)
  <2>1. CASE Matches(r)
    <3>1. r.id \in Ids /\ There(db[r.id]) /\ db[r.id] \in RowOrAbsent
        BY <2>1 DEF Matches, Under, ReqRecord, DataTypeOK
    <3>2. Absent \in RowOrAbsent
        BY RowFacts
    <3>3. /\ Reported(r, r.id, "removed", Absent) \in Entry
          /\ EntryOK(Reported(r, r.id, "removed", Absent))
        BY <3>1, <3>2 DEF Reported, Entry, EntryOK, Types, ReqRecord
    <3> QED
        BY <1>3, <2>1, <3>1, <3>2, <3>3 DEF Delete, Types
  <2>2. CASE ~Matches(r)
      BY <1>3, <2>2 DEF Delete
  <2> QED
      BY <2>1, <2>2
<1> QED
    BY <1>1, <1>2, <1>3 DEF Handle

\* The answer, or what D1 has to publish first.
LEMMA HandleReplies ==
    ASSUME DataTypeOK, NEW w \in Writers, NEW r \in ReqRecord, ReqOK(r), Handle(w, r), UNCHANGED backend
    PROVE  /\ reqs' \in [Writers -> ReqRecord]
           /\ \A x \in Writers : ReqOK(reqs[x])' /\ (reqs'[x].stage = "written" => backend' = "d1")
<1>1. PICK q \in ReqRecord, published \in BOOLEAN : ReqOK(q) /\ q.op # "none" /\ Reply(w, q, published)
  <2>1. CASE Post(w, r)
    <3>1. r.row \in Rows /\ r.op = "add"
        BY <2>1 DEF Post, ReqOK
    <3>2. PICK i \in NewIds(r) :
              IF There(db[i]) THEN Refused /\ UNCHANGED born /\ Reply(w, r, FALSE)
              ELSE /\ Commit(r, i, "added", NewRow(r))
                   /\ born' = born \cup {i}
                   /\ Reply(w, [r EXCEPT !.id = i, !.row = NewRow(r)], TRUE)
        BY <2>1 DEF Post
    <3>3. i \in Ids /\ (backend \in Taking => i = NewId)
        BY <3>1, <3>2 DEF NewIds, ReqRecord, ReqOK
    <3>4. NewRow(r) \in Rows /\ NewRow(r) \in [owners : SUBSET Owners, orgs : SUBSET Orgs, value : Values \cup {0}]
        BY <3>1, NewRowType DEF Rows
    <3>5. /\ [r EXCEPT !.id = i, !.row = NewRow(r)] \in ReqRecord
          /\ ReqOK([r EXCEPT !.id = i, !.row = NewRow(r)])
          /\ [r EXCEPT !.id = i, !.row = NewRow(r)].op # "none"
        BY <3>1, <3>3, <3>4 DEF ReqRecord, ReqOK, Rows
    <3> QED
        BY <3>1, <3>2, <3>5
  <2>2. CASE Patch(w, r)
      BY <2>2 DEF Patch
  <2>3. CASE Delete(w, r)
      BY <2>3 DEF Delete
  <2> QED
      BY <2>1, <2>2, <2>3 DEF Handle
<1>2. /\ Replied(q) \in ReqRecord /\ ReqOK(Replied(q)) /\ Replied(q).stage # "written"
      /\ [q EXCEPT !.stage = "written"] \in ReqRecord /\ ReqOK([q EXCEPT !.stage = "written"])
  <2>1. Idle \in ReqRecord /\ ReqOK(Idle) /\ Idle.stage # "written"
      BY NewIdAssumption DEF Idle, ReqRecord, ReqOK, Absent, FieldSets, CollectionRefs
  <2>2. /\ [q EXCEPT !.stage = "done"] \in ReqRecord /\ ReqOK([q EXCEPT !.stage = "done"])
        /\ [q EXCEPT !.stage = "done"].stage # "written"
      BY <1>1 DEF ReqRecord, ReqOK
  <2>3. [q EXCEPT !.stage = "written"] \in ReqRecord /\ ReqOK([q EXCEPT !.stage = "written"])
      BY <1>1 DEF ReqRecord, ReqOK
  <2> QED
      BY <2>1, <2>2, <2>3 DEF Replied
<1>3. PICK n \in ReqRecord : /\ reqs' = [reqs EXCEPT ![w] = n] /\ ReqOK(n)
                             /\ n.stage = "written" => backend = "d1"
    BY <1>1, <1>2 DEF Reply
<1>4. \A x \in Writers : ReqOK(reqs'[x]) /\ (reqs'[x].stage = "written" => backend = "d1")
    BY <1>3 DEF DataTypeOK
<1> QED
    BY <1>3, <1>4 DEF DataTypeOK, ReqOK

-----------------------------------------------------------------------------
(* The types are invariant *)

LEMMA TellType ==
    ASSUME lists \in [Refs -> [Ids -> Nat]], NEW c, c.new.value \in Nat, c.id \in Ids, NEW told, Tell(c, told),
           \A ref \in DOMAIN told : told[ref] \in Types
    PROVE  lists' \in [Refs -> [Ids -> Nat]]
<1>1. \A held \in Nat, t \in Types : Held(held, t, c) \in Nat
    BY DEF Held, Types
<1>2. \A r \in Refs : r \in DOMAIN told => [lists[r] EXCEPT ![c.id] = Held(@, told[r], c)] \in [Ids -> Nat]
    BY <1>1
<1> QED
    BY <1>2 DEF Tell

LEMMA CommitType ==
    ASSUME DataTypeOK, UNCHANGED <<backend, images, lists>>, NEW r \in ReqRecord, NEW i \in Ids,
           NEW type \in Types, NEW new \in RowOrAbsent, Commit(r, i, type, new),
           Reported(r, i, type, new) \in Entry, EntryOK(Reported(r, i, type, new))
    PROVE  /\ db' \in [Ids -> RowOrAbsent] /\ through' \in [Ids -> SUBSET CollectionRefs]
           /\ log' \in Seq(Entry) /\ \A k \in DOMAIN log' : EntryOK(log'[k])
<1> DEFINE c == Reported(r, i, type, new)
<1>1. db' = [db EXCEPT ![i] = new] /\ db' \in [Ids -> RowOrAbsent]
    BY DEF Commit, DataTypeOK
<1>2. through' \in [Ids -> SUBSET CollectionRefs]
    BY DEF Commit, DataTypeOK, ReqRecord
<1>3. log' = log \/ log' = Append(log, c)
    BY DEF Commit, Report, Reported
<1>4. CASE log' = log
    BY <1>1, <1>2, <1>4 DEF DataTypeOK
<1>5. CASE log' = Append(log, c)
  <2> HIDE DEF c
  <2>1. c \in Entry /\ EntryOK(c)
      BY DEF c
  <2>2. /\ DOMAIN log' = DOMAIN log \cup {Len(log) + 1} /\ log'[Len(log) + 1] = c
        /\ \A l \in DOMAIN log : log'[l] = log[l]
        /\ log' \in Seq(Entry)
      BY <1>5, <2>1, AppendProperties, LenProperties DEF DataTypeOK
  <2> QED
      BY <1>1, <1>2, <2>1, <2>2 DEF DataTypeOK
<1> QED
    BY <1>3, <1>4, <1>5

LEMMA HandleType ==
    ASSUME DataTypeOK, UNCHANGED <<backend, images, lists>>, NEW w \in Writers, NEW r \in ReqRecord, ReqOK(r),
           Handle(w, r)
    PROVE  DataTypeOK'
<1>1. /\ db' \in [Ids -> RowOrAbsent] /\ through' \in [Ids -> SUBSET CollectionRefs]
      /\ log' \in Seq(Entry) /\ \A k \in DOMAIN log' : EntryOK(log'[k])
  <2>1. CASE Refused
      BY <2>1 DEF Refused, DataTypeOK
  <2>2. CASE \E i \in Ids, type \in Types, new \in RowOrAbsent :
                 /\ Commit(r, i, type, new)
                 /\ Reported(r, i, type, new) \in Entry /\ EntryOK(Reported(r, i, type, new))
      BY <2>2, CommitType
  <2> QED
      BY <2>1, <2>2, HandleChanges
<1>2. /\ reqs' \in [Writers -> ReqRecord]
      /\ \A x \in Writers : ReqOK(reqs[x])' /\ (reqs'[x].stage = "written" => backend' = "d1")
    BY HandleReplies
<1>3. \A k \in DOMAIN log' : EntryOK(log[k])'
    BY <1>1 DEF EntryOK
<1> QED
    BY <1>1, <1>2, <1>3 DEF DataTypeOK

\* A writer goes on with its request.
LEMMA StageType ==
    ASSUME DataTypeOK, UNCHANGED <<backend, images, db, log, through>>, lists' \in [Refs -> [Ids -> Nat]],
           NEW w \in Writers, NEW n \in ReqRecord, reqs' = [reqs EXCEPT ![w] = n], ReqOK(n), n.stage # "written"
    PROVE  DataTypeOK'
<1>1. \A x \in Writers : ReqOK(reqs'[x]) /\ (reqs'[x].stage = "written" => backend = "d1")
    BY DEF DataTypeOK
<1>2. \A k \in DOMAIN log : EntryOK(log[k])'
    BY DEF DataTypeOK, EntryOK
<1> QED
    BY <1>1, <1>2 DEF DataTypeOK, ReqOK

LEMMA IdleType == Idle \in ReqRecord /\ ReqOK(Idle) /\ Idle.stage # "written"
BY NewIdAssumption DEF Idle, ReqRecord, ReqOK, Absent, FieldSets, CollectionRefs

LEMMA StagedType ==
    ASSUME NEW r \in ReqRecord, ReqOK(r), NEW stage \in {"done", "lost"}, stage = "lost" => r.op = "add"
    PROVE  /\ [r EXCEPT !.stage = stage] \in ReqRecord /\ ReqOK([r EXCEPT !.stage = stage])
           /\ [r EXCEPT !.stage = stage].stage = stage
BY DEF ReqRecord, ReqOK

LEMMA PublishType ==
    ASSUME DataTypeOK, NEW w \in Writers, Publish(w)
    PROVE  DataTypeOK'
<1> DEFINE r == reqs[w]
           type == CASE r.op = "add" -> "added" [] r.op = "patch" -> "modified" [] r.op = "delete" -> "removed"
           c == [id |-> r.id, new |-> r.row, fields |-> r.fields]
<1>1. r \in ReqRecord /\ ReqOK(r) /\ r.row.value \in Nat /\ r.id \in Ids
  <2>1. r \in ReqRecord /\ ReqOK(r)
      BY DEF DataTypeOK
  <2> HIDE DEF r
  <2>2. r.row.value \in Values \cup {0} /\ r.id \in Ids
      BY <2>1 DEF ReqRecord
  <2>3. Values \cup {0} \subseteq Nat
      BY ValuesAssumption
  <2>4. r.row.value \in Nat
      BY <2>2, <2>3
  <2> QED
      BY <2>1, <2>2, <2>4
<1>2. Tell(c, [ref \in {r.ref} |-> type]) /\ reqs' = [reqs EXCEPT ![w] = Replied(r)]
    BY DEF Publish
<1>3. lists' \in [Refs -> [Ids -> Nat]]
  <2>1. r.op \in {"add", "patch", "delete"}
      BY <1>1 DEF ReqRecord, ReqOK, Publish
  <2>2. type \in Types
      BY <2>1 DEF Types
  <2>3. \A x \in DOMAIN [ref \in {r.ref} |-> type] : [ref \in {r.ref} |-> type][x] \in Types
      BY <2>2
  <2> QED
    <3> HIDE DEF type
    <3> QED
        BY <1>1, <1>2, <2>3, TellType DEF DataTypeOK
<1>4. Replied(r) \in ReqRecord /\ ReqOK(Replied(r)) /\ Replied(r).stage # "written"
    BY <1>1, IdleType, StagedType DEF Replied
<1> QED
    BY <1>2, <1>3, <1>4, StageType DEF Publish

LEMMA ToldTypes ==
    ASSUME NEW c, c.type \in Types, backend \in Backends
    PROVE  \A ref \in DOMAIN Told(c) : Told(c)[ref] \in Types
<1>1. \A field \in {"owners", "orgs"} : \A p \in DOMAIN Parents(c, field) : Parents(c, field)[p] \in Types
  <2> SUFFICES ASSUME NEW field \in {"owners", "orgs"}, NEW p \in DOMAIN Parents(c, field)
               PROVE  Parents(c, field)[p] \in Types
      OBVIOUS
  <2>1. Change(c.old[field], c.new[field], p) \in Types
      BY DEF Change, Types
  <2>2. CASE backend = "mongo"
      BY <2>1, <2>2 DEF Parents, MongoParents, Types
  <2>3. CASE backend # "mongo"
      BY <2>1, <2>3 DEF Parents, PostgresParents
  <2> QED
      BY <2>2, <2>3
<1>2. \A t, u \in Types : Deeper(t, u) \in Types
    BY DEF Deeper, MongoDeeper, PostgresDeeper
<1>3. \A ref \in DOMAIN Told(c) : ref \in Refs
    BY DEF Told, Refs
<1> QED
    BY <1>1, <1>2, <1>3, ToldRefs DEF Refs

LEMMA FirstEntry ==
    ASSUME DataTypeOK, log # <<>>
    PROVE  /\ Head(log) \in Entry /\ EntryOK(Head(log)) /\ Tail(log) \in Seq(Entry)
           /\ \A k \in DOMAIN Tail(log) : EntryOK(Tail(log)[k])
<1>1. log \in Seq(Entry) /\ \A k \in DOMAIN log : EntryOK(log[k])
    BY DEF DataTypeOK
<1>2. 1 \in DOMAIN log /\ Head(log) = log[1] /\ Tail(log) \in Seq(Entry)
    BY <1>1, HeadTailProperties, LenProperties
<1>3. \A k \in DOMAIN Tail(log) : k + 1 \in DOMAIN log /\ Tail(log)[k] = log[k + 1]
    BY <1>1, HeadTailProperties, LenProperties
<1> QED
    BY <1>1, <1>2, <1>3

LEMMA ReadType ==
    ASSUME DataTypeOK, ReadChange
    PROVE  DataTypeOK'
<1> DEFINE c == Head(log)
<1>1. /\ c \in Entry /\ EntryOK(c) /\ Tail(log) \in Seq(Entry)
      /\ \A k \in DOMAIN Tail(log) : EntryOK(Tail(log)[k])
    BY FirstEntry DEF ReadChange
<1>2. Tell(Seen(c), Told(Seen(c))) /\ log' = Tail(log) /\ UNCHANGED <<backend, images, dataVars>>
    BY DEF ReadChange
<1> HIDE DEF c
<1>3. Seen(c).new \in RowOrAbsent /\ Seen(c).id \in Ids /\ Seen(c).type \in Types
  <2>1. CASE backend = "mongo"
      BY <1>1, <2>1 DEF Seen, Entry, DataTypeOK
  <2>2. CASE backend # "mongo"
      BY <1>1, <2>2 DEF Seen, Entry
  <2> QED
      BY <2>1, <2>2
<1>4. Seen(c).new.value \in Nat
    BY <1>3, RowFacts
<1>5. lists' \in [Refs -> [Ids -> Nat]]
    BY <1>2, <1>3, <1>4, ToldTypes, TellType DEF DataTypeOK
<1>6. \A k \in DOMAIN log' : EntryOK(log[k])'
    BY <1>1, <1>2 DEF EntryOK
<1> QED
    BY <1>1, <1>2, <1>5, <1>6 DEF DataTypeOK, ReqOK

\* A step that leaves the rows, the requests and the lists alone.
LEMMA LinkType ==
    ASSUME DataTypeOK, UNCHANGED <<backend, images, db, reqs, through, lists>>, log' = log \/ log' = <<>>
    PROVE  DataTypeOK'
<1>1. log' \in Seq(Entry) /\ \A k \in DOMAIN log' : EntryOK(log'[k])
  <2>1. CASE log' = log
      BY <2>1 DEF DataTypeOK
  <2>2. CASE log' = <<>>
    <3>1. <<>> \in Seq(Entry) /\ DOMAIN <<>> = {}
        OBVIOUS
    <3> QED
        BY <2>2, <3>1
  <2> QED
      BY <2>1, <2>2
<1>2. \A k \in DOMAIN log' : EntryOK(log[k])'
    BY <1>1 DEF EntryOK
<1> QED
    BY <1>1, <1>2 DEF DataTypeOK, ReqOK

LEMMA RequestIsHandled ==
    ASSUME DataTypeOK, NEW w \in Writers, Write(w) \/ Retry(w)
    PROVE  \E r \in ReqRecord : /\ ReqOK(r) /\ Handle(w, r)
                                /\ UNCHANGED <<backend, images, lists, crossed, linkVars>>
<1>1. CASE Write(w)
    BY <1>1, RequestType DEF Write, DataTypeOK
<1>2. CASE Retry(w)
    BY <1>2 DEF Retry, DataTypeOK
<1> QED
    BY <1>1, <1>2

LEMMA TypeInit ==
    ASSUME ChangefeedInit
    PROVE  DataTypeOK
<1>1. PICK row \in Starts \cup {Absent} : db = [i \in Ids |-> IF i = NewId THEN row ELSE Absent]
    BY DEF ChangefeedInit
<1>2. row \in RowOrAbsent /\ Absent \in RowOrAbsent
    BY StartsAssumption, RowFacts DEF RowOrAbsent, Rows
<1>3. db \in [Ids -> RowOrAbsent]
    BY <1>1, <1>2
<1>4. \A r \in Refs, i \in Ids : Truth(db, r, i) \in Nat
  <2>1. \A i \in Ids : db[i].value \in Nat
      BY <1>3, RowFacts
  <2> QED
      BY <2>1 DEF Truth
<1>5. lists \in [Refs -> [Ids -> Nat]]
    BY <1>4 DEF ChangefeedInit
<1>6. backend \in Backends /\ images \in BOOLEAN
    BY FlagsAssumption DEF ChangefeedInit
<1>7. log \in Seq(Entry) /\ \A k \in DOMAIN log : EntryOK(log[k])
    BY DEF ChangefeedInit
<1> QED
    BY <1>3, <1>5, <1>6, <1>7, IdleType DEF ChangefeedInit, DataTypeOK

LEMMA TypeNext ==
    ASSUME DataTypeOK, [ChangefeedNext]_vars
    PROVE  DataTypeOK'
<1>1. ASSUME NEW w \in Writers, Write(w) \/ Retry(w) PROVE DataTypeOK'
    BY <1>1, RequestIsHandled, HandleType
<1>2. ASSUME NEW w \in Writers, Publish(w) PROVE DataTypeOK'
    BY <1>2, PublishType
<1>3. ASSUME NEW w \in Writers, Answer(w) PROVE DataTypeOK'
    BY <1>3, IdleType, StageType DEF Answer, DataTypeOK
<1>4. ASSUME NEW w \in Writers, Lose(w) PROVE DataTypeOK'
  <2>1. reqs[w] \in ReqRecord /\ ReqOK(reqs[w]) /\ reqs[w].op = "add"
      BY <1>4 DEF Lose, DataTypeOK
  <2>2. reqs' = [reqs EXCEPT ![w] = [reqs[w] EXCEPT !.stage = "lost"]]
      BY <1>4 DEF Lose
  <2>3. /\ [reqs[w] EXCEPT !.stage = "lost"] \in ReqRecord /\ ReqOK([reqs[w] EXCEPT !.stage = "lost"])
        /\ [reqs[w] EXCEPT !.stage = "lost"].stage = "lost"
      BY <2>1, StagedType
  <2> QED
      BY <1>4, <2>2, <2>3, StageType DEF Lose, DataTypeOK
<1>5. ASSUME NEW i \in DOMAIN conns, Connect(i) PROVE DataTypeOK'
    BY <1>5, LinkType DEF Connect
<1>6. CASE Drop
    BY <1>6, LinkType DEF Drop
<1>7. CASE Resubscribe
    BY <1>7, LinkType DEF Resubscribe
<1>8. CASE Unsubscribe
    BY <1>8, LinkType DEF Unsubscribe
<1>9. CASE ReadChange
    BY <1>9, ReadType
<1>10. CASE UNCHANGED vars
    BY <1>10, LinkType DEF vars
<1> QED
    BY <1>1, <1>2, <1>3, <1>4, <1>5, <1>6, <1>7, <1>8, <1>9, <1>10 DEF ChangefeedNext

-----------------------------------------------------------------------------
(* One row per add *)

\* What the retried add makes, it makes under the client's id.
BornIInv == DataTypeOK /\ (backend \in Taking => born \subseteq {NewId})

LEMMA BornNext ==
    ASSUME BornIInv, [ChangefeedNext]_vars
    PROVE  BornIInv'
<1>1. DataTypeOK /\ DataTypeOK'
    BY TypeNext DEF BornIInv
<1>2. ASSUME NEW w \in Writers, Write(w) \/ Retry(w)
      PROVE  backend' \in Taking => born' \subseteq {NewId}
  <2>1. PICK r \in ReqRecord : ReqOK(r) /\ Handle(w, r) /\ UNCHANGED backend
      BY <1>1, <1>2, RequestIsHandled
  <2>2. UNCHANGED born \/ \E i \in Ids : born' = born \cup {i} /\ (backend \in Taking => i = NewId)
      BY <1>1, <2>1, HandleChanges
  <2> QED
      BY <2>1, <2>2 DEF BornIInv
<1>3. UNCHANGED <<backend, born>> \/ \E w \in Writers : Write(w) \/ Retry(w)
    BY DEF ChangefeedNext, vars, Publish, Answer, Lose, Connect, Drop, Resubscribe, Unsubscribe, ReadChange
<1> QED
    BY <1>1, <1>2, <1>3 DEF BornIInv

\* In every state of any number of writers, whatever was lost and retried, the rows
\* the retried add made are of the client's id.
THEOREM BornInvariance == ChangefeedSpec => []BornIInv
<1>1. ChangefeedInit => BornIInv
    BY TypeInit DEF BornIInv, ChangefeedInit
<1> QED
    BY <1>1, BornNext, PTL DEF ChangefeedSpec

\* "A retried add cannot create a second document" (withVersion.ts, writeResult.ts):
\* where the datasource takes the client's id, one add makes one row at most, however
\* often its answer is lost and it is asked again.
THEOREM RetriesMakeOneRow == ChangefeedSpec => []OneRowPerAdd
<1>1. BornIInv => OneRowPerAdd
  <2> SUFFICES ASSUME BornIInv, backend \in Taking
               PROVE  Cardinality(born) <= 1
      BY DEF OneRowPerAdd
  <2>1. born = {} \/ born = {NewId}
      BY DEF BornIInv
  <2>2. Cardinality({}) = 0 /\ Cardinality({NewId}) = 1
      BY FS_EmptySet, FS_Singleton
  <2> QED
      BY <2>1, <2>2
<1> QED
    BY <1>1, BornInvariance, PTL

-----------------------------------------------------------------------------
(* One connection at a time *)

Connections == 1..(MaxDrops + 1)

ListenIInv ==
    /\ conns \in [Connections -> {"none", "asked", "open", "ended"}]
    /\ current \in {0} \cup Connections /\ watching \in BOOLEAN
    /\ attempts \in Nat /\ fails \in Nat
    /\ OneListener
    /\ backend = "mongo" => attempts = fails

LEMMA ListenNext ==
    ASSUME ListenIInv, [ChangefeedNext]_vars
    PROVE  ListenIInv'
<1>1. 0 \notin Connections /\ DOMAIN conns = Connections
    BY DEF Connections, ListenIInv
<1>2. ASSUME NEW i \in DOMAIN conns, Connect(i) PROVE ListenIInv'
    BY <1>1, <1>2 DEF ListenIInv, OneListener, Connect, Connected
<1>3. CASE Drop
    BY <1>1, <1>3 DEF ListenIInv, OneListener, Drop
<1>4. CASE Resubscribe
    BY <1>1, <1>4 DEF ListenIInv, OneListener, Resubscribe
<1>5. CASE Unsubscribe
    BY <1>1, <1>5 DEF ListenIInv, OneListener, Unsubscribe, Open
<1>6. CASE ReadChange
    BY <1>6 DEF ListenIInv, OneListener, ReadChange, AfterDelivery
<1>7. CASE UNCHANGED <<backend, linkVars>>
    BY <1>7 DEF ListenIInv, OneListener
<1>8. ASSUME NEW w \in Writers, Write(w) \/ Publish(w) \/ Answer(w) \/ Lose(w) \/ Retry(w)
      PROVE  UNCHANGED <<backend, linkVars>>
    BY <1>8 DEF Write, Publish, Answer, Lose, Retry
<1> QED
    BY <1>2, <1>3, <1>4, <1>5, <1>6, <1>7, <1>8 DEF ChangefeedNext, vars

LEMMA ListenInit ==
    ASSUME ChangefeedInit
    PROVE  ListenIInv
<1>1. 1 \in Connections /\ 0 \notin Connections
    BY ChangefeedBounds DEF Connections
<1> QED
    BY <1>1 DEF ChangefeedInit, ListenIInv, OneListener, Connections

\* `disposed`, and the delay that "grows exponentially per consecutive failure": no
\* connection delivers beside another or after the end of the subscription, and where
\* retry is told to reset on success a delivery starts the backoff over, in every
\* state, however the connections are asked for, come late, fail and are given up.
THEOREM OneListenerAtATime ==
    ASSUME Backing \subseteq {"mongo"}
    PROVE  ChangefeedSpec => [](OneListener /\ BackoffStartsOver)
<1>1. ListenIInv => OneListener /\ BackoffStartsOver
    BY DEF ListenIInv, BackoffStartsOver
<1> QED
    BY <1>1, ListenInit, ListenNext, PTL DEF ChangefeedSpec

-----------------------------------------------------------------------------
(* Lists that follow a change stream or a NOTIFY channel *)

Claimed(ref, i) == i \notin lost /\ Followed(ref) /\ (ref \in DeepRefs => i \notin crossed)

FollowIInv ==
    backend # "d1" => \A ref \in Refs, i \in Ids :
        Claimed(ref, i) => Kept(log, Shown(db[i], ref), ref, i, lists[ref][i])

LEMMA FollowRequest ==
    ASSUME DataTypeOK, FollowIInv, NEW w \in Writers, Write(w) \/ Retry(w)
    PROVE  FollowIInv'
<1>1. PICK r \in ReqRecord : /\ ReqOK(r) /\ Handle(w, r)
                             /\ UNCHANGED <<backend, images, lists, crossed>>
    BY RequestIsHandled
<1>2. CASE Refused
    BY <1>1, <1>2 DEF Refused, FollowIInv, Claimed, Followed
<1>3. CASE backend # "d1" /\ \E j \in Ids, type \in Types, new \in RowOrAbsent :
               /\ Commit(r, j, type, new)
               /\ Reported(r, j, type, new) \in Entry /\ EntryOK(Reported(r, j, type, new))
  <2>1. PICK j \in Ids, type \in Types, new \in RowOrAbsent :
            /\ Commit(r, j, type, new)
            /\ Reported(r, j, type, new) \in Entry /\ EntryOK(Reported(r, j, type, new))
      BY <1>3
  <2> DEFINE c == Reported(r, j, type, new)
  <2>2. /\ db' = [db EXCEPT ![j] = new]
        /\ \/ log' = Append(log, c) /\ lost' = lost
           \/ log' = log /\ lost' = lost \cup {j}
      BY <1>3, <2>1 DEF Commit, Report, Reported
  <2>3. c \in Entry /\ EntryOK(c) /\ c.id = j /\ c.old = db[j] /\ c.new = new
      BY <2>1 DEF Reported
  <2>4. db'[j] = new /\ \A i \in Ids : i # j => db'[i] = db[i]
      BY <2>2 DEF DataTypeOK
  <2> HIDE DEF c
  <2>5. ASSUME NEW ref \in Refs, NEW i \in Ids, Claimed(ref, i)'
        PROVE  Kept(log', Shown(db'[i], ref), ref, i, lists'[ref][i])
    <3>1. Claimed(ref, i) /\ Kept(log, Shown(db[i], ref), ref, i, lists[ref][i])
        BY <1>1, <1>3, <2>2, <2>5 DEF Claimed, Followed, FollowIInv
    <3>2. log \in Seq(Entry)
        BY DEF DataTypeOK
    <3>3. CASE log' = Append(log, c) /\ i = j
        BY <1>1, <2>3, <2>4, <3>1, <3>2, <3>3, KeptAppend
    <3>4. CASE log' = Append(log, c) /\ i # j
        BY <1>1, <2>3, <2>4, <3>1, <3>2, <3>4, KeptAppendOther
    <3>5. CASE log' = log /\ lost' = lost \cup {j}
      <4>1. i # j
          BY <2>5, <3>5 DEF Claimed
      <4> QED
          BY <1>1, <2>4, <3>1, <3>5, <4>1
    <3> QED
        BY <2>2, <3>3, <3>4, <3>5
  <2> QED
      BY <2>5 DEF FollowIInv
<1>4. CASE backend = "d1"
    BY <1>1, <1>4 DEF FollowIInv
<1> QED
    BY <1>1, <1>2, <1>3, <1>4, HandleChanges

LEMMA FollowRead ==
    ASSUME ScalarsStay, DataTypeOK, FollowIInv, ReadChange
    PROVE  FollowIInv'
<1> DEFINE c == Head(log)
<1>1. CASE backend = "d1"
    BY <1>1 DEF FollowIInv, ReadChange
<1>2. CASE backend # "d1"
  <2>1. backend \in {"mongo", "postgres"}
      BY <1>2, BackendsAssumption DEF DataTypeOK
  <2>2. log # <<>> /\ log \in Seq(Entry) /\ c \in Entry /\ EntryOK(c)
      BY FirstEntry DEF ReadChange, DataTypeOK
  <2>3. /\ Tell(Seen(c), Told(Seen(c))) /\ log' = Tail(log)
        /\ UNCHANGED <<backend, images, db, lost>>
        /\ crossed' = IF Crossed(Seen(c)) THEN crossed \cup {Seen(c).id} ELSE crossed
      BY DEF ReadChange, Crossed
  <2> HIDE DEF c
  <2>4. Seen(c).id = c.id /\ c.id \in Ids
      BY <2>1, <2>2, SeenLookedUp DEF Entry
  <2>5. ASSUME NEW ref \in Refs, NEW i \in Ids, Claimed(ref, i)'
        PROVE  Kept(log', Shown(db'[i], ref), ref, i, lists'[ref][i])
    <3>1. Kept(log, Shown(db[i], ref), ref, i, lists[ref][i]) /\ Followed(ref)
        BY <1>2, <2>3, <2>5 DEF Claimed, Followed, FollowIInv
    <3>2. lists'[ref] = IF ref \in DOMAIN Told(Seen(c))
                        THEN [lists[ref] EXCEPT ![c.id] = Held(lists[ref][c.id], Told(Seen(c))[ref], Seen(c))]
                        ELSE lists[ref]
        BY <2>3, <2>4 DEF Tell
    <3>3. lists[ref] \in [Ids -> Nat] /\ lists[ref][i] \in Nat
        BY DEF DataTypeOK
    <3>4. CASE i = c.id
      <4>1. lists'[ref][i] = Outcome(lists[ref][i], Seen(c), ref)
          BY <2>4, <3>2, <3>3, <3>4 DEF Outcome
      <4>2. ref \in DeepRefs => ~Crossed(Seen(c))
          BY <2>3, <2>4, <2>5, <3>4 DEF Claimed
      <4>3. \/ lists'[ref][i] = Shown(c.new, ref)
            \/ lists'[ref][i] = Shown(db[i], ref)
            \/ /\ lists'[ref][i] = lists[ref][i]
               /\ lists[ref][i] = Shown(db[i], ref) \/ ~Mends(c, ref, lists[ref][i], Shown(db[i], ref))
          BY <2>1, <2>2, <3>1, <3>3, <3>4, <4>1, <4>2, ReadMends
      <4> QED
          BY <2>2, <2>3, <3>1, <3>4, <4>3, KeptTail DEF c
    <3>5. CASE i # c.id
      <4>1. lists'[ref][i] = lists[ref][i]
          BY <2>4, <3>2, <3>3, <3>5
      <4> QED
          BY <2>2, <2>3, <3>1, <3>5, <4>1, KeptTail DEF c
    <3> QED
        BY <3>4, <3>5
  <2> QED
      BY <2>5 DEF FollowIInv
<1> QED
    BY <1>1, <1>2

\* What was not read is gone with the connection, and its rows are lost.
LEMMA FollowLoss ==
    ASSUME DataTypeOK, FollowIInv, UNCHANGED <<backend, images, db, lists, crossed>>, log' = <<>>,
           lost' = lost \cup {log[k].id : k \in DOMAIN log}
    PROVE  FollowIInv'
<1>1. ASSUME NEW ref \in Refs, NEW i \in Ids, backend # "d1", Claimed(ref, i)'
      PROVE  Kept(<<>>, Shown(db[i], ref), ref, i, lists[ref][i])
  <2>1. Kept(log, Shown(db[i], ref), ref, i, lists[ref][i]) /\ \A k \in DOMAIN log : log[k].id # i
      BY <1>1 DEF Claimed, Followed, FollowIInv
  <2> QED
      BY <2>1, KeptNone
<1> QED
    BY <1>1 DEF FollowIInv

LEMMA FollowStill ==
    ASSUME FollowIInv, UNCHANGED <<backend, images, db, lists, crossed, log>>, lost \subseteq lost'
    PROVE  FollowIInv'
BY DEF FollowIInv, Claimed, Followed

LEMMA FollowNext ==
    ASSUME ScalarsStay, DataTypeOK, FollowIInv, [ChangefeedNext]_vars
    PROVE  FollowIInv'
<1>1. ASSUME NEW w \in Writers, Write(w) \/ Retry(w) PROVE FollowIInv'
    BY <1>1, FollowRequest
<1>2. ASSUME NEW w \in Writers, Publish(w) PROVE FollowIInv'
    BY <1>2 DEF Publish, DataTypeOK, FollowIInv
<1>3. ASSUME NEW w \in Writers, Answer(w) \/ Lose(w) PROVE FollowIInv'
    BY <1>3, FollowStill DEF Answer, Lose
<1>4. ASSUME NEW i \in DOMAIN conns, Connect(i) PROVE FollowIInv'
    BY <1>4, FollowStill DEF Connect
<1>5. CASE Drop
    BY <1>5, FollowLoss DEF Drop
<1>6. CASE Resubscribe
    BY <1>6, FollowStill DEF Resubscribe
<1>7. CASE Unsubscribe
    BY <1>7, FollowLoss DEF Unsubscribe
<1>8. CASE ReadChange
    BY <1>8, FollowRead
<1>9. CASE UNCHANGED vars
    BY <1>9, FollowStill DEF vars
<1> QED
    BY <1>1, <1>2, <1>3, <1>4, <1>5, <1>6, <1>7, <1>8, <1>9 DEF ChangefeedNext

LEMMA FollowInit ==
    ASSUME ChangefeedInit
    PROVE  FollowIInv
<1>1. log = <<>> /\ \A ref \in Refs, i \in Ids : lists[ref][i] = Shown(db[i], ref)
    BY DEF ChangefeedInit, Truth, Shown
<1> QED
    BY <1>1 DEF FollowIInv, Kept, Mended

-----------------------------------------------------------------------------
(* Lists that follow what the middleware of D1 publishes *)

\* One request at a time is written and published, and rows do not move.
OneByOne == "d1" \in Backends => "d1" \notin Moving /\ \A v, w \in Writers : v = w

\* What the list of the ref holds once the result of a request is published.
Says(r, held) ==
    LET type == CASE r.op = "add" -> "added" [] r.op = "patch" -> "modified" [] r.op = "delete" -> "removed"
    IN  Held(held, type, [id |-> r.id, new |-> r.row, fields |-> r.fields])

Due(r, ref, i) == r.stage = "written" /\ r.id = i /\ r.ref = ref

\* A list shows what the database has, but for what is written and not yet published.
PublishIInv ==
    backend = "d1" =>
        /\ log = <<>>
        /\ \A i \in Ids \ lost, ref \in CollectionRefs : through[i] \subseteq {ref} =>
              /\ (\A w \in Writers : ~Due(reqs[w], ref, i)) => lists[ref][i] = Shown(db[i], ref)
              /\ \A w \in Writers : Due(reqs[w], ref, i) => Says(reqs[w], lists[ref][i]) = Shown(db[i], ref)

LEMMA CollectionUnder ==
    ASSUME NEW ref \in CollectionRefs, NEW row
    PROVE  Under(row, ref) <=> There(row) /\ (ref.owner # Star => ref.owner \in row.owners)
BY RefFacts DEF CollectionRefs, Under

\* The request, if it is to be published, says what it did; and it is the only one.
LEMMA HandlePublishes ==
    ASSUME DataTypeOK, backend = "d1", OneByOne, NEW w \in Writers, NEW r \in ReqRecord, ReqOK(r), Handle(w, r)
    PROVE  \/ Refused /\ reqs'[w].stage # "written"
           \/ \E q \in ReqRecord, i \in Ids :
                 /\ reqs' = [reqs EXCEPT ![w] = q] /\ q.stage = "written" /\ q.id = i /\ q.ref = r.ref
                 /\ \/ Refused
                    \/ /\ \A j \in Ids \ {i} : db'[j] = db[j] /\ through'[j] = through[j]
                       /\ through'[i] = through[i] \cup {r.ref} /\ log' = log /\ lost' = lost
                 /\ Says(q, Shown(db[i], r.ref)) = Shown(db'[i], r.ref)
<1>0. "d1" \notin Moving /\ r.id \in Ids /\ r.ref \in CollectionRefs
    BY DEF OneByOne, DataTypeOK, ReqRecord
<1>1. ASSUME NEW i \in Ids, NEW type, NEW new, Commit(r, i, type, new)
      PROVE  /\ \A j \in Ids \ {i} : db'[j] = db[j] /\ through'[j] = through[j]
             /\ through'[i] = through[i] \cup {r.ref} /\ db'[i] = new /\ log' = log /\ lost' = lost
    BY <1>1 DEF Commit, Report, DataTypeOK
<1>2. CASE Post(w, r)
  <2>1. r.row \in Rows /\ r.op = "add"
      BY <1>2 DEF Post, ReqOK
  <2>2. PICK i \in NewIds(r) :
            IF There(db[i]) THEN Refused /\ UNCHANGED born /\ Reply(w, r, FALSE)
            ELSE /\ Commit(r, i, "added", NewRow(r))
                 /\ born' = born \cup {i}
                 /\ Reply(w, [r EXCEPT !.id = i, !.row = NewRow(r)], TRUE)
      BY <1>2 DEF Post
  <2>3. i \in Ids
      BY <2>2 DEF NewIds, ReqRecord
  <2>4. CASE There(db[i])
    <3>1. reqs' = [reqs EXCEPT ![w] = Replied(r)] /\ Replied(r).stage = "done"
        BY <2>1, <2>2, <2>4 DEF Reply, Replied, ReqRecord
    <3> QED
        BY <2>2, <2>4, <3>1 DEF DataTypeOK
  <2>5. CASE ~There(db[i])
    <3> DEFINE p == [r EXCEPT !.id = i, !.row = NewRow(r)]
               q == [p EXCEPT !.stage = "written"]
    <3>1. NewRow(r) \in Rows /\ (r.ref.owner # Star => NewRow(r).owners = {r.ref.owner})
        BY <2>1, NewRowType
    <3>2. p \in ReqRecord /\ p.op = "add" /\ p.id = i /\ p.ref = r.ref /\ p.row = NewRow(r)
        BY <2>1, <2>3, <3>1 DEF ReqRecord, Rows
    <3>3. q \in ReqRecord /\ q.op = "add" /\ q.id = i /\ q.ref = r.ref /\ q.row = NewRow(r) /\ q.stage = "written"
      <4> HIDE DEF p
      <4> QED
          BY <3>2 DEF ReqRecord
    <3>4. reqs' = [reqs EXCEPT ![w] = q]
        BY <2>2, <2>5 DEF Reply
    <3> HIDE DEF q
    <3>5. Says(q, Shown(db[i], r.ref)) = NewRow(r).value
        BY <3>3 DEF Says, Held
    <3>6. Under(NewRow(r), r.ref)
        BY <1>0, <3>1, CollectionUnder, RowFacts
    <3>7. Shown(NewRow(r), r.ref) = NewRow(r).value
        BY <3>6 DEF Shown
    <3>8. /\ \A j \in Ids \ {i} : db'[j] = db[j] /\ through'[j] = through[j]
          /\ through'[i] = through[i] \cup {r.ref} /\ db'[i] = NewRow(r) /\ log' = log /\ lost' = lost
        BY <1>1, <2>2, <2>3, <2>5
    <3>9. Says(q, Shown(db[i], r.ref)) = Shown(db'[i], r.ref)
        BY <3>5, <3>7, <3>8
    <3> QED
        BY <2>3, <3>3, <3>4, <3>8, <3>9
  <2> QED
      BY <2>4, <2>5
<1>3. ASSUME r.op \in {"patch", "delete"}, Reply(w, r, TRUE)
      PROVE  \E q \in ReqRecord : /\ reqs' = [reqs EXCEPT ![w] = q] /\ q.stage = "written" /\ q.id = r.id
                                  /\ q.ref = r.ref /\ q.op = r.op /\ q.row = r.row /\ q.fields = r.fields
  <2> DEFINE q == [r EXCEPT !.stage = "written"]
  <2>1. q \in ReqRecord /\ q.stage = "written" /\ q.id = r.id
        /\ q.ref = r.ref /\ q.op = r.op /\ q.row = r.row /\ q.fields = r.fields
      BY DEF ReqRecord
  <2>2. reqs' = [reqs EXCEPT ![w] = q]
      BY <1>3 DEF Reply
  <2> QED
      BY <2>1, <2>2
<1>4. CASE Patch(w, r)
  <2>1. PICK q \in ReqRecord : /\ reqs' = [reqs EXCEPT ![w] = q] /\ q.stage = "written" /\ q.id = r.id
                               /\ q.ref = r.ref /\ q.op = "patch" /\ q.row = r.row /\ q.fields = r.fields
      BY <1>3, <1>4 DEF Patch
  <2> DEFINE old == db[r.id]
             held == Shown(old, r.ref)
  <2>2. old \in RowOrAbsent
      BY <1>0 DEF DataTypeOK
  <2>3. "value" \in r.fields => There(r.row)
      BY ValuesAssumption DEF ReqOK, There
  <2>4. Says(q, held) = IF held # 0 /\ "value" \in r.fields THEN r.row.value ELSE held
      BY <2>1, <2>3 DEF Says, Held
  <2>5. CASE Matches(r)
    <3>1. old \in Rows /\ Under(old, r.ref)
        BY <2>2, <2>5, RowFacts DEF Matches, Under
    <3>2. /\ Patched(old, r) \in Rows
          /\ "value" \in r.fields => Patched(old, r).value = r.row.value
          /\ "value" \notin r.fields => Patched(old, r).value = old.value
          /\ Patched(old, r).owners = old.owners
        BY <1>0, <3>1, PatchedType
    <3>3. Under(Patched(old, r), r.ref)
        BY <1>0, <3>1, <3>2, CollectionUnder, RowFacts
    <3>4. held = old.value /\ held # 0 /\ Shown(Patched(old, r), r.ref) = Patched(old, r).value
        BY <3>1, <3>3, RowFacts DEF Shown
    <3>5. Says(q, held) = Shown(Patched(old, r), r.ref)
        BY <2>4, <3>2, <3>4
    <3>6. Commit(r, r.id, "modified", Patched(old, r))
        BY <1>4, <2>5 DEF Patch
    <3>7. /\ \A j \in Ids \ {r.id} : db'[j] = db[j] /\ through'[j] = through[j]
          /\ through'[r.id] = through[r.id] \cup {r.ref} /\ db'[r.id] = Patched(old, r) /\ log' = log /\ lost' = lost
        BY <1>0, <1>1, <3>6
    <3>8. Says(q, held) = Shown(db'[r.id], r.ref)
        BY <3>5, <3>7
    <3> QED
        BY <1>0, <2>1, <3>7, <3>8
  <2>6. CASE ~Matches(r)
    <3>1. Refused
        BY <1>4, <2>6 DEF Patch
    <3>2. Says(q, held) = held
      <4>1. CASE ~Under(old, r.ref)
          BY <2>4, <4>1 DEF Shown
      <4>2. CASE Under(old, r.ref)
        <5>1. old \in Rows /\ Patched(old, r) = old
            BY <1>4, <2>2, <2>6, <4>2, RowFacts DEF Matches, Under, Patch
        <5>2. "value" \in r.fields => r.row.value = old.value
            BY <5>1, PatchedType
        <5>3. held = old.value
            BY <4>2 DEF Shown
        <5> QED
            BY <2>4, <5>2, <5>3
      <4> QED
          BY <4>1, <4>2
    <3> QED
        BY <1>0, <2>1, <3>1, <3>2 DEF Refused
  <2> QED
      BY <2>5, <2>6
<1>5. CASE Delete(w, r)
  <2>1. PICK q \in ReqRecord : /\ reqs' = [reqs EXCEPT ![w] = q] /\ q.stage = "written" /\ q.id = r.id
                               /\ q.ref = r.ref /\ q.op = "delete"
      BY <1>3, <1>5 DEF Delete
  <2>2. Says(q, Shown(db[r.id], r.ref)) = 0
      BY <2>1 DEF Says, Held
  <2>3. CASE Matches(r)
    <3>1. Commit(r, r.id, "removed", Absent) /\ Shown(Absent, r.ref) = 0
        BY <1>5, <2>3 DEF Delete, Shown, Absent
    <3>2. /\ \A j \in Ids \ {r.id} : db'[j] = db[j] /\ through'[j] = through[j]
          /\ through'[r.id] = through[r.id] \cup {r.ref} /\ db'[r.id] = Absent /\ log' = log /\ lost' = lost
        BY <1>0, <1>1, <3>1
    <3> QED
        BY <1>0, <2>1, <2>2, <3>1, <3>2
  <2>4. CASE ~Matches(r)
    <3>1. Refused /\ Shown(db[r.id], r.ref) = 0
        BY <1>5, <2>4 DEF Delete, Matches, Shown
    <3> QED
        BY <1>0, <2>1, <2>2, <3>1 DEF Refused
  <2> QED
      BY <2>3, <2>4
<1> QED
    BY <1>2, <1>4, <1>5 DEF Handle

LEMMA PublishRequest ==
    ASSUME DataTypeOK, PublishIInv, OneByOne, NEW w \in Writers, Write(w) \/ Retry(w)
    PROVE  PublishIInv'
<1> SUFFICES ASSUME backend' = "d1"
             PROVE  PublishIInv'
    BY DEF PublishIInv
<1>1. PICK r \in ReqRecord : ReqOK(r) /\ Handle(w, r) /\ UNCHANGED <<backend, lists>>
    BY RequestIsHandled
<1>2. backend = "d1" /\ (\A v \in Writers : v = w) /\ reqs[w].stage # "written"
    BY <1>1 DEF OneByOne, DataTypeOK, Write, Retry
<1>3. \A i \in Ids \ lost, ref \in CollectionRefs : through[i] \subseteq {ref} => lists[ref][i] = Shown(db[i], ref)
    BY <1>2 DEF PublishIInv, Due
<1>4. CASE Refused /\ reqs'[w].stage # "written"
  <2>1. \A ref, i : \A v \in Writers : ~Due(reqs'[v], ref, i)
      BY <1>2, <1>4 DEF Due
  <2> QED
      BY <1>1, <1>2, <1>3, <1>4, <2>1 DEF PublishIInv, Refused
<1>5. CASE \E q \in ReqRecord, i \in Ids :
               /\ reqs' = [reqs EXCEPT ![w] = q] /\ q.stage = "written" /\ q.id = i /\ q.ref = r.ref
               /\ \/ Refused
                  \/ /\ \A j \in Ids \ {i} : db'[j] = db[j] /\ through'[j] = through[j]
                     /\ through'[i] = through[i] \cup {r.ref} /\ log' = log /\ lost' = lost
               /\ Says(q, Shown(db[i], r.ref)) = Shown(db'[i], r.ref)
  <2>1. PICK q \in ReqRecord, i \in Ids :
            /\ reqs' = [reqs EXCEPT ![w] = q] /\ q.stage = "written" /\ q.id = i /\ q.ref = r.ref
            /\ \/ Refused
               \/ /\ \A j \in Ids \ {i} : db'[j] = db[j] /\ through'[j] = through[j]
                  /\ through'[i] = through[i] \cup {r.ref} /\ log' = log /\ lost' = lost
            /\ Says(q, Shown(db[i], r.ref)) = Shown(db'[i], r.ref)
      BY <1>5
  <2>2. /\ log' = log /\ lost' = lost
        /\ \A j \in Ids : through[j] \subseteq through'[j]
        /\ \A j \in Ids \ {i} : db'[j] = db[j]
        /\ db'[i] # db[i] => r.ref \in through'[i]
      BY <2>1 DEF Refused
  <2>3. reqs'[w] = q
      BY <2>1 DEF DataTypeOK
  <2>4. \A ref, j : \A v \in Writers : Due(reqs'[v], ref, j) <=> j = i /\ ref = r.ref
      BY <1>2, <2>1, <2>3 DEF Due
  <2>5. ASSUME NEW j \in Ids \ lost, NEW ref \in CollectionRefs, through'[j] \subseteq {ref}
        PROVE  /\ (\A v \in Writers : ~Due(reqs'[v], ref, j)) => lists[ref][j] = Shown(db'[j], ref)
               /\ \A v \in Writers : Due(reqs'[v], ref, j) => Says(reqs'[v], lists[ref][j]) = Shown(db'[j], ref)
    <3>1. lists[ref][j] = Shown(db[j], ref)
        BY <1>3, <2>2, <2>5
    <3>2. CASE j = i /\ ref = r.ref
        BY <1>2, <2>1, <2>3, <2>4, <3>1, <3>2
    <3>3. CASE ~(j = i /\ ref = r.ref)
      <4>1. db'[j] = db[j]
          BY <2>2, <2>5, <3>3
      <4> QED
          BY <2>4, <3>1, <3>3, <4>1
    <3> QED
        BY <3>2, <3>3
  <2> QED
      BY <1>1, <1>2, <2>2, <2>5 DEF PublishIInv
<1> QED
    BY <1>1, <1>2, <1>4, <1>5, HandlePublishes

LEMMA PublishPublish ==
    ASSUME DataTypeOK, PublishIInv, OneByOne, NEW w \in Writers, Publish(w)
    PROVE  PublishIInv'
<1> DEFINE r == reqs[w]
           type == CASE r.op = "add" -> "added" [] r.op = "patch" -> "modified" [] r.op = "delete" -> "removed"
           c == [id |-> r.id, new |-> r.row, fields |-> r.fields]
<1> SUFFICES ASSUME backend' = "d1"
             PROVE  PublishIInv'
    BY DEF PublishIInv
<1>1. /\ r.stage = "written" /\ Tell(c, [ref \in {r.ref} |-> type])
      /\ reqs' = [reqs EXCEPT ![w] = Replied(r)] /\ UNCHANGED <<backend, db, log, lost, through>>
    BY DEF Publish
<1>2. backend = "d1" /\ (\A v \in Writers : v = w) /\ r \in ReqRecord /\ ReqOK(r)
    BY <1>1 DEF OneByOne, DataTypeOK
<1>3. reqs'[w] = Replied(r) /\ Replied(r).stage # "written"
    BY <1>1, <1>2, IdleType, StagedType DEF Replied, DataTypeOK
<1>4. \A ref, i : \A v \in Writers : ~Due(reqs'[v], ref, i)
    BY <1>2, <1>3 DEF Due
<1>5. ASSUME NEW i \in Ids \ lost, NEW ref \in CollectionRefs, through[i] \subseteq {ref}
      PROVE  lists'[ref][i] = Shown(db[i], ref)
  <2>1. ref \in Refs /\ lists[ref] \in [Ids -> Nat]
      BY RefFacts DEF DataTypeOK
  <2>2. lists'[ref] = IF ref = r.ref THEN [lists[ref] EXCEPT ![r.id] = Held(lists[ref][r.id], type, c)]
                      ELSE lists[ref]
    <3> DEFINE told == [x \in {r.ref} |-> type]
    <3>1. c.id = r.id /\ DOMAIN told = {r.ref} /\ told[r.ref] = type
        OBVIOUS
    <3>2. Tell(c, told)
        BY <1>1
    <3> HIDE DEF c, told, type, r
    <3> QED
        BY <2>1, <3>1, <3>2 DEF Tell
  <2>3. CASE ref = r.ref /\ i = r.id
    <3>1. Due(r, ref, i)
        BY <1>1, <2>3 DEF Due
    <3>2. Says(r, lists[ref][i]) = Shown(db[i], ref)
        BY <1>2, <1>5, <3>1 DEF PublishIInv
    <3>3. Says(r, lists[ref][i]) = Held(lists[ref][i], type, c)
        BY DEF Says
    <3>4. lists'[ref][i] = Held(lists[ref][i], type, c)
      <4> HIDE DEF c, type, r
      <4> QED
          BY <2>1, <2>2, <2>3
    <3> QED
        BY <3>2, <3>3, <3>4
  <2>4. CASE ~(ref = r.ref /\ i = r.id)
    <3>1. \A v \in Writers : ~Due(reqs[v], ref, i)
        BY <1>2, <2>4 DEF Due
    <3>2. lists[ref][i] = Shown(db[i], ref)
        BY <1>2, <1>5, <3>1 DEF PublishIInv
    <3>3. lists'[ref][i] = lists[ref][i]
      <4> HIDE DEF c, type, r
      <4> QED
          BY <2>1, <2>2, <2>4
    <3> QED
        BY <3>2, <3>3
  <2> QED
      BY <2>3, <2>4
<1> QED
    BY <1>1, <1>2, <1>4, <1>5 DEF PublishIInv

\* A request that is answered, or whose answer is lost, perhaps before it was published.
LEMMA PublishAnswer ==
    ASSUME DataTypeOK, PublishIInv, OneByOne, NEW w \in Writers, Answer(w) \/ Lose(w)
    PROVE  PublishIInv'
<1> SUFFICES ASSUME backend' = "d1"
             PROVE  PublishIInv'
    BY DEF PublishIInv
<1>1. /\ UNCHANGED <<backend, db, log, through, lists>> /\ reqs'[w].stage # "written"
      /\ lost' = IF reqs[w].stage = "written" THEN lost \cup {reqs[w].id} ELSE lost
  <2>1. reqs \in [Writers -> ReqRecord]
      BY DEF DataTypeOK
  <2>2. CASE Answer(w)
      BY <2>1, <2>2 DEF Answer, Idle
  <2>3. CASE Lose(w)
    <3>1. [reqs[w] EXCEPT !.stage = "lost"].stage = "lost"
        BY <2>1 DEF ReqRecord
    <3> QED
        BY <2>1, <2>3, <3>1 DEF Lose
  <2> QED
      BY <2>2, <2>3
<1>2. backend = "d1" /\ (\A v \in Writers : v = w)
    BY <1>1 DEF OneByOne, DataTypeOK
<1>3. \A ref, i : \A v \in Writers : ~Due(reqs'[v], ref, i)
    BY <1>1, <1>2 DEF Due
<1>4. \A i \in Ids \ lost' : \A ref : \A v \in Writers : ~Due(reqs[v], ref, i)
    BY <1>1, <1>2 DEF Due
<1>5. lost \subseteq lost'
    BY <1>1
<1> QED
    BY <1>1, <1>2, <1>3, <1>4, <1>5 DEF PublishIInv

LEMMA PublishStill ==
    ASSUME PublishIInv, UNCHANGED <<backend, db, reqs, through, lists>>, log' = log \/ log' = <<>>,
           lost \subseteq lost'
    PROVE  PublishIInv'
BY DEF PublishIInv

LEMMA PublishNext ==
    ASSUME DataTypeOK, PublishIInv, OneByOne, [ChangefeedNext]_vars
    PROVE  PublishIInv'
<1>1. ASSUME NEW w \in Writers, Write(w) \/ Retry(w) PROVE PublishIInv'
    BY <1>1, PublishRequest
<1>2. ASSUME NEW w \in Writers, Publish(w) PROVE PublishIInv'
    BY <1>2, PublishPublish
<1>3. ASSUME NEW w \in Writers, Answer(w) \/ Lose(w) PROVE PublishIInv'
    BY <1>3, PublishAnswer
<1>4. ASSUME NEW i \in DOMAIN conns, Connect(i) PROVE PublishIInv'
    BY <1>4, PublishStill DEF Connect
<1>5. CASE Drop
    BY <1>5, PublishStill DEF Drop
<1>6. CASE Resubscribe
    BY <1>6, PublishStill DEF Resubscribe
<1>7. CASE Unsubscribe
    BY <1>7, PublishStill DEF Unsubscribe
<1>8. CASE ReadChange
    BY <1>8 DEF ReadChange, PublishIInv
<1>9. CASE UNCHANGED vars
    BY <1>9, PublishStill DEF vars
<1> QED
    BY <1>1, <1>2, <1>3, <1>4, <1>5, <1>6, <1>7, <1>8, <1>9 DEF ChangefeedNext

LEMMA PublishInit ==
    ASSUME ChangefeedInit
    PROVE  PublishIInv
<1>1. /\ log = <<>> /\ \A w \in Writers : \A ref, i : ~Due(reqs[w], ref, i)
      /\ \A ref \in CollectionRefs, i \in Ids : lists[ref][i] = Shown(db[i], ref)
    BY RefFacts DEF ChangefeedInit, Truth, Shown, Due, Idle
<1> QED
    BY <1>1 DEF PublishIInv

-----------------------------------------------------------------------------
(* All lists follow *)

ListsIInv == DataTypeOK /\ FollowIInv /\ PublishIInv

LEMMA ListsSettle ==
    ASSUME ListsIInv
    PROVE  AllListsFollow
<1> SUFFICES ASSUME Settled, NEW i \in Ids \ lost, NEW ref \in Refs, Reached(ref, i),
                    ref \in DeepRefs => backend # "d1" /\ i \notin crossed
             PROVE  Follows(ref, i)
    BY RefFacts DEF AllListsFollow, ListsFollow, DeepListsFollow, CollectionRefs
<1>1. backend \in {"mongo", "postgres", "d1"}
    BY BackendsAssumption DEF ListsIInv, DataTypeOK
<1>2. Truth(db, ref, i) = Shown(db[i], ref)
    BY DEF Truth, Shown
<1>3. CASE backend # "d1"
  <2>1. Claimed(ref, i) /\ log = <<>>
      BY <1>1, <1>3 DEF Claimed, Followed, Reached, Settled
  <2>2. Kept(<<>>, Shown(db[i], ref), ref, i, lists[ref][i])
      BY <1>3, <2>1 DEF ListsIInv, FollowIInv
  <2> QED
      BY <1>2, <2>2 DEF Kept, Mended, Follows
<1>4. CASE backend = "d1"
  <2>1. ref \in CollectionRefs /\ through[i] \subseteq {ref}
      BY <1>4 DEF Refs, CollectionRefs, Reached
  <2>2. \A w \in Writers : ~Due(reqs[w], ref, i)
      BY DEF Settled, Due
  <2> QED
      BY <1>2, <1>4, <2>1, <2>2 DEF ListsIInv, PublishIInv, Follows
<1> QED
    BY <1>3, <1>4

\* In every state: a list that does not show what the database has of a row is mended
\* by a change that is still to be read, and so is what any of them makes of it; and
\* D1's lists lack only what is written and not yet published.
THEOREM ListsInvariance ==
    ASSUME ScalarsStay, OneByOne
    PROVE  ChangefeedSpec => []ListsIInv
<1>1. ChangefeedInit => ListsIInv
    BY TypeInit, FollowInit, PublishInit DEF ListsIInv
<1>2. ListsIInv /\ [ChangefeedNext]_vars => ListsIInv'
    BY TypeNext, FollowNext, PublishNext DEF ListsIInv
<1> QED
    BY <1>1, <1>2, PTL DEF ChangefeedSpec

\* A row that moves leaves the list it was in and joins the other one, whatever is
\* written meanwhile, however late the stream is read and however often it drops: once
\* all is told, every list, below one parent and below two, holds the rows of the
\* database with their values. Not claimed: rows with a change nobody was told of or
\* read with both parents changed, lists that are not followed without pre-images or
\* not written through, scalar parents of Postgres that move, and writers of D1 that
\* overtake each other.
THEOREM ListsFollowTheDatabase ==
    ASSUME ScalarsStay, OneByOne
    PROVE  ChangefeedSpec => []AllListsFollow
BY ListsInvariance, ListsSettle, PTL
=============================================================================
