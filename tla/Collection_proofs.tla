-------------------------- MODULE Collection_proofs --------------------------
(***************************************************************************)
(* Proofs about Collection: a list holds each document once, fits the      *)
(* pages asked for and, when nothing is on its way to it, shows only what  *)
(* the device holds, for any number of documents, filters, queries, pages  *)
(* and writes; and what it does not show stays in reach of loadMore().     *)
(***************************************************************************)
EXTENDS Collection, FiniteSetTheorems, SequenceTheorems, WellFoundedInduction, TLAPS

USE DEF collectionVars, deviceVars, lockVars

-----------------------------------------------------------------------------
(* Positions *)

Places == 0..Position([id |-> N, rank |-> N])

\* Each document is there once.
OnePerId(S) == \A i, j \in S : i.id = j.id => i = j

\* Products grow with a factor.
LEMMA ProductsGrow ==
    ASSUME NEW a \in Nat, NEW b \in Nat, NEW m \in Nat, a < b
    PROVE  a * m \in Nat /\ b * m \in Nat /\ a * m + m <= b * m
<1>1. b = a + 1 + (b - a - 1) /\ b - a - 1 \in Nat
    OBVIOUS
<1> DEFINE k == b - a - 1
<1>2. k * m \in Nat /\ a * m \in Nat /\ b * m \in Nat
    BY <1>1
<1> HIDE DEF k
<1>3. (a + 1 + k) * m = a * m + m + k * m
    BY <1>1 DEF k
<1> QED
    BY <1>1, <1>2, <1>3 DEF k

\* Items of different documents have different positions.
LEMMA PositionsDiffer ==
    ASSUME NEW i \in Items, NEW j \in Items, i.id # j.id
    PROVE  Position(i) # Position(j) /\ Position(i) \in Nat /\ Position(j) \in Nat
<1>1. /\ N \in Nat /\ i.rank \in Nat /\ j.rank \in Nat /\ i.id \in Nat /\ j.id \in Nat
      /\ i.id <= N /\ j.id <= N
    BY CollectionBoundsAssumption DEF Items, Ids
<1>2. i.rank * (N + 1) \in Nat /\ j.rank * (N + 1) \in Nat
    BY <1>1
<1>3. CASE i.rank = j.rank
    BY <1>1, <1>2, <1>3 DEF Position
<1>4. CASE i.rank < j.rank
  <2>1. i.rank * (N + 1) + (N + 1) <= j.rank * (N + 1)
      BY <1>1, <1>4, ProductsGrow
  <2> QED
      BY <1>1, <1>2, <2>1 DEF Position
<1>5. CASE j.rank < i.rank
  <2>1. j.rank * (N + 1) + (N + 1) <= i.rank * (N + 1)
      BY <1>1, <1>5, ProductsGrow
  <2> QED
      BY <1>1, <1>2, <2>1 DEF Position
<1> QED
    BY <1>1, <1>3, <1>4, <1>5

\* The position of an item is a place for a cursor.
LEMMA PositionType ==
    /\ 0 \in Places /\ Places \subseteq Nat /\ Position([id |-> N, rank |-> N]) \in Nat
    /\ \A i \in Items : Position(i) \in Places
<1>1. N \in Nat /\ N * (N + 1) \in Nat
    BY CollectionBoundsAssumption
<1>2. ASSUME NEW i \in Items
      PROVE  Position(i) \in Places
  <2>1. i.rank \in Nat /\ i.id \in Nat /\ i.id <= N /\ i.rank <= N
      BY CollectionBoundsAssumption DEF Items, Ids
  <2>2. i.rank * (N + 1) \in Nat /\ i.rank * (N + 1) <= N * (N + 1)
    <3>1. CASE i.rank = N
        BY <1>1, <3>1
    <3>2. CASE i.rank < N
        BY <1>1, <2>1, <3>2, ProductsGrow
    <3> QED
        BY <2>1, <1>1, <3>1, <3>2
  <2> QED
      BY <1>1, <2>1, <2>2 DEF Places, Position
<1> QED
    BY <1>1, <1>2 DEF Places, Position

\* A set of cursors has a greatest one.
LEMMA Greatest ==
    ASSUME NEW K \in Nat, NEW S \in SUBSET (0..K), S # {}
    PROVE  \E x \in S : \A y \in S : x >= y
<1> DEFINE T == {x..K : x \in S}
<1>1. \A x \in S : IsFiniteSet(x..K) /\ x..K \in SUBSET Nat
  <2> TAKE x \in S
  <2>1. x \in Int /\ K \in Int
      BY SMT
  <2>2. IsFiniteSet(x..K)
      BY <2>1, FS_Interval, Zenon
  <2> QED
      BY <2>2, SMT
<1>2. T \subseteq FiniteSubsetsOf(Nat) /\ T # {}
    BY <1>1 DEF FiniteSubsetsOf
<1>3. IsWellFoundedOn(StrictSubsetOrdering(Nat), FiniteSubsetsOf(Nat))
    BY FS_StrictSubsetOrderingWellFounded
<1> HIDE DEF T
<1>4. \E a \in T : \A b \in T : <<b, a>> \notin StrictSubsetOrdering(Nat)
    BY <1>2, <1>3, WFMin, Zenon
<1> USE DEF T
<1>5. PICK x \in S : \A y \in S : <<y..K, x..K>> \notin StrictSubsetOrdering(Nat)
    BY <1>4
<1>6. ASSUME NEW y \in S, y > x
      PROVE  FALSE
  <2>1. y..K \in SUBSET Nat /\ x..K \in SUBSET Nat
      BY <1>1
  <2>2. y..K \subseteq x..K /\ x \in x..K /\ x \notin y..K
      BY <1>6, SMT
  <2>3. <<y..K, x..K>> \in StrictSubsetOrdering(Nat)
      BY <2>1, <2>2 DEF StrictSubsetOrdering
  <2> QED
      BY <2>3, <1>5
<1> QED
    BY <1>5, <1>6, SMT

\* The end of a list is a place.
LEMMA EndType ==
    ASSUME NEW S \in SUBSET Items, S # {}
    PROVE  End(S) \in Places
<1> DEFINE P == {Position(i) : i \in S}
<1>1. P \in SUBSET Places /\ P # {}
    BY PositionType
<1> HIDE DEF P
<1>2. \E x \in P : \A y \in P : x >= y
    BY <1>1, PositionType, Greatest DEF Places
<1>3. Max(P) \in P
    BY <1>2 DEF Max
<1> QED
    BY <1>1, <1>3 DEF End, P

\* So has a set of items a first one.
LEMMA Foremost ==
    ASSUME NEW S \in SUBSET Items, S # {}
    PROVE  \E i \in S : \A j \in S : Position(i) <= Position(j)
<1> DEFINE K == Position([id |-> N, rank |-> N])
           P == {K - Position(i) : i \in S}
<1>1. K \in Nat /\ \A i \in S : Position(i) \in 0..K
    BY PositionType DEF Places
<1> HIDE DEF K
<1>2. P \in SUBSET (0..K) /\ P # {}
    BY <1>1
<1> HIDE DEF P
<1>3. PICK x \in P : \A y \in P : x >= y
    BY <1>1, <1>2, Greatest
<1>4. PICK i \in S : x = K - Position(i)
    BY <1>3 DEF P
<1>5. \A j \in S : K - Position(i) >= K - Position(j)
    BY <1>3, <1>4 DEF P
<1>6. \A j \in S : Position(i) <= Position(j)
    BY <1>1, <1>5
<1> QED
    BY <1>6

-----------------------------------------------------------------------------
(* Pages *)

\* A set that has each document once is finite.
LEMMA OnceIsFinite ==
    ASSUME NEW S \in SUBSET Items, OnePerId(S)
    PROVE  IsFiniteSet(S)
<1> DEFINE f == [i \in S |-> i.id]
<1>1. f \in Injection(S, Ids)
    BY DEF Injection, IsInjective, OnePerId, Items
<1>2. IsFiniteSet(Ids)
  <2>1. 1 \in Int /\ N \in Int
      BY CollectionBoundsAssumption
  <2> QED
      BY <2>1, FS_Interval, Zenon DEF Ids
<1> HIDE DEF f
<1> QED
    BY <1>1, <1>2, FS_Injection

\* "What does not fit the pages asked for stays in the storage": of n documents there
\* are no more than n.
LEMMA FirstItemsFit ==
    ASSUME NEW S \in SUBSET Items, OnePerId(S), NEW n \in Nat
    PROVE  /\ FirstItems(n, S) \subseteq S
           /\ IsFiniteSet(FirstItems(n, S)) /\ Cardinality(FirstItems(n, S)) <= n
<1> DEFINE F == FirstItems(n, S)
           Before(i) == {j \in S : Position(j) < Position(i)}
           f == [i \in F |-> Cardinality(Before(i))]
<1>1. F \subseteq S /\ \A i \in F : Cardinality(Before(i)) < n
    BY DEF FirstItems
<1>2. IsFiniteSet(S)
    BY OnceIsFinite
<1>3. \A i \in S : IsFiniteSet(Before(i)) /\ Cardinality(Before(i)) \in Nat
    BY <1>2, FS_Subset, FS_CardinalityType
<1>4. ASSUME NEW i \in S, NEW j \in S, Position(i) < Position(j)
      PROVE  Cardinality(Before(i)) # Cardinality(Before(j))
  <2>1. Before(i) \subseteq Before(j)
      BY <1>4, PositionType DEF Places
  <2>2. i \in Before(j) /\ i \notin Before(i)
      BY <1>4, PositionType DEF Places
  <2> HIDE DEF Before
  <2> QED
      BY <1>3, <2>1, <2>2, FS_Subset
<1>5. ASSUME NEW i \in F, NEW j \in F, f[i] = f[j]
      PROVE  i = j
  <2>1. i \in S /\ j \in S /\ Cardinality(Before(i)) = Cardinality(Before(j))
      BY <1>1, <1>5
  <2> HIDE DEF Before, F
  <2>2. ~(Position(i) < Position(j)) /\ ~(Position(j) < Position(i))
      BY <1>4, <2>1
  <2>3. CASE i.id # j.id
    <3>1. Position(i) # Position(j) /\ Position(i) \in Nat /\ Position(j) \in Nat
        BY <2>1, <2>3, PositionsDiffer
    <3> QED
        BY <2>2, <3>1
  <2> QED
      BY <2>1, <2>3 DEF OnePerId
<1>6. CASE n = 0
  <2>1. F = {}
    <3> HIDE DEF Before
    <3> QED
        BY <1>1, <1>3, <1>6
  <2> HIDE DEF F
  <2>2. FirstItems(n, S) = {}
      BY <2>1 DEF F
  <2> QED
      BY <1>6, <2>2, FS_EmptySet
<1>7. CASE n # 0
  <2>1. IsFiniteSet(0..(n - 1)) /\ Cardinality(0..(n - 1)) = n
    <3>1. 0 \in Int /\ n - 1 \in Int
        OBVIOUS
    <3>2. /\ IsFiniteSet(0..(n - 1))
          /\ Cardinality(0..(n - 1)) = IF 0 > n - 1 THEN 0 ELSE (n - 1) - 0 + 1
        BY <3>1, FS_Interval, Zenon
    <3> QED
        BY <1>7, <3>2
  <2>2. \A i \in F : Cardinality(Before(i)) \in 0..(n - 1)
    <3> HIDE DEF Before, F
    <3> QED
        BY <1>1, <1>3
  <2>3. f \in [F -> 0..(n - 1)]
    <3> HIDE DEF Before, F
    <3> QED
        BY <2>2
  <2> HIDE DEF f, F
  <2>4. f \in Injection(F, 0..(n - 1))
      BY <1>5, <2>3 DEF Injection, IsInjective
  <2>5. IsFiniteSet(F) /\ Cardinality(F) <= n
      BY <2>1, <2>4, FS_Injection
  <2> QED
      BY <1>1, <2>5 DEF F
<1> QED
    BY <1>6, <1>7

-----------------------------------------------------------------------------
(* What the operators do to a list *)

Known == {"unknown", "partial", "complete"}
Views ==
    [items : SUBSET Items, filter : Tags \cup {None}, window : Nat \ {0},
     after : Places, next : Places, loading : {None, "all", "next"},
     error : BOOLEAN, asked : BOOLEAN, answered : BOOLEAN, unloaded : BOOLEAN,
     known : Known, status : {"idle", "loading", "ready", "error"}]
Emissions ==
    [from : {"query", "realtime"}, changes : BOOLEAN, idle : BOOLEAN,
     load : {None, "all", "next"}, known : Known \cup {None}, error : BOOLEAN]

\* Two lists that show the same, in the same pages.
Alike(v, w) ==
    /\ v.items = w.items /\ v.filter = w.filter /\ v.window = w.window
    /\ v.after = w.after /\ v.next = w.next /\ v.asked = w.asked

LEMMA SettledKeeps ==
    ASSUME NEW v \in Views
    PROVE  Settled(v) \in Views /\ Alike(Settled(v), v)
<1> DEFINE s == IF v.error THEN "error"
                ELSE IF v.answered /\ v.loading = None THEN "ready"
                ELSE IF v.asked THEN "loading" ELSE "idle"
<1>1. s \in {"idle", "loading", "ready", "error"}
    OBVIOUS
<1>2. Settled(v) = [v EXCEPT !.status = s]
    BY DEF Settled
<1> HIDE DEF s
<1> QED
    BY <1>1, <1>2 DEF Views, Alike

LEMMA TappedKeeps ==
    ASSUME NEW v \in Views, NEW e \in Emissions
    PROVE  Tapped(v, e) \in Views /\ Alike(Tapped(v, e), v)
<1> DEFINE known == IF e.known = None THEN v.known ELSE e.known
           told == [v EXCEPT !.known = known]
           answered == v.answered \/ Answers(v, e) \/ (v.unloaded /\ e.known \notin {None, "unknown"})
           loading == IF e.idle THEN None ELSE IF e.load = None THEN v.loading ELSE e.load
<1>1. known \in Known /\ answered \in BOOLEAN /\ loading \in {None, "all", "next"}
    BY DEF Views, Emissions, Answers
<1>2. Tapped(v, e) = IF e.error THEN [told EXCEPT !.loading = None, !.error = TRUE]
                     ELSE [told EXCEPT !.answered = answered, !.loading = loading]
  <2>1. told.answered = v.answered /\ told.loading = v.loading /\ v.known = v.known
      BY DEF Views
  <2>2. told = [v EXCEPT !.known = IF e.known = None THEN @ ELSE e.known]
      OBVIOUS
  <2> QED
      BY <2>1, <2>2 DEF Tapped
<1> HIDE DEF known, answered, loading
<1>3. told \in Views /\ Alike(told, v)
    BY <1>1 DEF Views, Alike
<1> HIDE DEF told
<1>4. /\ [told EXCEPT !.loading = None, !.error = TRUE] \in Views
      /\ Alike([told EXCEPT !.loading = None, !.error = TRUE], told)
      /\ [told EXCEPT !.answered = answered, !.loading = loading] \in Views
      /\ Alike([told EXCEPT !.answered = answered, !.loading = loading], told)
    BY <1>1, <1>3 DEF Views, Alike
<1> QED
    BY <1>2, <1>3, <1>4 DEF Alike

LEMMA ToldKeeps ==
    ASSUME NEW v \in Views, NEW e \in Emissions
    PROVE  Told(v, e) \in Views /\ Alike(Told(v, e), v)
BY TappedKeeps, SettledKeeps DEF Told, Alike

\* What fits the window is shown, and no more; nothing is shown that was not there.
LEMMA ClippedFits ==
    ASSUME NEW v \in Views, NEW S \in SUBSET Items, OnePerId(S)
    PROVE  /\ Clipped(v, S) \in Views
           /\ Clipped(v, S).items \subseteq S
           /\ Cardinality(Clipped(v, S).items) <= v.window
           /\ Clipped(v, S).filter = v.filter /\ Clipped(v, S).window = v.window
           /\ Clipped(v, S).asked = v.asked /\ Clipped(v, S).after = v.after
           /\ S = {} => Clipped(v, S).next = v.next
<1> DEFINE kept == FirstItems(v.window, S)
<1>1. v.window \in Nat \ {0} /\ IsFiniteSet(S)
    BY OnceIsFinite DEF Views
<1>2. CASE Cardinality(S) <= v.window
  <2>1. Clipped(v, S) = [v EXCEPT !.items = S]
      BY <1>2 DEF Clipped
  <2> QED
      BY <1>2, <2>1 DEF Views
<1>3. CASE ~(Cardinality(S) <= v.window)
  <2>1. /\ kept \subseteq S /\ IsFiniteSet(kept) /\ Cardinality(kept) <= v.window
      BY <1>1, FirstItemsFit
  <2>2. Clipped(v, S) = [v EXCEPT !.items = kept, !.next = End(kept)]
      BY <1>3 DEF Clipped
  <2>3. S # {}
      BY <1>1, <1>3, FS_EmptySet
  <2>4. kept # {}
    <3> DEFINE P == {Position(i) : i \in S}
               least == {x \in S : \A y \in S : Position(x) <= Position(y)}
    <3>1. PICK x \in S : \A y \in S : Position(x) <= Position(y)
        BY <2>3, Foremost
    <3>2. {j \in S : Position(j) < Position(x)} = {}
        BY <3>1, PositionType DEF Places
    <3> QED
        BY <1>1, <3>1, <3>2, FS_EmptySet DEF FirstItems
  <2>5. End(kept) \in Places
      BY <2>1, <2>4, EndType
  <2> HIDE DEF kept
  <2> QED
      BY <2>1, <2>2, <2>3, <2>5 DEF Views
<1> QED
    BY <1>2, <1>3

\* What a change makes of the list: what it removes is not shown, what it brings is shown
\* as it brings it, and the rest as it was.
Shows(w, v, added, modified, removed) ==
    /\ w \in Views /\ OnePerId(w.items) /\ Cardinality(w.items) <= w.window
    /\ w.filter = v.filter /\ w.window = v.window /\ w.asked = v.asked /\ w.after = v.after
    /\ \A i \in w.items :
          /\ i.id \notin removed
          /\ \/ i \in added \cup modified
             \/ i \in v.items /\ \A c \in added \cup modified : c.id # i.id
    /\ v.items = {} /\ added = {} => w.items = {} /\ w.next = v.next

LEMMA AppliedShows ==
    ASSUME NEW v \in Views, OnePerId(v.items), Cardinality(v.items) <= v.window,
           NEW added \in SUBSET Items, NEW modified \in SUBSET Items, NEW removed \in SUBSET Ids,
           OnePerId(added \cup modified)
    PROVE  Shows(Applied(v, added, modified, removed), v, added, modified, removed)
<1> DEFINE changed == added \cup modified
           U == Updated(v, changed)
           S == {i \in U \cup {a \in added : ~On(v, a.id)} : i.id \notin removed}
           w == Applied(v, added, modified, removed)
<1>0. changed \in SUBSET Items /\ OnePerId(changed) /\ v.items \in SUBSET Items
    BY DEF Views
<1>1. CASE changed = {} /\ removed = {}
    BY <1>1 DEF Applied, Shows
<1>2. CASE ~(changed = {} /\ removed = {})
  <2>1. w = Clipped(v, S)
      BY <1>2 DEF Applied
  <2>2. \A i \in U : \/ i \in changed /\ \E j \in v.items : j.id = i.id
                     \/ i \in v.items /\ \A c \in changed : c.id # i.id
    <3> SUFFICES ASSUME NEW j \in v.items,
                        NEW i, i = IF \E c \in changed : c.id = j.id THEN CHOOSE c \in changed : c.id = j.id ELSE j
                 PROVE  \/ i \in changed /\ \E k \in v.items : k.id = i.id
                        \/ i \in v.items /\ \A c \in changed : c.id # i.id
        BY DEF Updated
    <3> HIDE DEF changed
    <3>1. CASE \E c \in changed : c.id = j.id
      <4>1. i \in changed /\ i.id = j.id
          BY <3>1
      <4> QED
          BY <4>1
    <3>2. CASE ~\E c \in changed : c.id = j.id
        BY <3>2
    <3> QED
        BY <3>1, <3>2
  <2>3. \A i, j \in U : i.id = j.id => i = j
    <3> HIDE DEF changed, U
    <3> QED
        BY <1>0, <2>2 DEF OnePerId
  <2>4. \A i \in U, a \in added : ~On(v, a.id) => i.id # a.id
    <3> HIDE DEF U
    <3> QED
        BY <2>2 DEF On
  <2>5. S \in SUBSET Items /\ OnePerId(S)
    <3>1. S \subseteq U \cup {a \in added : ~On(v, a.id)}
        OBVIOUS
    <3>2. U \in SUBSET Items
      <4> HIDE DEF changed, U
      <4> QED
          BY <1>0, <2>2
    <3>3. \A i, j \in added : i.id = j.id => i = j
        BY DEF OnePerId
    <3> HIDE DEF U, S
    <3> QED
        BY <2>3, <2>4, <3>1, <3>2, <3>3 DEF OnePerId
  <2>6. /\ w \in Views /\ w.items \subseteq S /\ Cardinality(w.items) <= v.window
        /\ w.filter = v.filter /\ w.window = v.window /\ w.asked = v.asked /\ w.after = v.after
        /\ S = {} => w.next = v.next
    <3> HIDE DEF S, w
    <3> QED
        BY <2>1, <2>5, ClippedFits
  <2>7. \A i \in S : /\ i.id \notin removed
                     /\ i \in changed \/ (i \in v.items /\ \A c \in changed : c.id # i.id)
    <3> TAKE i \in S
    <3>1. i.id \notin removed /\ (i \in U \/ i \in added)
        OBVIOUS
    <3> QED
        BY <2>2, <3>1
  <2>8. v.items = {} /\ added = {} => S = {}
      BY DEF Updated
  <2> HIDE DEF S, w
  <2>9. OnePerId(w.items)
      BY <2>5, <2>6 DEF OnePerId
  <2> QED
      BY <2>6, <2>7, <2>8, <2>9 DEF w, Shows
<1> QED
    BY <1>1, <1>2 DEF Shows

\* So do the broadcasts that reach the list.
LEMMA ReceivedShows ==
    ASSUME NEW v \in Views, OnePerId(v.items), Cardinality(v.items) <= v.window,
           NEW from \in {"query", "realtime"},
           NEW added \in SUBSET Items, NEW modified \in SUBSET Items, NEW removed \in SUBSET Ids,
           OnePerId(added \cup modified)
    PROVE  Shows(Received(v, from, added, modified, removed), v, added, modified, removed)
<1> DEFINE e == [Emission EXCEPT !.from = from, !.changes = TRUE, !.idle = from = "query"]
           t == Tapped(v, e)
           a == Applied(t, added, modified, removed)
<1>1. e \in Emissions
    BY DEF Emission, Emissions
<1> HIDE DEF e
<1>2. t \in Views /\ Alike(t, v)
    BY <1>1, TappedKeeps
<1> HIDE DEF t
<1>3. Shows(a, t, added, modified, removed)
  <2>1. OnePerId(t.items) /\ Cardinality(t.items) <= t.window
      BY <1>2 DEF Alike
  <2> QED
      BY <1>2, <2>1, AppliedShows
<1> HIDE DEF a
<1>4. Settled(a) \in Views /\ Alike(Settled(a), a)
    BY <1>3, SettledKeeps DEF Shows
<1>5. Received(v, from, added, modified, removed) = Settled(a)
    BY DEF Received, a, t, e
<1> QED
    BY <1>2, <1>3, <1>4, <1>5 DEF Alike, Shows

\* What the device holds of a document.
Stores == [Ids -> Data \cup {Absent}]
IsStored(i) == i = Item(i.id, store[i.id])

\* A page of the storage holds what the storage holds, each document once.
LEMMA PageType ==
    ASSUME store \in Stores, NEW f \in Tags, NEW after \in Places
    PROVE  /\ Page(f, after) \in SUBSET Items /\ OnePerId(Page(f, after))
           /\ Cardinality(Page(f, after)) <= Limit
           /\ \A i \in Page(f, after) : IsStored(i) /\ i.tag = f
           /\ NextOf(f, after) \in Places
<1> DEFINE B == Beyond(f, after)
<1>1. \A i \in B : i \in Items /\ IsStored(i) /\ i.tag = f
  <2> SUFFICES ASSUME NEW d \in Ids, store[d].tag = f, NEW i, i = Item(d, store[d])
               PROVE  i \in Items /\ IsStored(i) /\ i.tag = f
      BY DEF Beyond, Matching
  <2>1. store[d] \in Data
      BY CollectionNoneAssumption DEF Stores, Absent
  <2>2. i.id = d /\ i.rank = store[d].rank /\ i.tag = store[d].tag
      BY DEF Item
  <2> QED
      BY <2>1, <2>2 DEF Items, Data, Item, IsStored
<1> HIDE DEF B
<1>2. B \in SUBSET Items /\ OnePerId(B)
    BY <1>1 DEF OnePerId, IsStored
<1>3. Limit \in Nat
    BY CollectionBoundsAssumption
<1>4. Page(f, after) = FirstItems(Limit, B)
    BY DEF Page, B
<1>5. Page(f, after) \subseteq B /\ Cardinality(Page(f, after)) <= Limit
    BY <1>2, <1>3, <1>4, FirstItemsFit
<1>6. NextOf(f, after) \in Places
  <2> DEFINE page == Page(f, after)
  <2>1. page # {} => End(page) \in Places
      BY <1>2, <1>5, EndType
  <2> HIDE DEF page
  <2>2. NextOf(f, after) \in {0, after} \/ (page # {} /\ NextOf(f, after) = End(page))
      BY DEF NextOf, page
  <2> QED
      BY <2>1, <2>2, PositionType
<1> QED
    BY <1>1, <1>2, <1>5, <1>6 DEF OnePerId

\* A list that is well formed and fits its pages, and one it may turn into while the filter
\* and the pages asked for stay.
WellFormed(v) == v \in Views /\ OnePerId(v.items) /\ Cardinality(v.items) <= v.window
SamePages(w, v) == w.filter = v.filter /\ w.window = v.window /\ w.asked = v.asked

\* An answer brings what the device holds, to what the list shows.
LEMMA AnsweredShows ==
    ASSUME store \in Stores, NEW v, WellFormed(v), Limit <= v.window,
           NEW c, c.filter = v.filter, c.filter \in Tags, c.after \in Places
    PROVE  /\ WellFormed(Answered(c, v)) /\ SamePages(Answered(c, v), v)
           /\ \A i \in Answered(c, v).items : i \in v.items \/ (IsStored(i) /\ i.tag = v.filter)
<1> DEFINE page == Page(c.filter, c.after)
           paged == [v EXCEPT !.next = NextOf(c.filter, c.after)]
           empty == Unloaded(v, page)
           first == [paged EXCEPT !.items = page, !.unloaded = empty, !.answered = v.answered \/ ~empty]
<1>1. /\ page \in SUBSET Items /\ OnePerId(page) /\ Cardinality(page) <= Limit
      /\ \A i \in page : IsStored(i) /\ i.tag = v.filter
      /\ NextOf(c.filter, c.after) \in Places
    BY PageType
<1>2. v \in Views /\ OnePerId(v.items) /\ Cardinality(v.items) <= v.window
    BY DEF WellFormed
<1>3. /\ paged \in Views /\ paged.items = v.items /\ SamePages(paged, v)
      /\ paged.answered = v.answered
    BY <1>1, <1>2 DEF Views, SamePages
<1>4. Answered(c, v) = IF c.flush THEN Settled(first) ELSE Settled(Applied(paged, page, {}, {}))
    BY <1>3 DEF Answered
<1> HIDE DEF paged
<1>5. CASE c.flush
  <2>1. empty \in BOOLEAN /\ (v.answered \/ ~empty) \in BOOLEAN
      BY DEF Unloaded
  <2> HIDE DEF empty, page
  <2>2. first \in Views /\ first.items = page /\ SamePages(first, v)
      BY <1>1, <1>3, <2>1 DEF Views, SamePages
  <2> HIDE DEF first
  <2>3. Settled(first) \in Views /\ Alike(Settled(first), first)
      BY <2>2, SettledKeeps
  <2>4. Cardinality(page) <= v.window
    <3>1. IsFiniteSet(page) /\ Cardinality(page) \in Nat
        BY <1>1, OnceIsFinite, FS_CardinalityType
    <3> QED
        BY <1>1, <1>2, <3>1, CollectionBoundsAssumption DEF Views
  <2> QED
      BY <1>1, <1>4, <1>5, <2>2, <2>3, <2>4 DEF WellFormed, SamePages, Alike
<1>6. CASE ~c.flush
  <2> DEFINE w == Applied(paged, page, {}, {})
  <2>1. {} \in SUBSET Items /\ {} \in SUBSET Ids /\ OnePerId(page \cup {})
      BY <1>1 DEF OnePerId
  <2>2. OnePerId(paged.items) /\ Cardinality(paged.items) <= paged.window
      BY <1>2, <1>3 DEF SamePages
  <2> HIDE DEF page
  <2>3. Shows(w, paged, page, {}, {})
      BY <1>1, <1>3, <2>1, <2>2, AppliedShows
  <2> HIDE DEF w
  <2>4. Settled(w) \in Views /\ Alike(Settled(w), w)
      BY <2>3, SettledKeeps DEF Shows
  <2>5. Answered(c, v) = Settled(w)
      BY <1>4, <1>6 DEF w
  <2> QED
      BY <1>1, <1>3, <2>3, <2>4, <2>5 DEF Shows, WellFormed, SamePages, Alike
<1> QED
    BY <1>5, <1>6

-----------------------------------------------------------------------------
(* Broadcasts about a document, in the order in which they are on their way *)

CastRecord ==
    [from : {"query", "realtime"}, added : SUBSET Items, modified : SUBSET Items, removed : SUBSET Ids]

About(cast, d) == d \in cast.removed \/ \E i \in cast.added \cup cast.modified : i.id = d
Adds(cast, d) == \E i \in cast.added : i.id = d

\* What a broadcast says of the document is what there is.
Says(cast, d, data) ==
    /\ d \in cast.removed => data = Absent
    /\ \A i \in cast.added \cup cast.modified : i.id = d => i = Item(d, data) /\ data # Absent

\* None is about the document; the last one that is; the first one; and one after another.
Silent(s, d) == \A k \in DOMAIN s : ~About(s[k], d)
Latest(s, k, d) == k \in DOMAIN s /\ About(s[k], d) /\ \A l \in DOMAIN s : l > k => ~About(s[l], d)
Earliest(s, k, d) == k \in DOMAIN s /\ About(s[k], d) /\ \A l \in DOMAIN s : l < k => ~About(s[l], d)
Successive(s, j, k, d) ==
    /\ j \in DOMAIN s /\ k \in DOMAIN s /\ j < k
    /\ About(s[j], d) /\ About(s[k], d)
    /\ \A l \in DOMAIN s : j < l /\ l < k => ~About(s[l], d)

\* When the first of them arrives.
LEMMA TailTells ==
    ASSUME NEW s \in Seq(CastRecord), s # <<>>, NEW d
    PROVE  /\ Silent(s, d) => Silent(Tail(s), d)
           /\ Silent(Tail(s), d) /\ ~About(Head(s), d) => Silent(s, d)
           /\ Silent(Tail(s), d) /\ About(Head(s), d) => Latest(s, 1, d) /\ Earliest(s, 1, d)
           /\ \A k \in DOMAIN Tail(s) :
                 /\ k + 1 \in DOMAIN s /\ Tail(s)[k] = s[k + 1]
                 /\ Latest(Tail(s), k, d) => Latest(s, k + 1, d)
                 /\ Earliest(Tail(s), k, d) /\ ~About(Head(s), d) => Earliest(s, k + 1, d)
                 /\ Earliest(Tail(s), k, d) /\ About(Head(s), d) => Successive(s, 1, k + 1, d)
                 /\ \A j \in DOMAIN Tail(s) : Successive(Tail(s), j, k, d) => Successive(s, j + 1, k + 1, d)
<1> DEFINE t == Tail(s)
<1>1. /\ DOMAIN s = 1..Len(s) /\ Len(s) \in Nat /\ Len(s) >= 1
      /\ DOMAIN t = 1..(Len(s) - 1) /\ \A k \in DOMAIN t : t[k] = s[k + 1]
      /\ Head(s) = s[1]
    OBVIOUS
<1> HIDE DEF t
<1>2. \A l \in DOMAIN s : l # 1 => l - 1 \in DOMAIN t /\ s[l] = t[l - 1]
    BY <1>1
<1>3. Silent(s, d) => Silent(t, d)
    BY <1>1 DEF Silent
<1>4. Silent(t, d) /\ ~About(s[1], d) => Silent(s, d)
    BY <1>1, <1>2 DEF Silent
<1>5. Silent(t, d) /\ About(s[1], d) => Latest(s, 1, d) /\ Earliest(s, 1, d)
    BY <1>1, <1>2 DEF Silent, Latest, Earliest
<1>6. ASSUME NEW k \in DOMAIN t
      PROVE  /\ k + 1 \in DOMAIN s /\ t[k] = s[k + 1]
             /\ Latest(t, k, d) => Latest(s, k + 1, d)
             /\ Earliest(t, k, d) /\ ~About(s[1], d) => Earliest(s, k + 1, d)
             /\ Earliest(t, k, d) /\ About(s[1], d) => Successive(s, 1, k + 1, d)
             /\ \A j \in DOMAIN t : Successive(t, j, k, d) => Successive(s, j + 1, k + 1, d)
  <2>1. k + 1 \in DOMAIN s /\ t[k] = s[k + 1]
      BY <1>1
  <2>2. Latest(t, k, d) => Latest(s, k + 1, d)
      BY <1>1, <1>2, <2>1 DEF Latest
  <2>3. Earliest(t, k, d) /\ ~About(s[1], d) => Earliest(s, k + 1, d)
      BY <1>1, <1>2, <2>1 DEF Earliest
  <2>4. Earliest(t, k, d) /\ About(s[1], d) => Successive(s, 1, k + 1, d)
      BY <1>1, <1>2, <2>1 DEF Earliest, Successive
  <2>5. \A j \in DOMAIN t : Successive(t, j, k, d) => Successive(s, j + 1, k + 1, d)
      BY <1>1, <1>2, <2>1 DEF Successive
  <2> QED
      BY <2>1, <2>2, <2>3, <2>4, <2>5
<1> QED
    BY <1>1, <1>3, <1>4, <1>5, <1>6 DEF t

\* When others follow, at most one of them about the document.
OnceAbout(t, d) == \A l, m \in DOMAIN t : About(t[l], d) /\ About(t[m], d) => l = m

LEMMA MoreTell ==
    ASSUME NEW s \in Seq(CastRecord), NEW t \in Seq(CastRecord), NEW d, OnceAbout(t, d)
    PROVE  /\ Silent(s \o t, d) => Silent(s, d) /\ Silent(t, d)
           /\ \A k \in DOMAIN (s \o t) :
                 /\ \/ k \in DOMAIN s /\ (s \o t)[k] = s[k]
                    \/ k - Len(s) \in DOMAIN t /\ (s \o t)[k] = t[k - Len(s)] /\ k > Len(s)
                 /\ Silent(t, d) /\ Latest(s \o t, k, d) => Latest(s, k, d) /\ (s \o t)[k] = s[k]
                 /\ Silent(t, d) /\ Earliest(s \o t, k, d) => Earliest(s, k, d)
                 /\ ~Silent(t, d) /\ Latest(s \o t, k, d) =>
                       k - Len(s) \in DOMAIN t /\ (s \o t)[k] = t[k - Len(s)] /\ k > Len(s)
                 /\ Earliest(s \o t, k, d) /\ k > Len(s) => Silent(s, d)
                 /\ \A j \in DOMAIN (s \o t) : Successive(s \o t, j, k, d) =>
                       /\ j \in DOMAIN s /\ (s \o t)[j] = s[j]
                       /\ k \in DOMAIN s => Successive(s, j, k, d)
                       /\ k > Len(s) => Latest(s, j, d)
<1> DEFINE u == s \o t
<1>1. /\ DOMAIN s = 1..Len(s) /\ DOMAIN t = 1..Len(t) /\ Len(s) \in Nat /\ Len(t) \in Nat
      /\ DOMAIN u = 1..(Len(s) + Len(t))
      /\ \A k \in DOMAIN s : k \in DOMAIN u /\ u[k] = s[k]
      /\ \A k \in DOMAIN t : k + Len(s) \in DOMAIN u /\ u[k + Len(s)] = t[k]
    OBVIOUS
<1> HIDE DEF u
<1>2. Silent(u, d) => Silent(s, d) /\ Silent(t, d)
  <2>1. Silent(u, d) => Silent(s, d)
      BY <1>1 DEF Silent
  <2>2. ASSUME Silent(u, d), NEW k \in DOMAIN t
        PROVE  ~About(t[k], d)
    <3>1. k + Len(s) \in DOMAIN u /\ u[k + Len(s)] = t[k]
        BY <1>1
    <3> QED
        BY <2>2, <3>1 DEF Silent
  <2> QED
      BY <2>1, <2>2 DEF Silent
<1>3. ASSUME NEW k \in DOMAIN u
      PROVE  /\ \/ k \in DOMAIN s /\ u[k] = s[k]
                \/ k - Len(s) \in DOMAIN t /\ u[k] = t[k - Len(s)] /\ k > Len(s)
             /\ k \in DOMAIN s <=> ~(k > Len(s))
    BY <1>1
<1>4. ASSUME NEW k \in DOMAIN u, Silent(t, d)
      PROVE  /\ Latest(u, k, d) => Latest(s, k, d) /\ u[k] = s[k]
             /\ Earliest(u, k, d) => Earliest(s, k, d)
  <2>1. About(u[k], d) => k \in DOMAIN s /\ u[k] = s[k]
      BY <1>3, <1>4 DEF Silent
  <2> QED
      BY <1>1, <2>1 DEF Latest, Earliest
<1>5. ASSUME NEW k \in DOMAIN u, ~Silent(t, d), Latest(u, k, d)
      PROVE  k - Len(s) \in DOMAIN t /\ u[k] = t[k - Len(s)] /\ k > Len(s)
  <2>1. PICK m \in DOMAIN t : About(t[m], d)
      BY <1>5 DEF Silent
  <2>2. m + Len(s) \in DOMAIN u /\ About(u[m + Len(s)], d)
      BY <1>1, <2>1
  <2>3. ~(m + Len(s) > k)
      BY <1>5, <2>2 DEF Latest
  <2>4. k > Len(s)
      BY <1>1, <2>3
  <2> QED
      BY <1>1, <1>3, <2>4
<1>6. ASSUME NEW k \in DOMAIN u, Earliest(u, k, d), k > Len(s)
      PROVE  Silent(s, d)
    BY <1>1, <1>6 DEF Earliest, Silent
<1>7. ASSUME NEW k \in DOMAIN u, NEW j \in DOMAIN u, Successive(u, j, k, d)
      PROVE  /\ j \in DOMAIN s /\ u[j] = s[j]
             /\ k \in DOMAIN s => Successive(s, j, k, d)
             /\ k > Len(s) => Latest(s, j, d)
  <2>1. j < k /\ About(u[j], d) /\ About(u[k], d) /\ \A l \in DOMAIN u : j < l /\ l < k => ~About(u[l], d)
      BY <1>7 DEF Successive
  <2>2. j \in DOMAIN s /\ u[j] = s[j]
    <3>1. CASE k \in DOMAIN s
        BY <1>1, <2>1, <3>1
    <3>2. CASE k > Len(s) /\ j > Len(s)
      <4>1. /\ k - Len(s) \in DOMAIN t /\ u[k] = t[k - Len(s)]
            /\ j - Len(s) \in DOMAIN t /\ u[j] = t[j - Len(s)]
          BY <1>1, <1>3, <3>2
      <4>2. k - Len(s) = j - Len(s)
          BY <2>1, <4>1 DEF OnceAbout
      <4> QED
          BY <1>1, <2>1, <4>2
    <3> QED
        BY <1>1, <1>3, <3>1, <3>2
  <2>3. k \in DOMAIN s => Successive(s, j, k, d)
      BY <1>1, <2>1, <2>2 DEF Successive
  <2>4. k > Len(s) => Latest(s, j, d)
      BY <1>1, <2>1, <2>2 DEF Latest
  <2> QED
      BY <2>2, <2>3, <2>4
<1> QED
    BY <1>2, <1>3, <1>4, <1>5, <1>6, <1>7 DEF u

-----------------------------------------------------------------------------
(* The inductive invariant *)

\* Of two broadcasts about a document the later one adds it only if the earlier one
\* removed it.
Turns ==
    \A d \in Ids : \A j, k \in DOMAIN casts :
        Successive(casts, j, k, d) /\ Adds(casts[k], d) => d \in casts[j].removed

\* What the list shows of a document is what the device holds, or nothing is shown that an
\* `added` would leave as it is.
Right(d) == \A i \in view.items : i.id = d => IsStored(i) /\ i.tag = view.filter
Welcome(d) == store[d].tag = view.filter \/ ~On(view, d)

\* The list is right, or the last broadcast that is on its way makes it so.
Heard(d) ==
    /\ Silent(casts, d) => Right(d)
    /\ \A k \in DOMAIN casts : Latest(casts, k, d) =>
          /\ Says(casts[k], d, store[d])
          /\ Earliest(casts, k, d) /\ Adds(casts[k], d) => Welcome(d)
HeardOfAll == \A d \in Ids : ~Delayed(d) => Heard(d)

\* So does an `added` that AddLock holds back, which comes after all there is.
HeldBack(d) ==
    /\ Silent(casts, d) => Welcome(d)
    /\ \A k \in DOMAIN casts : Latest(casts, k, d) => d \in casts[k].removed
Waits ==
    \A m \in DOMAIN delayed :
        LET d == delayed[m].id
        IN  /\ IsStored(delayed[m]) /\ d \notin remote /\ HeldBack(d)
            /\ \A l \in DOMAIN delayed : delayed[l].id = d => l = m

\* Of what only the server has nothing is on its way.
RemoteIsSilent == \A d \in remote : store[d] = Absent /\ Silent(casts, d) /\ ~Delayed(d)

ScreenIInv == Turns /\ HeardOfAll /\ Waits /\ RemoteIsSilent

\* The types, with those of what is on its way.
CallRecord ==
    [flush : BOOLEAN, filter : Tags, after : Places, phase : {"asked", "extending", "extended"}]
CastOK(c) ==
    /\ c.added = {} \/ c.modified = {}
    /\ OnePerId(c.added \cup c.modified)
Lefts == [queries : Nat, more : 0..MaxMore, writes : Nat, fails : Nat]
ListTypes ==
    /\ WellFormed(view)
    /\ \E k \in 1..(MaxMore + 1 - left.more) : view.window = Limit * k
    /\ view.filter = None => view.items = {} /\ view.next = 0 /\ ~view.asked
    /\ left \in Lefts
QueueTypes ==
    /\ calls \in Seq(CallRecord) /\ \A k \in DOMAIN calls : calls[k].filter = view.filter
    /\ casts \in Seq(CastRecord) /\ \A k \in DOMAIN casts : CastOK(casts[k])
    /\ delayed \in Seq(Items) /\ locked \in BOOLEAN /\ (~locked => delayed = <<>>)
DeviceTypes ==
    /\ store \in Stores /\ remote \subseteq Ids
    /\ scope \in {"unknown", "loading", "loaded", "partial", "complete"}
ListIInv == ListTypes /\ QueueTypes /\ DeviceTypes /\ ScreenIInv

-----------------------------------------------------------------------------
(* What keeps the list on the way to what the device holds *)

\* A step of the list alone: what it shows is what it showed, or comes from the device.
LEMMA ListMoves ==
    ASSUME ScreenIInv, UNCHANGED <<casts, store, remote, delayed>>,
           view'.filter = view.filter \/ view'.items = {},
           \A i \in view'.items : i \in view.items \/ (IsStored(i) /\ i.tag = view.filter)
    PROVE  ScreenIInv'
<1>1. ASSUME NEW d
      PROVE  (Right(d) => Right(d)') /\ (Welcome(d) => Welcome(d)')
    BY DEF Right, Welcome, On, IsStored, Item
<1>2. HeardOfAll'
  <2> SUFFICES ASSUME NEW d \in Ids, ~Delayed(d)
               PROVE  Heard(d)'
      BY DEF HeardOfAll, Delayed
  <2>1. Heard(d)
      BY DEF ScreenIInv, HeardOfAll
  <2> QED
      BY <1>1, <2>1 DEF Heard
<1>3. Waits'
  <2>1. ASSUME NEW m \in DOMAIN delayed
        PROVE  HeldBack(delayed[m].id)'
    <3>1. HeldBack(delayed[m].id)
        BY DEF ScreenIInv, Waits
    <3> QED
        BY <1>1, <3>1 DEF HeldBack
  <2> QED
      BY <2>1 DEF ScreenIInv, Waits, IsStored
<1>4. Turns' /\ RemoteIsSilent'
    BY DEF ScreenIInv, Turns, RemoteIsSilent, Delayed
<1> QED
    BY <1>2, <1>3, <1>4 DEF ScreenIInv

\* More broadcasts start on their way. They say what there is now, and what they add was
\* removed before, or the list takes it.
LEMMA MoreCasts ==
    ASSUME ScreenIInv, casts \in Seq(CastRecord), delayed \in Seq(Items), remote \subseteq Ids,
           NEW more \in Seq(CastRecord), casts' = casts \o more,
           view'.items = view.items, view'.filter = view.filter, remote' \subseteq remote,
           \A d \in Ids : OnceAbout(more, d),
           \A d \in Ids : Silent(more, d) => store'[d] = store[d],
           \A d \in Ids : \A m \in DOMAIN more : About(more[m], d) =>
               /\ d \notin remote' /\ Says(more[m], d, store'[d])
               /\ Adds(more[m], d) =>
                     /\ Silent(casts, d) => Welcome(d)'
                     /\ \A k \in DOMAIN casts : Latest(casts, k, d) => d \in casts[k].removed,
           \/ delayed' = delayed /\ \A d \in Ids : Delayed(d) => Silent(more, d)
           \/ delayed' = <<>> /\ \A d \in Ids : Delayed(d) => ~Silent(more, d)
    PROVE  ScreenIInv'
<1> DEFINE n == Len(casts)
<1>0. n \in Nat /\ DOMAIN casts = 1..n
    OBVIOUS
<1>1. ASSUME NEW d \in Ids
      PROVE  /\ Silent(casts', d) => Silent(casts, d) /\ Silent(more, d)
             /\ \A k \in DOMAIN casts' :
                   /\ \/ k \in DOMAIN casts /\ casts'[k] = casts[k]
                      \/ k - n \in DOMAIN more /\ casts'[k] = more[k - n] /\ k > n
                   /\ Silent(more, d) /\ Latest(casts', k, d) => Latest(casts, k, d) /\ casts'[k] = casts[k]
                   /\ Silent(more, d) /\ Earliest(casts', k, d) => Earliest(casts, k, d)
                   /\ ~Silent(more, d) /\ Latest(casts', k, d) =>
                         k - n \in DOMAIN more /\ casts'[k] = more[k - n] /\ k > n
                   /\ Earliest(casts', k, d) /\ k > n => Silent(casts, d)
                   /\ \A j \in DOMAIN casts' : Successive(casts', j, k, d) =>
                         /\ j \in DOMAIN casts /\ casts'[j] = casts[j]
                         /\ k \in DOMAIN casts => Successive(casts, j, k, d)
                         /\ k > n => Latest(casts, j, d)
    BY MoreTell
<1> HIDE DEF n
<1>2. \A k \in DOMAIN casts, d \in Ids : Latest(casts, k, d) => k \in DOMAIN casts'
  <2>1. DOMAIN casts \subseteq DOMAIN casts'
      OBVIOUS
  <2> QED
      BY <2>1
<1>3. ASSUME NEW d \in Ids, Silent(more, d)
      PROVE  (Right(d) => Right(d)') /\ (Welcome(d) => Welcome(d)')
    BY <1>3 DEF Right, Welcome, On, IsStored, Item
<1>4. ASSUME NEW d \in Ids, ~Delayed(d)'
      PROVE  Heard(d)'
  <2>1. CASE Silent(more, d)
    <3>1. ~Delayed(d)
        BY <1>4, <2>1 DEF Delayed
    <3>2. Heard(d)
        BY <3>1 DEF ScreenIInv, HeardOfAll
    <3>3. store'[d] = store[d]
        BY <2>1
    <3>4. Silent(casts', d) => Right(d)'
        BY <1>1, <1>3, <2>1, <3>2 DEF Heard
    <3>5. ASSUME NEW k \in DOMAIN casts', Latest(casts', k, d)
          PROVE  /\ Says(casts'[k], d, store'[d])
                 /\ Earliest(casts', k, d) /\ Adds(casts'[k], d) => Welcome(d)'
      <4>1. k \in DOMAIN casts /\ Latest(casts, k, d) /\ casts'[k] = casts[k]
            /\ (Earliest(casts', k, d) => Earliest(casts, k, d))
          BY <1>1, <2>1, <3>5 DEF Latest
      <4> QED
          BY <1>3, <2>1, <3>2, <3>3, <4>1 DEF Heard
    <3> QED
        BY <3>4, <3>5 DEF Heard
  <2>2. CASE ~Silent(more, d)
    <3>1. ~Silent(casts', d)
        BY <1>1, <2>2
    <3>2. ASSUME NEW k \in DOMAIN casts', Latest(casts', k, d)
          PROVE  /\ Says(casts'[k], d, store'[d])
                 /\ Earliest(casts', k, d) /\ Adds(casts'[k], d) => Welcome(d)'
      <4>1. k - n \in DOMAIN more /\ casts'[k] = more[k - n] /\ k > n
            /\ (Earliest(casts', k, d) => Silent(casts, d))
          BY <1>1, <2>2, <3>2
      <4>2. About(more[k - n], d)
          BY <3>2, <4>1 DEF Latest
      <4> QED
          BY <4>1, <4>2
    <3> QED
        BY <3>1, <3>2 DEF Heard
  <2> QED
      BY <2>1, <2>2
<1>5. HeardOfAll'
    BY <1>4 DEF HeardOfAll
<1>6. Waits'
  <2>1. CASE delayed' = <<>>
      BY <2>1 DEF Waits
  <2>2. CASE delayed' = delayed /\ \A d \in Ids : Delayed(d) => Silent(more, d)
    <3> SUFFICES ASSUME NEW m \in DOMAIN delayed, NEW d, d = delayed[m].id
                 PROVE  /\ IsStored(delayed[m])' /\ d \notin remote' /\ HeldBack(d)'
                        /\ \A l \in DOMAIN delayed : delayed[l].id = d => l = m
        BY <2>2 DEF Waits
    <3>1. d \in Ids /\ Silent(more, d)
      <4>1. delayed[m] \in Items /\ Delayed(d)
          BY DEF Delayed
      <4> QED
          BY <2>2, <4>1 DEF Items
    <3>2. /\ IsStored(delayed[m]) /\ d \notin remote /\ HeldBack(d)
          /\ \A l \in DOMAIN delayed : delayed[l].id = d => l = m
        BY DEF ScreenIInv, Waits
    <3>3. IsStored(delayed[m])'
        BY <2>2, <3>1, <3>2 DEF IsStored, Item
    <3>4. Silent(casts', d) => Welcome(d)'
        BY <1>1, <1>3, <3>1, <3>2 DEF HeldBack
    <3>5. ASSUME NEW k \in DOMAIN casts', Latest(casts', k, d)
          PROVE  d \in casts'[k].removed
      <4>1. Latest(casts, k, d) /\ casts'[k] = casts[k]
          BY <1>1, <3>1, <3>5
      <4>2. k \in DOMAIN casts
          BY <4>1 DEF Latest
      <4> QED
          BY <3>2, <4>1, <4>2 DEF HeldBack
    <3> QED
        BY <3>2, <3>3, <3>4, <3>5 DEF HeldBack
  <2> QED
      BY <2>1, <2>2
<1>7. Turns'
  <2> SUFFICES ASSUME NEW d \in Ids, NEW j \in DOMAIN casts', NEW k \in DOMAIN casts',
                      Successive(casts', j, k, d), Adds(casts'[k], d)
               PROVE  d \in casts'[j].removed
      BY DEF Turns
  <2>1. j \in DOMAIN casts /\ casts'[j] = casts[j]
      BY <1>1
  <2>2. CASE k \in DOMAIN casts /\ casts'[k] = casts[k]
      BY <1>1, <2>1, <2>2 DEF ScreenIInv, Turns
  <2>3. CASE k - n \in DOMAIN more /\ casts'[k] = more[k - n] /\ k > n
    <3>1. Latest(casts, j, d)
        BY <1>1, <2>3
    <3>2. About(more[k - n], d) /\ Adds(more[k - n], d)
        BY <2>3 DEF Successive
    <3> QED
        BY <2>1, <2>3, <3>1, <3>2
  <2> QED
      BY <1>1, <2>2, <2>3
<1>8. RemoteIsSilent'
  <2> SUFFICES ASSUME NEW d \in remote'
               PROVE  store'[d] = Absent /\ Silent(casts', d) /\ ~Delayed(d)'
      BY DEF RemoteIsSilent
  <2>1. d \in Ids /\ store[d] = Absent /\ Silent(casts, d) /\ ~Delayed(d)
      BY DEF ScreenIInv, RemoteIsSilent
  <2>2. Silent(more, d)
      BY <2>1 DEF Silent
  <2>3. Silent(casts', d)
      BY <1>1, <2>1, <2>2 DEF Silent
  <2>4. ~Delayed(d)'
      BY <2>1 DEF Delayed
  <2> QED
      BY <2>1, <2>2, <2>3, <2>4
<1> QED
    BY <1>5, <1>6, <1>7, <1>8 DEF ScreenIInv

\* What the list takes from the first broadcast.
Joining(cast) == {i \in cast.added : i.tag = view.filter}
Staying(cast) == {i \in cast.modified : i.id \notin Leaving(cast.modified)}
Parting(cast) == cast.removed \cup Leaving(cast.modified)

LEMMA DeliverShows ==
    ASSUME ListTypes, QueueTypes, Deliver
    PROVE  /\ Head(casts) \in CastRecord /\ CastOK(Head(casts)) /\ casts' = Tail(casts)
           /\ Shows(view', view, Joining(Head(casts)), Staying(Head(casts)), Parting(Head(casts)))
<1>1. casts \in Seq(CastRecord) /\ casts # <<>> /\ 1 \in DOMAIN casts /\ Head(casts) = casts[1]
    BY DEF Deliver, QueueTypes
<1>2. PICK cast \in CastRecord : cast = Head(casts) /\ CastOK(cast)
    BY <1>1 DEF QueueTypes
<1>3. /\ Joining(cast) \in SUBSET Items /\ Staying(cast) \in SUBSET Items
      /\ Parting(cast) \in SUBSET Ids /\ cast.from \in {"query", "realtime"}
    BY DEF Joining, Staying, Parting, Leaving, CastRecord, Items
<1>4. OnePerId(Joining(cast) \cup Staying(cast))
    BY <1>2 DEF CastOK, OnePerId, Joining, Staying
<1>5. view \in Views /\ OnePerId(view.items) /\ Cardinality(view.items) <= view.window
    BY DEF ListTypes, WellFormed
<1>6. view' = Received(view, cast.from, Joining(cast), Staying(cast), Parting(cast))
    BY <1>2 DEF Deliver, Joining, Staying, Parting
<1>7. Shows(view', view, Joining(cast), Staying(cast), Parting(cast))
    BY <1>3, <1>4, <1>5, <1>6, ReceivedShows
<1> QED
    BY <1>2, <1>7 DEF Deliver

\* What that makes of a document.
LEMMA DeliverSays ==
    ASSUME NEW cast \in CastRecord, CastOK(cast), NEW d \in Ids,
           Shows(view', view, Joining(cast), Staying(cast), Parting(cast)), UNCHANGED store
    PROVE  /\ ~About(cast, d) => (Right(d) => Right(d)') /\ (Welcome(d) => Welcome(d)')
           /\ d \in cast.removed => ~On(view', d)
           /\ /\ About(cast, d) /\ Says(cast, d, store[d])
              /\ Adds(cast, d) => Welcome(d)
              => Right(d)'
<1>1. /\ view'.filter = view.filter
      /\ \A i \in view'.items :
            /\ i.id \notin Parting(cast)
            /\ \/ i \in Joining(cast) \cup Staying(cast)
               \/ i \in view.items /\ \A c \in Joining(cast) \cup Staying(cast) : c.id # i.id
    BY DEF Shows
<1>2. ASSUME ~About(cast, d), NEW i \in view'.items, i.id = d
      PROVE  i \in view.items
    BY <1>1, <1>2 DEF About, Joining, Staying
<1>3. ~About(cast, d) => (Right(d) => Right(d)') /\ (Welcome(d) => Welcome(d)')
    BY <1>1, <1>2 DEF Right, Welcome, On, IsStored, Item
<1>4. d \in cast.removed => ~On(view', d)
    BY <1>1 DEF Parting, On
<1>5. ASSUME About(cast, d), Says(cast, d, store[d]), Adds(cast, d) => Welcome(d),
             NEW i \in view'.items, i.id = d
      PROVE  IsStored(i) /\ i.tag = view.filter
  <2>1. d \notin cast.removed
      BY <1>1, <1>5 DEF Parting
  <2>2. PICK c \in cast.added \cup cast.modified : c.id = d
      BY <1>5, <2>1 DEF About
  <2>3. c = Item(d, store[d]) /\ c.tag = store[d].tag
      BY <1>5, <2>2 DEF Says, Item
  <2>4. \A a \in cast.added \cup cast.modified : a.id = d => a = c
      BY <2>2 DEF CastOK, OnePerId
  <2>5. i \in Joining(cast) \cup Staying(cast) => i = c
      BY <1>5, <2>4 DEF Joining, Staying
  <2>6. CASE c \in cast.modified
    <3>1. store[d].tag = view.filter
      <4>1. d \notin Leaving(cast.modified)
          BY <1>1, <1>5 DEF Parting
      <4> QED
          BY <2>2, <2>6, <4>1 DEF Leaving
    <3>2. c \in Staying(cast)
        BY <2>2, <2>6, <3>1, <2>4 DEF Staying, Leaving
    <3>3. i = c
        BY <1>1, <1>5, <2>2, <2>5, <3>2
    <3> QED
        BY <1>5, <2>3, <3>1, <3>3 DEF IsStored
  <2>7. CASE c \in cast.added
    <3>1. CASE c.tag = view.filter
      <4>1. c \in Joining(cast)
          BY <2>7, <3>1 DEF Joining
      <4>2. i = c
          BY <1>1, <1>5, <2>2, <2>5, <4>1
      <4> QED
          BY <1>5, <2>3, <3>1, <4>2 DEF IsStored
    <3>2. CASE c.tag # view.filter
      <4>1. ~On(view, d)
          BY <1>5, <2>2, <2>3, <2>7, <3>2 DEF Adds, Welcome
      <4>2. i \in Joining(cast) \cup Staying(cast)
          BY <1>1, <1>5, <4>1 DEF On
      <4>3. i = c /\ cast.modified = {}
          BY <2>5, <2>7, <4>2 DEF CastOK
      <4> QED
          BY <3>2, <4>2, <4>3 DEF Joining, Staying
    <3> QED
        BY <3>1, <3>2
  <2> QED
      BY <2>2, <2>6, <2>7
<1>6. /\ About(cast, d) /\ Says(cast, d, store[d])
      /\ Adds(cast, d) => Welcome(d)
      => Right(d)'
    BY <1>1, <1>5 DEF Right, IsStored, Item
<1> QED
    BY <1>3, <1>4, <1>6

\* A broadcast reaches the list.
LEMMA DeliverKeeps ==
    ASSUME ListIInv, Deliver
    PROVE  ScreenIInv'
<1>0. ScreenIInv /\ QueueTypes /\ DeviceTypes
    BY DEF ListIInv
<1>1. PICK cast \in CastRecord :
          /\ cast = Head(casts) /\ CastOK(cast) /\ casts' = Tail(casts)
          /\ Shows(view', view, Joining(cast), Staying(cast), Parting(cast))
  <2>1. ListTypes
      BY DEF ListIInv
  <2> QED
      BY <1>0, <2>1, DeliverShows
<1>2. casts \in Seq(CastRecord) /\ casts # <<>> /\ 1 \in DOMAIN casts /\ cast = casts[1]
    BY <1>0, <1>1 DEF QueueTypes, Deliver
<1>3. UNCHANGED <<store, remote, delayed>>
    BY DEF Deliver
<1>4. ASSUME NEW d \in Ids
      PROVE  /\ ~About(cast, d) => (Right(d) => Right(d)') /\ (Welcome(d) => Welcome(d)')
             /\ d \in cast.removed => ~On(view', d)
             /\ /\ About(cast, d) /\ Says(cast, d, store[d])
                /\ Adds(cast, d) => Welcome(d)
                => Right(d)'
    BY <1>1, <1>3, DeliverSays
<1>5. ASSUME NEW d \in Ids
      PROVE  /\ Silent(casts, d) => Silent(casts', d)
             /\ Silent(casts', d) /\ ~About(cast, d) => Silent(casts, d)
             /\ Silent(casts', d) /\ About(cast, d) => Latest(casts, 1, d) /\ Earliest(casts, 1, d)
             /\ \A k \in DOMAIN casts' :
                   /\ k + 1 \in DOMAIN casts /\ casts'[k] = casts[k + 1]
                   /\ Latest(casts', k, d) => Latest(casts, k + 1, d)
                   /\ Earliest(casts', k, d) /\ ~About(cast, d) => Earliest(casts, k + 1, d)
                   /\ Earliest(casts', k, d) /\ About(cast, d) => Successive(casts, 1, k + 1, d)
                   /\ \A j \in DOMAIN casts' : Successive(casts', j, k, d) => Successive(casts, j + 1, k + 1, d)
    BY <1>1, <1>2, TailTells
<1>6. ASSUME NEW d \in Ids, ~Delayed(d)
      PROVE  Heard(d)'
  <2>1. Heard(d)
      BY <1>0, <1>6 DEF ScreenIInv, HeardOfAll
  <2>2. ASSUME Silent(casts', d)
        PROVE  Right(d)'
    <3>1. CASE ~About(cast, d)
        BY <1>4, <1>5, <2>1, <2>2, <3>1 DEF Heard
    <3>2. CASE About(cast, d)
      <4>1. Latest(casts, 1, d) /\ Earliest(casts, 1, d)
          BY <1>5, <2>2, <3>2
      <4>2. Says(cast, d, store[d]) /\ (Adds(cast, d) => Welcome(d))
          BY <1>2, <2>1, <4>1 DEF Heard
      <4> QED
          BY <1>4, <3>2, <4>2
    <3> QED
        BY <3>1, <3>2
  <2>3. ASSUME NEW k \in DOMAIN casts', Latest(casts', k, d)
        PROVE  /\ Says(casts'[k], d, store'[d])
               /\ Earliest(casts', k, d) /\ Adds(casts'[k], d) => Welcome(d)'
    <3>1. k + 1 \in DOMAIN casts /\ casts'[k] = casts[k + 1] /\ Latest(casts, k + 1, d)
        BY <1>5, <2>3
    <3>2. Says(casts'[k], d, store'[d])
        BY <1>3, <2>1, <3>1 DEF Heard
    <3>3. ASSUME Earliest(casts', k, d), Adds(casts'[k], d)
          PROVE  Welcome(d)'
      <4>1. CASE ~About(cast, d)
        <5>1. Earliest(casts, k + 1, d)
            BY <1>5, <3>3, <4>1
        <5>2. Welcome(d)
            BY <2>1, <3>1, <3>3, <5>1 DEF Heard
        <5> QED
            BY <1>4, <4>1, <5>2
      <4>2. CASE About(cast, d)
        <5>1. Successive(casts, 1, k + 1, d)
            BY <1>5, <3>3, <4>2
        <5>2. d \in cast.removed
            BY <1>0, <1>2, <3>1, <3>3, <5>1 DEF ScreenIInv, Turns
        <5> QED
            BY <1>4, <5>2 DEF Welcome
      <4> QED
          BY <4>1, <4>2
    <3> QED
        BY <3>2, <3>3
  <2> QED
      BY <2>2, <2>3 DEF Heard
<1>7. HeardOfAll'
    BY <1>3, <1>6 DEF HeardOfAll, Delayed
<1>8. ASSUME NEW m \in DOMAIN delayed, NEW d, d = delayed[m].id
      PROVE  HeldBack(d)'
  <2>1. d \in Ids /\ HeldBack(d)
    <3>1. delayed[m] \in Items
        BY <1>0 DEF QueueTypes
    <3> QED
        BY <1>0, <1>8, <3>1 DEF ScreenIInv, Waits, Items
  <2>2. ASSUME Silent(casts', d)
        PROVE  Welcome(d)'
    <3>1. CASE ~About(cast, d)
        BY <1>4, <1>5, <2>1, <2>2, <3>1 DEF HeldBack
    <3>2. CASE About(cast, d)
      <4>1. Latest(casts, 1, d)
          BY <1>5, <2>1, <2>2, <3>2
      <4>2. d \in cast.removed
          BY <1>2, <2>1, <4>1 DEF HeldBack
      <4> QED
          BY <1>4, <2>1, <4>2 DEF Welcome
    <3> QED
        BY <3>1, <3>2
  <2>3. ASSUME NEW k \in DOMAIN casts', Latest(casts', k, d)
        PROVE  d \in casts'[k].removed
    <3>1. k + 1 \in DOMAIN casts /\ casts'[k] = casts[k + 1] /\ Latest(casts, k + 1, d)
        BY <1>5, <2>1, <2>3
    <3> QED
        BY <2>1, <3>1 DEF HeldBack
  <2> QED
      BY <2>2, <2>3 DEF HeldBack
<1>9. Waits'
    BY <1>0, <1>3, <1>8 DEF ScreenIInv, Waits, IsStored, Item
<1>10. Turns'
  <2> SUFFICES ASSUME NEW d \in Ids, NEW j \in DOMAIN casts', NEW k \in DOMAIN casts',
                      Successive(casts', j, k, d), Adds(casts'[k], d)
               PROVE  d \in casts'[j].removed
      BY DEF Turns
  <2>1. /\ k + 1 \in DOMAIN casts /\ casts'[k] = casts[k + 1]
        /\ j + 1 \in DOMAIN casts /\ casts'[j] = casts[j + 1]
        /\ Successive(casts, j + 1, k + 1, d)
      BY <1>5
  <2> QED
      BY <1>0, <2>1 DEF ScreenIInv, Turns
<1>11. RemoteIsSilent'
    BY <1>0, <1>3, <1>5 DEF ScreenIInv, RemoteIsSilent, Delayed, DeviceTypes
<1> QED
    BY <1>7, <1>9, <1>10, <1>11 DEF ScreenIInv

\* A broadcast of one document is about that document.
LEMMA OneDocument ==
    ASSUME NEW i \in Items, NEW d \in Ids
    PROVE  /\ Cast({i}, {}, {}) \in CastRecord /\ CastOK(Cast({i}, {}, {}))
           /\ \A e : About(Cast({i}, {}, {}), e) <=> e = i.id
           /\ Cast({}, {i}, {}) \in CastRecord /\ CastOK(Cast({}, {i}, {}))
           /\ \A e : /\ About(Cast({}, {i}, {}), e) <=> e = i.id
                     /\ ~Adds(Cast({}, {i}, {}), e)
           /\ Cast({}, {}, {d}) \in CastRecord /\ CastOK(Cast({}, {}, {d}))
           /\ \A e : /\ About(Cast({}, {}, {d}), e) <=> e = d
                     /\ ~Adds(Cast({}, {}, {d}), e)
BY DEF Cast, CastRecord, CastOK, OnePerId, About, Adds

\* An `added` of what is not held was preceded by its removal, one of what is held finds
\* the list without it or matches the filter.
LEMMA AddIsWelcome ==
    ASSUME ScreenIInv, ListTypes, NEW d \in Ids, NEW data \in Data, ~Delayed(d),
           store \in Stores, store' = [store EXCEPT ![d] = data], view' = view,
           data.tag = view.filter \/ store[d] = Absent \/ store[d].tag # view.filter,
           store[d] # Absent => ~Pending(d)
    PROVE  /\ Silent(casts, d) => Welcome(d)'
           /\ \A k \in DOMAIN casts : Latest(casts, k, d) => d \in casts[k].removed
<1>1. Heard(d) /\ store'[d] = data
    BY DEF ScreenIInv, HeardOfAll, Stores
<1>2. ASSUME Silent(casts, d), data.tag # view.filter, NEW i \in view.items, i.id = d
      PROVE  FALSE
  <2>1. i = Item(d, store[d]) /\ i.tag = view.filter /\ i \in Items
      BY <1>1, <1>2 DEF Heard, Right, IsStored, ListTypes, WellFormed, Views
  <2>2. store[d].tag = view.filter /\ view.filter \in Tags
      BY <2>1 DEF Item, Items
  <2>3. store[d] # Absent
      BY <2>2, CollectionNoneAssumption DEF Absent
  <2> QED
      BY <1>2, <2>2, <2>3
<1>3. Silent(casts, d) => Welcome(d)'
    BY <1>1, <1>2 DEF Welcome, On
<1>4. ASSUME NEW k \in DOMAIN casts, Latest(casts, k, d)
      PROVE  d \in casts[k].removed
  <2>1. Says(casts[k], d, store[d]) /\ About(casts[k], d)
      BY <1>1, <1>4 DEF Heard, Latest
  <2>2. CASE \E i \in casts[k].added \cup casts[k].modified : i.id = d
      BY <2>1, <2>2 DEF Says, Pending
  <2> QED
      BY <2>1, <2>2 DEF About
<1> QED
    BY <1>3, <1>4

\* One broadcast about one document that changes on the device.
LEMMA OneCast ==
    ASSUME ScreenIInv, QueueTypes, DeviceTypes, NEW d \in Ids, ~Delayed(d), d \notin remote,
           NEW data \in Data \cup {Absent}, store' = [store EXCEPT ![d] = data],
           UNCHANGED <<view, remote, delayed>>,
           NEW c \in CastRecord, casts' = Append(casts, c),
           \A e : About(c, e) <=> e = d,
           Says(c, d, data),
           Adds(c, d) =>
               /\ Silent(casts, d) => Welcome(d)'
               /\ \A k \in DOMAIN casts : Latest(casts, k, d) => d \in casts[k].removed
    PROVE  ScreenIInv'
<1>0. <<c>> \in Seq(CastRecord)
    OBVIOUS
<1>1. PICK more \in Seq(CastRecord) : more = <<c>>
    BY <1>0
<1>2. DOMAIN more = {1} /\ more[1] = c /\ casts' = casts \o more
    BY <1>1 DEF QueueTypes
<1>3. \A e : OnceAbout(more, e) /\ (Silent(more, e) <=> e # d)
    BY <1>2 DEF OnceAbout, Silent
<1>4. casts \in Seq(CastRecord) /\ delayed \in Seq(Items) /\ remote \subseteq Ids /\ store'[d] = data
    BY DEF QueueTypes, DeviceTypes, Stores
<1>5. \A e \in Ids : Silent(more, e) => store'[e] = store[e]
    BY <1>3 DEF DeviceTypes, Stores
<1>6. \A e \in Ids : \A m \in DOMAIN more : About(more[m], e) =>
          /\ e \notin remote' /\ Says(more[m], e, store'[e])
          /\ Adds(more[m], e) =>
                /\ Silent(casts, e) => Welcome(e)'
                /\ \A k \in DOMAIN casts : Latest(casts, k, e) => e \in casts[k].removed
    BY <1>2, <1>4
<1>7. delayed' = delayed /\ \A e \in Ids : Delayed(e) => Silent(more, e)
    BY <1>3
<1> QED
    BY <1>2, <1>3, <1>4, <1>5, <1>6, <1>7, MoreCasts

\* What the model leaves out of the behaviours where lists are true: an `added` that
\* does not match, a change under AddLock, a query while another is not answered.
Tame == Meets \cap {"delta", "locked", "requery"} = {}

LEMMA ItemType ==
    ASSUME NEW d \in Ids, NEW data \in Data
    PROVE  /\ Item(d, data) \in Items /\ Item(d, data).id = d /\ data # Absent
           /\ data \in Data \cup {Absent}
BY CollectionNoneAssumption DEF Item, Items, Data, Absent

LEMMA AddKeeps ==
    ASSUME Tame, ListIInv, NEW d \in Ids, NEW data \in Data, Add(d, data)
    PROVE  ScreenIInv'
<1>0. ScreenIInv /\ ListTypes /\ QueueTypes /\ DeviceTypes /\ store \in Stores
    BY DEF ListIInv, DeviceTypes
<1>1. /\ d \notin remote /\ ~Delayed(d) /\ store' = [store EXCEPT ![d] = data]
      /\ UNCHANGED <<view, remote>>
      /\ data.tag = view.filter \/ store[d] = Absent \/ store[d].tag # view.filter
      /\ store[d] # Absent => ~Pending(d)
    BY DEF Add, Steady, Tame
<1>2. /\ Silent(casts, d) => Welcome(d)'
      /\ \A k \in DOMAIN casts : Latest(casts, k, d) => d \in casts[k].removed
    BY <1>0, <1>1, AddIsWelcome
<1>3. /\ Item(d, data) \in Items /\ Item(d, data).id = d /\ data # Absent
      /\ data \in Data \cup {Absent}
    BY ItemType
<1>4. CASE ~locked
  <2>1. PICK c \in CastRecord : /\ c = Cast({Item(d, data)}, {}, {})
                                /\ \A e : About(c, e) <=> e = d
    <3>1. /\ Cast({Item(d, data)}, {}, {}) \in CastRecord
          /\ \A e : About(Cast({Item(d, data)}, {}, {}), e) <=> e = Item(d, data).id
        BY <1>3, OneDocument, Zenon
    <3> QED
        BY <1>3, <3>1, Zenon
  <2>2. casts' = Append(casts, c) /\ delayed' = delayed
      BY <1>4, <2>1 DEF Add
  <2>3. Says(c, d, data)
      BY <1>3, <2>1 DEF Says, Cast
  <2> QED
      BY <1>0, <1>1, <1>2, <1>3, <2>1, <2>2, <2>3, OneCast
<1>5. CASE locked
  <2> DEFINE n == Len(delayed)
  <2>1. /\ casts' = casts /\ delayed' = Append(delayed, Item(d, data))
        /\ delayed \in Seq(Items) /\ n \in Nat /\ DOMAIN delayed = 1..n
        /\ DOMAIN delayed' = 1..(n + 1) /\ delayed'[n + 1] = Item(d, data)
        /\ \A m \in 1..n : delayed'[m] = delayed[m]
    <3>1. delayed \in Seq(Items)
        BY <1>0 DEF QueueTypes
    <3>2. casts' = casts /\ delayed' = Append(delayed, Item(d, data))
        BY <1>5 DEF Add
    <3> QED
        BY <1>3, <3>1, <3>2
  <2> HIDE DEF n
  <2>2. \A m \in 1..n : delayed[m].id # d
      BY <1>1, <2>1 DEF Delayed
  <2>3. \A e : Delayed(e)' <=> Delayed(e) \/ e = d
    <3>1. ASSUME NEW e, Delayed(e)'
          PROVE  Delayed(e) \/ e = d
        BY <1>3, <2>1, <3>1 DEF Delayed
    <3>2. ASSUME NEW e, Delayed(e)
          PROVE  Delayed(e)'
      <4>1. PICK m \in 1..n : delayed[m].id = e
          BY <2>1, <3>2 DEF Delayed
      <4>2. m \in DOMAIN delayed' /\ delayed'[m].id = e
          BY <2>1, <4>1
      <4> QED
          BY <4>2 DEF Delayed
    <3>3. Delayed(d)'
      <4>1. n + 1 \in DOMAIN delayed' /\ delayed'[n + 1].id = d
          BY <1>3, <2>1
      <4> QED
          BY <4>1 DEF Delayed
    <3> QED
        BY <3>1, <3>2, <3>3
  <2>4. \A e \in Ids : e # d => store'[e] = store[e]
      BY <1>0, <1>1 DEF Stores
  <2>5. HeardOfAll'
    <3> SUFFICES ASSUME NEW e \in Ids, ~Delayed(e), e # d
                 PROVE  Heard(e)'
        BY <2>3 DEF HeardOfAll
    <3>1. Heard(e)
        BY <1>0 DEF ScreenIInv, HeardOfAll
    <3>2. (Right(e) => Right(e)') /\ (Welcome(e) => Welcome(e)')
        BY <1>1, <2>4 DEF Right, Welcome, On, IsStored, Item
    <3> QED
        BY <2>1, <2>4, <3>1, <3>2 DEF Heard
  <2>6. Waits'
    <3> SUFFICES ASSUME NEW m \in 1..(n + 1), NEW e, e = delayed'[m].id
                 PROVE  /\ IsStored(delayed[m])' /\ e \notin remote /\ HeldBack(e)'
                        /\ \A l \in 1..(n + 1) : delayed'[l].id = e => l = m
        BY <1>1, <2>1 DEF Waits
    <3>1. CASE m = n + 1
      <4>1. e = d /\ delayed'[m] = Item(d, data) /\ store'[d] = data
          BY <1>0, <1>1, <1>3, <2>1, <3>1 DEF Stores
      <4>2. IsStored(delayed[m])'
          BY <1>3, <4>1 DEF IsStored
      <4>3. HeldBack(e)'
          BY <1>2, <2>1, <4>1 DEF HeldBack
      <4>4. \A l \in 1..(n + 1) : delayed'[l].id = e => l = m
          BY <2>1, <2>2, <3>1, <4>1
      <4> QED
          BY <1>1, <4>1, <4>2, <4>3, <4>4
    <3>2. CASE m \in 1..n
      <4>1. e = delayed[m].id /\ delayed'[m] = delayed[m] /\ e # d /\ e \in Ids /\ m \in DOMAIN delayed
        <5>1. delayed[m] \in Items
            BY <2>1, <3>2
        <5> QED
            BY <2>1, <2>2, <3>2, <5>1 DEF Items
      <4>2. /\ IsStored(delayed[m]) /\ e \notin remote /\ HeldBack(e)
            /\ \A l \in DOMAIN delayed : delayed[l].id = e => l = m
          BY <1>0, <4>1 DEF ScreenIInv, Waits
      <4>3. IsStored(delayed[m])'
          BY <2>4, <4>1, <4>2 DEF IsStored, Item
      <4>4. HeldBack(e)'
          BY <1>1, <2>1, <2>4, <4>1, <4>2 DEF HeldBack, Welcome, On
      <4>5. \A l \in 1..(n + 1) : delayed'[l].id = e => l = m
          BY <1>3, <2>1, <4>1, <4>2
      <4> QED
          BY <4>2, <4>3, <4>4, <4>5
    <3> QED
        BY <2>1, <3>1, <3>2
  <2>7. Turns'
      BY <1>0, <2>1 DEF ScreenIInv, Turns
  <2>8. RemoteIsSilent'
      BY <1>0, <1>1, <2>1, <2>3, <2>4 DEF ScreenIInv, RemoteIsSilent, DeviceTypes
  <2> QED
      BY <2>5, <2>6, <2>7, <2>8 DEF ScreenIInv
<1> QED
    BY <1>4, <1>5

\* A document that changes, and one that is removed.
LEMMA ChangeKeeps ==
    ASSUME Tame, ListIInv, NEW d \in Ids, NEW data \in Data, Change(d, data)
    PROVE  ScreenIInv'
<1>0. ScreenIInv /\ QueueTypes /\ DeviceTypes
    BY DEF ListIInv
<1>1. /\ ~Delayed(d) /\ store[d] # Absent /\ store' = [store EXCEPT ![d] = data]
      /\ UNCHANGED <<view, remote, delayed>>
      /\ casts' = Append(casts, Cast({}, {Item(d, data)}, {}))
    BY DEF Change, Steady, Tame
<1>2. d \notin remote
    BY <1>0, <1>1 DEF ScreenIInv, RemoteIsSilent
<1>3. /\ Item(d, data) \in Items /\ Item(d, data).id = d /\ data # Absent
      /\ data \in Data \cup {Absent}
    BY ItemType
<1>4. PICK c \in CastRecord : /\ c = Cast({}, {Item(d, data)}, {})
                              /\ \A e : (About(c, e) <=> e = d) /\ ~Adds(c, e)
  <2>1. /\ Cast({}, {Item(d, data)}, {}) \in CastRecord
        /\ \A e : /\ About(Cast({}, {Item(d, data)}, {}), e) <=> e = Item(d, data).id
                  /\ ~Adds(Cast({}, {Item(d, data)}, {}), e)
      BY <1>3, OneDocument, Zenon
  <2> QED
      BY <1>3, <2>1, Zenon
<1>5. Says(c, d, data)
    BY <1>3, <1>4 DEF Says, Cast
<1> QED
    BY <1>0, <1>1, <1>2, <1>3, <1>4, <1>5, OneCast

LEMMA RemoveKeeps ==
    ASSUME Tame, ListIInv, NEW d \in Ids, Remove(d)
    PROVE  ScreenIInv'
<1>0. ScreenIInv /\ QueueTypes /\ DeviceTypes
    BY DEF ListIInv
<1>1. /\ ~Delayed(d) /\ store[d] # Absent /\ store' = [store EXCEPT ![d] = Absent]
      /\ UNCHANGED <<view, remote, delayed>>
      /\ casts' = Append(casts, Cast({}, {}, {d}))
    BY DEF Remove, Steady, Tame
<1>2. d \notin remote
    BY <1>0, <1>1 DEF ScreenIInv, RemoteIsSilent
<1>3. Cast({}, {}, {d}) \in CastRecord /\ \A e : (About(Cast({}, {}, {d}), e) <=> e = d) /\ ~Adds(Cast({}, {}, {d}), e)
    BY DEF Cast, CastRecord, About, Adds
<1>4. PICK c \in CastRecord : c = Cast({}, {}, {d}) /\ \A e : (About(c, e) <=> e = d) /\ ~Adds(c, e)
    BY <1>3, Zenon
<1>5. PICK data \in Data \cup {Absent} : data = Absent
    OBVIOUS
<1>6. Says(c, d, data)
    BY <1>4, <1>5 DEF Says, Cast
<1> QED
    BY <1>0, <1>1, <1>2, <1>4, <1>5, <1>6, OneCast

\* The add in flight is confirmed, and what waited for it is broadcast.
LEMMA UnlockKeeps ==
    ASSUME ListIInv, Unlock
    PROVE  ScreenIInv'
<1>0. /\ ScreenIInv /\ casts \in Seq(CastRecord) /\ delayed \in Seq(Items) /\ remote \subseteq Ids
    BY DEF ListIInv, QueueTypes, DeviceTypes
<1>1. /\ UNCHANGED <<view, store, remote>> /\ delayed' = <<>>
      /\ casts' = casts \o [k \in DOMAIN delayed |-> Cast({delayed[k]}, {}, {})]
    BY DEF Unlock
<1>2. \A k \in DOMAIN delayed : delayed[k] \in Items /\ delayed[k].id \in Ids
  <2>1. \A k \in DOMAIN delayed : delayed[k] \in Items
      BY <1>0
  <2> QED
      BY <2>1 DEF Items
<1>3. [k \in DOMAIN delayed |-> Cast({delayed[k]}, {}, {})] \in Seq(CastRecord)
  <2>1. \A k \in DOMAIN delayed : Cast({delayed[k]}, {}, {}) \in CastRecord
      BY <1>2 DEF Cast, CastRecord
  <2>2. DOMAIN delayed = 1..Len(delayed) /\ Len(delayed) \in Nat
      BY <1>0
  <2> QED
      BY <2>1, <2>2
<1>4. PICK more \in Seq(CastRecord) : more = [k \in DOMAIN delayed |-> Cast({delayed[k]}, {}, {})]
    BY <1>3
<1>5. /\ DOMAIN more = DOMAIN delayed
      /\ \A m \in DOMAIN more : \A e : About(more[m], e) <=> e = delayed[m].id
    BY <1>4 DEF About, Cast
<1>6. \A m \in DOMAIN delayed :
          /\ IsStored(delayed[m]) /\ delayed[m].id \notin remote /\ HeldBack(delayed[m].id)
          /\ \A l \in DOMAIN delayed : delayed[l].id = delayed[m].id => l = m
    BY <1>0 DEF ScreenIInv, Waits
<1>7. \A e \in Ids : OnceAbout(more, e) /\ (Delayed(e) <=> ~Silent(more, e))
    BY <1>5, <1>6 DEF OnceAbout, Delayed, Silent
<1>8. \A e \in Ids : \A m \in DOMAIN more : About(more[m], e) =>
          /\ e \notin remote' /\ Says(more[m], e, store'[e])
          /\ Adds(more[m], e) =>
                /\ Silent(casts, e) => Welcome(e)'
                /\ \A k \in DOMAIN casts : Latest(casts, k, e) => e \in casts[k].removed
  <2> SUFFICES ASSUME NEW m \in DOMAIN delayed, NEW e \in Ids, e = delayed[m].id
               PROVE  /\ e \notin remote /\ Says(more[m], e, store[e])
                      /\ Silent(casts, e) => Welcome(e)'
                      /\ \A k \in DOMAIN casts : Latest(casts, k, e) => e \in casts[k].removed
      BY <1>1, <1>5
  <2>1. IsStored(delayed[m]) /\ e \notin remote /\ HeldBack(e)
      BY <1>6
  <2>2. more[m].added = {delayed[m]} /\ more[m].modified = {} /\ more[m].removed = {}
      BY <1>4 DEF Cast
  <2>3. delayed[m] = Item(e, store[e]) /\ delayed[m] \in Items
      BY <1>2, <2>1 DEF IsStored
  <2>4. store[e] # Absent
      BY <2>3, CollectionNoneAssumption DEF Item, Items, Absent
  <2>5. Says(more[m], e, store[e])
      BY <2>2, <2>3, <2>4 DEF Says
  <2>6. Welcome(e) => Welcome(e)'
      BY <1>1 DEF Welcome, On
  <2> QED
      BY <2>1, <2>5, <2>6 DEF HeldBack
<1>9. casts' = casts \o more
    BY <1>1, <1>4
<1>10. \A e \in Ids : store'[e] = store[e]
    BY <1>1
<1> QED
    BY <1>0, <1>1, <1>7, <1>8, <1>9, <1>10, MoreCasts

\* Documents of the server come to the device: nothing was on its way about them, and the
\* list did not show them.
LEMMA ArriveKeeps ==
    ASSUME ListIInv, NEW docs \in SUBSET remote, NEW f \in [docs -> Tags], Arrive(docs, f),
           view'.items = view.items, view'.filter = view.filter, delayed' = delayed
    PROVE  ScreenIInv'
<1>0. /\ ScreenIInv /\ ListTypes /\ casts \in Seq(CastRecord) /\ delayed \in Seq(Items)
      /\ remote \subseteq Ids /\ store \in Stores
    BY DEF ListIInv, QueueTypes, DeviceTypes
<1>1. /\ remote' = remote \ docs
      /\ \A d \in Ids : store'[d] = IF d \in docs THEN [rank |-> d, tag |-> f[d]] ELSE store[d]
    BY DEF Arrive
<1>2. \A d \in docs : /\ d \in Ids /\ store[d] = Absent /\ Silent(casts, d) /\ ~Delayed(d)
                      /\ [rank |-> d, tag |-> f[d]] \in Data
    BY <1>0 DEF ScreenIInv, RemoteIsSilent, Data
<1>3. \A d \in docs : ~On(view, d)
  <2> SUFFICES ASSUME NEW d \in docs, NEW i \in view.items, i.id = d
               PROVE  FALSE
      BY DEF On
  <2>1. i = Item(d, store[d]) /\ i \in Items
      BY <1>0, <1>2 DEF ScreenIInv, HeardOfAll, Heard, Right, IsStored, ListTypes, WellFormed, Views
  <2>2. i.tag \in Tags
      BY <2>1 DEF Items
  <2>3. store[d] = Absent
      BY <1>2
  <2>4. i.tag = store[d].tag
      BY <2>1 DEF Item
  <2> QED
      BY <2>2, <2>3, <2>4, CollectionNoneAssumption DEF Absent
<1> DEFINE brought == {Item(d, [rank |-> d, tag |-> f[d]]) : d \in docs}
           cast == [from |-> "query", added |-> brought, modified |-> {}, removed |-> {}]
<1>4. \A d \in docs : /\ Item(d, [rank |-> d, tag |-> f[d]]) \in Items
                      /\ Item(d, [rank |-> d, tag |-> f[d]]).id = d
                      /\ [rank |-> d, tag |-> f[d]] # Absent
    BY <1>2, ItemType
<1>5. /\ casts' = IF docs = {} THEN casts ELSE Append(casts, cast)
      /\ cast \in CastRecord
      /\ \A e : About(cast, e) <=> e \in docs
      /\ \A i \in brought : i.id \in docs /\ i = Item(i.id, [rank |-> i.id, tag |-> f[i.id]])
  <2>1. casts' = IF docs = {} THEN casts ELSE Append(casts, cast)
      BY DEF Arrive
  <2>2. /\ \A i \in brought : i \in Items /\ i.id \in docs /\ i = Item(i.id, [rank |-> i.id, tag |-> f[i.id]])
        /\ \A e \in docs : \E i \in brought : i.id = e
      BY <1>4
  <2> HIDE DEF brought
  <2>3. cast \in CastRecord
      BY <2>2 DEF CastRecord
  <2>4. \A e : About(cast, e) <=> e \in docs
      BY <2>2 DEF About
  <2> QED
      BY <2>1, <2>2, <2>3, <2>4
<1> HIDE DEF cast
<1>6. CASE docs = {}
  <2>1. /\ \A d \in Ids : store'[d] = store[d]
        /\ casts' = casts /\ remote' = remote
      BY <1>1, <1>5, <1>6
  <2>2. ASSUME NEW d \in Ids
        PROVE  (Right(d) => Right(d)') /\ (Welcome(d) => Welcome(d)')
      BY <2>1 DEF Right, Welcome, On, IsStored, Item
  <2>3. HeardOfAll'
      BY <1>0, <2>1, <2>2 DEF ScreenIInv, HeardOfAll, Heard, Delayed
  <2>4. Waits'
    <3> SUFFICES ASSUME NEW m \in DOMAIN delayed
                 PROVE  /\ IsStored(delayed[m])' /\ delayed[m].id \notin remote /\ HeldBack(delayed[m].id)'
                        /\ \A l \in DOMAIN delayed : delayed[l].id = delayed[m].id => l = m
        BY <2>1 DEF Waits
    <3>1. delayed[m] \in Items
        BY <1>0
    <3>2. delayed[m].id \in Ids
        BY <3>1 DEF Items
    <3>3. /\ IsStored(delayed[m]) /\ delayed[m].id \notin remote /\ HeldBack(delayed[m].id)
          /\ \A l \in DOMAIN delayed : delayed[l].id = delayed[m].id => l = m
        BY <1>0 DEF ScreenIInv, Waits
    <3> QED
        BY <2>1, <2>2, <3>2, <3>3 DEF IsStored, HeldBack
  <2>5. Turns' /\ RemoteIsSilent'
      BY <1>0, <2>1 DEF ScreenIInv, Turns, RemoteIsSilent, Delayed
  <2> QED
      BY <2>3, <2>4, <2>5 DEF ScreenIInv
<1>7. CASE docs # {}
  <2>1. <<cast>> \in Seq(CastRecord)
      BY <1>5
  <2>2. PICK more \in Seq(CastRecord) : more = <<cast>>
      BY <2>1
  <2>3. DOMAIN more = {1} /\ more[1] = cast /\ casts' = casts \o more
      BY <1>0, <1>5, <1>7, <2>2
  <2>4. \A e : OnceAbout(more, e) /\ (Silent(more, e) <=> e \notin docs)
      BY <1>5, <2>3 DEF OnceAbout, Silent
  <2>5. \A e \in Ids : Silent(more, e) => store'[e] = store[e]
      BY <1>1, <2>4
  <2>6. ASSUME NEW e \in docs
        PROVE  /\ e \notin remote' /\ Says(cast, e, store'[e])
               /\ Silent(casts, e) /\ Welcome(e)'
               /\ \A k \in DOMAIN casts : Latest(casts, k, e) => e \in casts[k].removed
    <3>1. store'[e] = [rank |-> e, tag |-> f[e]] /\ e \notin remote'
        BY <1>1, <1>2
    <3>2. Says(cast, e, store'[e])
        BY <1>4, <1>5, <3>1 DEF Says, cast
    <3>3. Welcome(e)'
        BY <1>3 DEF Welcome, On
    <3>4. \A k \in DOMAIN casts : ~Latest(casts, k, e)
        BY <1>2 DEF Silent, Latest
    <3> QED
        BY <1>2, <3>1, <3>2, <3>3, <3>4
  <2>7. \A e \in Ids : \A m \in DOMAIN more : About(more[m], e) =>
            /\ e \notin remote' /\ Says(more[m], e, store'[e])
            /\ Adds(more[m], e) =>
                  /\ Silent(casts, e) => Welcome(e)'
                  /\ \A k \in DOMAIN casts : Latest(casts, k, e) => e \in casts[k].removed
      BY <1>5, <2>3, <2>6
  <2>8. delayed' = delayed /\ \A e \in Ids : Delayed(e) => Silent(more, e)
      BY <1>2, <2>4
  <2>9. remote' \subseteq remote
      BY <1>1
  <2> QED
      BY <1>0, <2>3, <2>4, <2>5, <2>7, <2>8, <2>9, MoreCasts
<1> QED
    BY <1>6, <1>7

-----------------------------------------------------------------------------
(* Every step keeps the invariant *)

LEMMA SpendKeeps ==
    ASSUME left \in Lefts
    PROVE  /\ Spend("queries") => left' \in Lefts /\ left'.more = left.more
           /\ Spend("writes") => left' \in Lefts /\ left'.more = left.more
           /\ Spend("fails") => left' \in Lefts /\ left'.more = left.more
           /\ Spend("more") => left' \in Lefts /\ left'.more = left.more - 1
<1>1. Spend("queries") => left' \in Lefts /\ left'.more = left.more
    BY DEF Spend, Lefts
<1>2. Spend("writes") => left' \in Lefts /\ left'.more = left.more
    BY DEF Spend, Lefts
<1>3. Spend("fails") => left' \in Lefts /\ left'.more = left.more
    BY DEF Spend, Lefts
<1>4. Spend("more") => left' \in Lefts /\ left'.more = left.more - 1
    BY CollectionBoundsAssumption DEF Spend, Lefts
<1> QED
    BY <1>1, <1>2, <1>3, <1>4

\* The window is a number of pages.
LEMMA WindowType ==
    ASSUME left \in Lefts, NEW k \in 1..(MaxMore + 1 - left.more)
    PROVE  /\ Limit * k \in Nat \ {0} /\ Limit <= Limit * k
           /\ Limit * (k + 1) = Limit * k + Limit
           /\ k \in 1..(MaxMore + 1)
<1>1. Limit \in Nat \ {0} /\ MaxMore \in Nat /\ left.more \in Nat /\ k \in Nat \ {0}
    BY CollectionBoundsAssumption DEF Lefts
<1>2. k = 1 \/ 1 < k
    BY <1>1
<1>3. 1 * Limit = Limit /\ Limit * k = k * Limit /\ Limit * k \in Nat
    BY <1>1
<1>4. Limit <= Limit * k
  <2>1. CASE 1 < k
    <3>1. 1 * Limit + Limit <= k * Limit
        BY <1>1, <2>1, ProductsGrow
    <3> QED
        BY <1>1, <1>3, <3>1
  <2> QED
      BY <1>1, <1>2, <1>3, <2>1
<1>5. Limit * (k + 1) = Limit * k + Limit
    BY <1>1
<1> QED
    BY <1>1, <1>3, <1>4, <1>5

\* A query for a first page, by query() or by sort(): the list is empty until its answer.
LEMMA FirstAsked ==
    ASSUME ListIInv, NEW f \in Tags, NEW after \in Places, calls = <<>>, Asks(f, after, TRUE),
           Spend("queries"), UNCHANGED <<deviceVars, casts, lockVars>>
    PROVE  ListIInv'
<1>0. ListTypes /\ QueueTypes /\ DeviceTypes /\ ScreenIInv /\ left \in Lefts
    BY DEF ListIInv, ListTypes
<1>1. view \in Views /\ Limit \in Nat \ {0}
    BY <1>0, CollectionBoundsAssumption DEF ListTypes, WellFormed
<1> DEFINE clear == [view EXCEPT !.error = FALSE, !.window = Limit, !.filter = f, !.after = after]
           asked == [clear EXCEPT !.asked = TRUE, !.answered = FALSE, !.unloaded = FALSE]
<1>2. clear \in Views /\ clear.window = Limit /\ clear.filter = f
    BY <1>1 DEF Views
<1>3. view' = [Settled(asked) EXCEPT !.items = {}]
    BY DEF Asks, WindowOf
<1> HIDE DEF clear
<1>4. asked \in Views /\ asked.window = Limit /\ asked.filter = f /\ asked.asked
    BY <1>2 DEF Views
<1> HIDE DEF asked
<1>5. Settled(asked) \in Views /\ Alike(Settled(asked), asked)
    BY <1>4, SettledKeeps
<1> DEFINE settled == Settled(asked)
<1> HIDE DEF settled
<1>6. settled \in Views /\ settled.window = Limit /\ settled.filter = f /\ settled.asked
    BY <1>4, <1>5 DEF Alike, settled
<1>7. /\ view' \in Views /\ view'.window = Limit /\ view'.filter = f /\ view'.items = {}
    BY <1>3, <1>6 DEF Views, settled
<1>8. ListTypes'
  <2>1. left' \in Lefts /\ left'.more = left.more
      BY <1>0, SpendKeeps
  <2>2. 1 \in 1..(MaxMore + 1 - left'.more) /\ Limit * 1 = Limit
      BY <2>1, <1>1, CollectionBoundsAssumption DEF Lefts
  <2>3. WellFormed(view)'
      BY <1>1, <1>7, FS_EmptySet DEF WellFormed, OnePerId
  <2>4. view'.filter # None
      BY <1>7, CollectionNoneAssumption
  <2> QED
      BY <1>7, <2>1, <2>2, <2>3, <2>4 DEF ListTypes
<1>9. QueueTypes'
  <2> DEFINE c == [flush |-> TRUE, filter |-> f, after |-> after, phase |-> "asked"]
  <2>1. c \in CallRecord /\ c.filter = f
      BY DEF CallRecord
  <2>2. calls' = Append(calls, c)
      BY DEF Asks
  <2> HIDE DEF c
  <2>3. calls' \in Seq(CallRecord) /\ \A k \in DOMAIN calls' : calls'[k].filter = view'.filter
      BY <1>7, <2>1, <2>2
  <2> QED
      BY <1>0, <2>3 DEF QueueTypes
<1>10. ScreenIInv'
  <2>1. UNCHANGED <<casts, store, remote, delayed>>
      OBVIOUS
  <2> QED
      BY <1>0, <1>7, <2>1, ListMoves
<1> QED
    BY <1>0, <1>8, <1>9, <1>10 DEF ListIInv, DeviceTypes

LEMMA QueryKeeps ==
    ASSUME Tame, ListIInv, NEW f \in Asked, Query(f)
    PROVE  ListIInv'
<1>1. f \in Tags /\ 0 \in Places
    BY CollectionBoundsAssumption, PositionType
<1>2. calls = <<>> /\ Asks(f, 0, TRUE) /\ Spend("queries") /\ UNCHANGED <<deviceVars, casts, lockVars>>
    BY DEF Query, Tame
<1> QED
    BY <1>1, <1>2, FirstAsked

LEMMA SortKeeps ==
    ASSUME Tame, ListIInv, Sort
    PROVE  ListIInv'
<1>1. /\ calls = <<>> /\ Asks(view.filter, view.after, TRUE) /\ Spend("queries")
      /\ UNCHANGED <<deviceVars, casts, lockVars>> /\ view.asked
    BY DEF Sort, Tame
<1>2. view \in Views /\ view.filter # None
    BY <1>1 DEF ListIInv, ListTypes, WellFormed
<1>3. view.filter \in Tags /\ view.after \in Places
    BY <1>2 DEF Views
<1>4. PICK f \in Tags : f = view.filter
    BY <1>3
<1>5. PICK after \in Places : after = view.after
    BY <1>3
<1>6. Asks(f, after, TRUE)
    BY <1>1, <1>4, <1>5
<1> QED
    BY <1>1, <1>6, FirstAsked

\* loadMore(): one page more is asked for.
LEMMA LoadMoreKeeps ==
    ASSUME ListIInv, LoadMore
    PROVE  ListIInv'
<1>0. ListTypes /\ QueueTypes /\ DeviceTypes /\ ScreenIInv /\ left \in Lefts
    BY DEF ListIInv, ListTypes
<1>1. /\ view \in Views /\ OnePerId(view.items) /\ Cardinality(view.items) <= view.window
      /\ Limit \in Nat \ {0} /\ view.next # 0
    BY <1>0, CollectionBoundsAssumption DEF ListTypes, WellFormed, LoadMore
<1>2. view.filter \in Tags /\ view.next \in Places /\ view.window \in Nat \ {0}
    BY <1>0, <1>1 DEF Views, ListTypes
<1>3. view' = [view EXCEPT !.error = FALSE, !.window = view.window + Limit, !.filter = view.filter, !.after = view.next]
    BY DEF LoadMore, Asks, WindowOf
<1>4. /\ view' \in Views /\ view'.window = view.window + Limit /\ view'.filter = view.filter
      /\ view'.items = view.items
  <2> DEFINE w == view.window + Limit
             f == view.filter
             a == view.next
  <2>1. w \in Nat \ {0} /\ f \in Tags /\ a \in Places
      BY <1>1, <1>2
  <2>2. view' = [view EXCEPT !.error = FALSE, !.window = w, !.filter = f, !.after = a]
      BY <1>3
  <2> HIDE DEF w, f, a
  <2>3. view' \in Views /\ view'.window = w /\ view'.filter = f /\ view'.items = view.items
      BY <1>1, <2>1, <2>2 DEF Views
  <2> QED
      BY <2>3 DEF w, f
<1>5. ListTypes'
  <2>1. left' \in Lefts /\ left'.more = left.more - 1
      BY <1>0, SpendKeeps DEF LoadMore
  <2>2. PICK k \in 1..(MaxMore + 1 - left.more) : view.window = Limit * k
      BY <1>0 DEF ListTypes
  <2>3. k + 1 \in 1..(MaxMore + 1 - left'.more)
      BY <1>0, <2>1, CollectionBoundsAssumption DEF Lefts
  <2>4. view'.window = Limit * (k + 1)
      BY <1>0, <1>4, <2>2, WindowType
  <2>5. WellFormed(view)'
    <3>1. IsFiniteSet(view.items) /\ Cardinality(view.items) \in Nat
        BY <1>1, OnceIsFinite, FS_CardinalityType DEF Views
    <3>2. Cardinality(view'.items) <= view'.window
        BY <1>1, <1>2, <1>4, <3>1
    <3> QED
        BY <1>1, <1>4, <3>2 DEF WellFormed
  <2>6. view'.filter # None
      BY <1>2, <1>4, CollectionNoneAssumption
  <2> QED
      BY <2>1, <2>3, <2>4, <2>5, <2>6 DEF ListTypes
<1>6. QueueTypes'
  <2> DEFINE c == [flush |-> FALSE, filter |-> view.filter, after |-> view.next, phase |-> "asked"]
  <2>1. c \in CallRecord /\ c.filter = view.filter
      BY <1>2 DEF CallRecord
  <2>2. calls' = Append(calls, c) /\ calls \in Seq(CallRecord) /\ \A k \in DOMAIN calls : calls[k].filter = view.filter
      BY <1>0 DEF LoadMore, Asks, QueueTypes
  <2> HIDE DEF c
  <2>3. calls' \in Seq(CallRecord) /\ \A k \in DOMAIN calls' : calls'[k].filter = view'.filter
      BY <1>4, <2>1, <2>2
  <2>4. UNCHANGED <<casts, delayed, locked>>
      BY DEF LoadMore
  <2> QED
      BY <1>0, <2>3, <2>4 DEF QueueTypes
<1>7. UNCHANGED <<casts, store, remote, delayed, scope>>
    BY DEF LoadMore
<1>8. ScreenIInv'
    BY <1>0, <1>4, <1>7, ListMoves
<1> QED
    BY <1>0, <1>5, <1>6, <1>7, <1>8 DEF ListIInv, DeviceTypes

\* The calls that still wait.
LEMMA CallsType ==
    ASSUME calls \in Seq(CallRecord), NEW k \in DOMAIN calls
    PROVE  /\ CallsWithout(k) \in Seq(CallRecord)
           /\ \A j \in DOMAIN CallsWithout(k) : \E l \in DOMAIN calls : CallsWithout(k)[j] = calls[l]
<1> DEFINE n == Len(calls)
           a == SubSeq(calls, 1, k - 1)
           b == SubSeq(calls, k + 1, n)
<1>1. n \in Nat /\ DOMAIN calls = 1..n /\ k \in 1..n
    OBVIOUS
<1>2. /\ a \in Seq(CallRecord) /\ Len(a) = k - 1 /\ \A j \in 1..(k - 1) : a[j] = calls[j]
    BY <1>1
<1>3. b \in Seq(CallRecord) /\ Len(b) = n - k /\ \A j \in 1..(n - k) : b[j] = calls[k + j]
    BY <1>1
<1> HIDE DEF n, a, b
<1>4. /\ a \o b \in Seq(CallRecord) /\ DOMAIN (a \o b) = 1..(n - 1)
      /\ \A j \in 1..(n - 1) : (a \o b)[j] = IF j <= k - 1 THEN a[j] ELSE b[j - (k - 1)]
    BY <1>1, <1>2, <1>3
<1>5. ASSUME NEW j \in 1..(n - 1)
      PROVE  \E l \in DOMAIN calls : (a \o b)[j] = calls[l]
  <2>1. CASE j <= k - 1
      BY <1>1, <1>2, <1>4, <2>1
  <2>2. CASE j > k - 1
    <3>1. j - (k - 1) \in 1..(n - k) /\ k + (j - (k - 1)) \in 1..n
        BY <1>1, <2>2
    <3> QED
        BY <1>1, <1>3, <1>4, <2>2, <3>1
  <2>3. j <= k - 1 \/ j > k - 1
      BY <1>1
  <2> QED
      BY <2>1, <2>2, <2>3
<1>6. CallsWithout(k) = a \o b
    BY DEF CallsWithout, a, b, n
<1> QED
    BY <1>4, <1>5, <1>6

\* What the status of the sync changes of the list is not what it shows.
LEMMA ToldStep ==
    ASSUME ListIInv, view' \in Views, Alike(view', view), left' \in Lefts, left'.more = left.more
    PROVE  ListTypes'
BY DEF ListIInv, ListTypes, WellFormed, Alike, OnePerId

LEMMA PhaseType ==
    ASSUME QueueTypes, NEW k \in DOMAIN calls, NEW p \in {"asked", "extending", "extended"},
           calls' = [calls EXCEPT ![k].phase = p], view'.filter = view.filter
    PROVE  calls' \in Seq(CallRecord) /\ \A j \in DOMAIN calls' : calls'[j].filter = view'.filter
<1>1. /\ calls \in Seq(CallRecord) /\ \A j \in DOMAIN calls : calls[j].filter = view.filter
    BY DEF QueueTypes
<1>2. \A j \in DOMAIN calls : calls[j] \in CallRecord
    BY <1>1
<1>3. [calls[k] EXCEPT !.phase = p] \in CallRecord /\ [calls[k] EXCEPT !.phase = p].filter = calls[k].filter
    BY <1>2 DEF CallRecord
<1>4. PICK c \in CallRecord : c = [calls[k] EXCEPT !.phase = p] /\ c.filter = calls[k].filter
    BY <1>3
<1>5. calls' = [calls EXCEPT ![k] = c]
    BY <1>4
<1> QED
    BY <1>1, <1>4, <1>5

LEMMA AnswerKeeps ==
    ASSUME ListIInv, NEW k \in DOMAIN calls, Answer(k)
    PROVE  ListIInv'
<1>0. ListTypes /\ QueueTypes /\ DeviceTypes /\ ScreenIInv /\ left \in Lefts /\ store \in Stores
    BY DEF ListIInv, ListTypes, DeviceTypes
<1>1. PICK c \in CallRecord : c = calls[k] /\ c.filter = view.filter
    BY <1>0 DEF QueueTypes
<1>2. c.filter \in Tags /\ c.after \in Places
    BY <1>1 DEF CallRecord
<1>3. WellFormed(view)
    BY <1>0 DEF ListTypes
<1>4. PICK pages \in 1..(MaxMore + 1 - left.more) : view.window = Limit * pages
    BY <1>0 DEF ListTypes
<1>5. Limit <= view.window
    BY <1>0, <1>4, WindowType
<1> DEFINE e == [Emission EXCEPT !.idle = TRUE, !.known = Completeness]
<1>6. e \in Emissions
    BY DEF Emission, Emissions, Completeness, Known
<1>7. \/ view' = Answered(c, view)
      \/ view' = Answered(c, Told(view, e))
    BY <1>1 DEF Answer
<1> HIDE DEF e
<1>8. PICK v : /\ view' = Answered(c, v) /\ WellFormed(v) /\ SamePages(v, view) /\ v.items = view.items
               /\ Limit <= v.window /\ c.filter = v.filter
  <2>1. WellFormed(Told(view, e)) /\ Alike(Told(view, e), view)
    <3>1. Told(view, e) \in Views /\ Alike(Told(view, e), view)
        BY <1>3, <1>6, ToldKeeps DEF WellFormed
    <3> QED
        BY <1>3, <3>1 DEF WellFormed, Alike, OnePerId
  <2>2. CASE view' = Answered(c, view)
    <3>1. SamePages(view, view)
        BY DEF SamePages
    <3> QED
        BY <1>1, <1>3, <1>5, <2>2, <3>1, Zenon
  <2>3. CASE view' = Answered(c, Told(view, e))
    <3>1. /\ SamePages(Told(view, e), view) /\ Told(view, e).items = view.items
          /\ Told(view, e).window = view.window /\ Told(view, e).filter = view.filter
        BY <2>1 DEF Alike, SamePages
    <3> DEFINE t == Told(view, e)
    <3>2. /\ view' = Answered(c, t) /\ WellFormed(t) /\ SamePages(t, view) /\ t.items = view.items
          /\ Limit <= t.window /\ c.filter = t.filter
        BY <1>1, <1>5, <2>1, <2>3, <3>1
    <3> QED
        BY <3>2, Zenon
  <2> QED
      BY <1>7, <2>2, <2>3
<1>9. /\ WellFormed(view)' /\ SamePages(view', v)
      /\ \A i \in view'.items : i \in v.items \/ (IsStored(i) /\ i.tag = v.filter)
  <2>1. /\ WellFormed(Answered(c, v)) /\ SamePages(Answered(c, v), v)
        /\ \A i \in Answered(c, v).items : i \in v.items \/ (IsStored(i) /\ i.tag = v.filter)
      BY <1>0, <1>2, <1>8, AnsweredShows
  <2> QED
      BY <1>8, <2>1 DEF WellFormed
<1>10. /\ view'.filter = view.filter /\ view'.window = view.window
       /\ \A i \in view'.items : i \in view.items \/ (IsStored(i) /\ i.tag = view.filter)
    BY <1>8, <1>9 DEF SamePages
<1>11. UNCHANGED <<casts, store, remote, scope, delayed, locked, left>> /\ calls' = CallsWithout(k)
    BY DEF Answer
<1>12. ListTypes'
  <2>1. view'.filter # None
      BY <1>1, <1>2, <1>10, CollectionNoneAssumption
  <2> QED
      BY <1>0, <1>9, <1>10, <1>11, <2>1 DEF ListTypes
<1>13. QueueTypes'
  <2>1. calls \in Seq(CallRecord) /\ \A j \in DOMAIN calls : calls[j].filter = view.filter
      BY <1>0 DEF QueueTypes
  <2>2. calls' \in Seq(CallRecord) /\ \A j \in DOMAIN calls' : calls'[j].filter = view'.filter
      BY <1>10, <1>11, <2>1, CallsType
  <2> QED
      BY <1>0, <1>11, <2>2 DEF QueueTypes
<1>14. ScreenIInv'
    BY <1>0, <1>10, <1>11, ListMoves
<1> QED
    BY <1>0, <1>11, <1>12, <1>13, <1>14 DEF ListIInv, DeviceTypes

\* A step of the calls and of the sync that changes what is told about the list, not what
\* it shows.
LEMMA ToldKeepsAll ==
    ASSUME ListIInv, view' \in Views, Alike(view', view), left' \in Lefts, left'.more = left.more,
           UNCHANGED <<casts, store, remote, lockVars>>,
           scope' \in {"unknown", "loading", "loaded", "partial", "complete"},
           calls' \in Seq(CallRecord), \A j \in DOMAIN calls' : calls'[j].filter = view'.filter
    PROVE  ListIInv'
<1>0. ListTypes /\ QueueTypes /\ DeviceTypes /\ ScreenIInv
    BY DEF ListIInv
<1>1. ListTypes'
    BY ToldStep
<1>2. QueueTypes'
    BY <1>0 DEF QueueTypes
<1>3. DeviceTypes'
    BY <1>0 DEF DeviceTypes
<1>4. ScreenIInv'
    BY <1>0, ListMoves DEF Alike
<1> QED
    BY <1>1, <1>2, <1>3, <1>4 DEF ListIInv

LEMMA ViewType ==
    ASSUME ListIInv
    PROVE  /\ view \in Views /\ Alike(view, view) /\ left \in Lefts /\ calls \in Seq(CallRecord)
           /\ \A j \in DOMAIN calls : calls[j].filter = view.filter
           /\ scope \in {"unknown", "loading", "loaded", "partial", "complete"}
           /\ None \in Known \cup {None} /\ Completeness \in Known
BY DEF ListIInv, ListTypes, WellFormed, QueueTypes, DeviceTypes, Alike, Completeness, Known

LEMMA AskServerKeeps ==
    ASSUME ListIInv, NEW k \in DOMAIN calls, AskServer(k)
    PROVE  ListIInv'
<1> DEFINE e == [Emission EXCEPT !.load = "next"]
<1>1. e \in Emissions
    BY DEF Emission, Emissions
<1>2. view' = Told(view, e)
    BY DEF AskServer
<1> HIDE DEF e
<1>3. view' \in Views /\ Alike(view', view)
    BY <1>1, <1>2, ViewType, ToldKeeps
<1>4. calls' \in Seq(CallRecord) /\ \A j \in DOMAIN calls' : calls'[j].filter = view'.filter
    BY <1>3, PhaseType DEF AskServer, ListIInv, Alike
<1>5. UNCHANGED <<casts, store, remote, scope, lockVars, left>>
    BY DEF AskServer
<1> QED
    BY <1>3, <1>4, <1>5, ViewType, ToldKeepsAll

LEMMA ExtendFailsKeeps ==
    ASSUME ListIInv, NEW k \in DOMAIN calls, ExtendFails(k)
    PROVE  ListIInv'
<1> DEFINE e == [Emission EXCEPT !.idle = TRUE, !.known = Completeness]
           error == [Emission EXCEPT !.error = TRUE]
           told == Told(view, e)
<1>1. e \in Emissions /\ error \in Emissions
    BY ViewType DEF Emission, Emissions
<1>2. view' = Told(told, error)
    BY DEF ExtendFails
<1> HIDE DEF e, error
<1>3. told \in Views /\ Alike(told, view)
    BY <1>1, ViewType, ToldKeeps
<1> HIDE DEF told
<1>4. view' \in Views /\ Alike(view', told)
    BY <1>1, <1>2, <1>3, ToldKeeps
<1>5. Alike(view', view)
    BY <1>3, <1>4 DEF Alike
<1>6. calls' \in Seq(CallRecord) /\ \A j \in DOMAIN calls' : calls'[j].filter = view'.filter
    BY <1>5, PhaseType DEF ExtendFails, ListIInv, Alike
<1>7. UNCHANGED <<casts, store, remote, scope, lockVars>>
    BY DEF ExtendFails
<1>8. left' \in Lefts /\ left'.more = left.more
    BY ViewType, SpendKeeps DEF ExtendFails
<1> QED
    BY <1>4, <1>5, <1>6, <1>7, <1>8, ViewType, ToldKeepsAll

LEMMA LoadStartsKeeps ==
    ASSUME ListIInv, LoadStarts
    PROVE  ListIInv'
<1> DEFINE e == [Emission EXCEPT !.load = "all", !.known = "unknown"]
<1>1. e \in Emissions
    BY DEF Emission, Emissions, Known
<1>2. view' = Told(view, e)
    BY DEF LoadStarts
<1> HIDE DEF e
<1>3. view' \in Views /\ Alike(view', view)
    BY <1>1, <1>2, ViewType, ToldKeeps
<1>4. UNCHANGED <<calls, casts, store, remote, lockVars, left>> /\ scope' = "loading"
    BY DEF LoadStarts
<1>5. calls' \in Seq(CallRecord) /\ \A j \in DOMAIN calls' : calls'[j].filter = view'.filter
    BY <1>3, <1>4, ViewType DEF Alike
<1> QED
    BY <1>3, <1>4, <1>5, ViewType, ToldKeepsAll

LEMMA LoadEndsKeeps ==
    ASSUME ListIInv, LoadEnds
    PROVE  ListIInv'
<1> DEFINE known == IF remote = {} THEN "complete" ELSE "partial"
           e == [Emission EXCEPT !.idle = TRUE, !.known = known]
<1>1. e \in Emissions
    BY DEF Emission, Emissions, Known
<1>2. view' = Told(view, e)
    BY DEF LoadEnds
<1> HIDE DEF e
<1>3. view' \in Views /\ Alike(view', view)
    BY <1>1, <1>2, ViewType, ToldKeeps
<1>4. UNCHANGED <<calls, casts, store, remote, lockVars, left>> /\ scope' \in {"complete", "partial"}
    BY DEF LoadEnds
<1>5. calls' \in Seq(CallRecord) /\ \A j \in DOMAIN calls' : calls'[j].filter = view'.filter
    BY <1>3, <1>4, ViewType DEF Alike
<1> QED
    BY <1>3, <1>4, <1>5, ViewType, ToldKeepsAll

LEMMA LoadFailsKeeps ==
    ASSUME ListIInv, LoadFails
    PROVE  ListIInv'
<1> DEFINE e == [Emission EXCEPT !.error = TRUE, !.known = "unknown"]
<1>1. e \in Emissions
    BY DEF Emission, Emissions, Known
<1>2. view' = Told(view, e)
    BY DEF LoadFails
<1> HIDE DEF e
<1>3. view' \in Views /\ Alike(view', view)
    BY <1>1, <1>2, ViewType, ToldKeeps
<1>4. UNCHANGED <<calls, casts, store, remote, lockVars>> /\ scope' = "unknown"
    BY DEF LoadFails
<1>5. calls' \in Seq(CallRecord) /\ \A j \in DOMAIN calls' : calls'[j].filter = view'.filter
    BY <1>3, <1>4, ViewType DEF Alike
<1>6. left' \in Lefts /\ left'.more = left.more
    BY ViewType, SpendKeeps DEF LoadFails
<1> QED
    BY <1>3, <1>4, <1>5, <1>6, ViewType, ToldKeepsAll

\* What a page of the server brings is well formed.
LEMMA ArriveTypes ==
    ASSUME QueueTypes, DeviceTypes, NEW docs \in SUBSET remote, NEW f \in [docs -> Tags], Arrive(docs, f)
    PROVE  /\ casts' \in Seq(CastRecord) /\ \A k \in DOMAIN casts' : CastOK(casts'[k])
           /\ store' \in Stores /\ remote' \subseteq Ids
<1> DEFINE brought == {Item(d, [rank |-> d, tag |-> f[d]]) : d \in docs}
           cast == [from |-> "query", added |-> brought, modified |-> {}, removed |-> {}]
<1>1. /\ casts \in Seq(CastRecord) /\ \A k \in DOMAIN casts : CastOK(casts[k])
      /\ store \in Stores /\ remote \subseteq Ids
    BY DEF QueueTypes, DeviceTypes
<1>2. \A d \in docs : d \in Ids /\ [rank |-> d, tag |-> f[d]] \in Data
    BY <1>1 DEF Data
<1>3. store' \in Stores /\ remote' \subseteq Ids
    BY <1>1, <1>2 DEF Arrive, Stores
<1>4. \A i \in brought : i \in Items /\ i = Item(i.id, [rank |-> i.id, tag |-> f[i.id]])
  <2>1. \A d \in docs : /\ Item(d, [rank |-> d, tag |-> f[d]]) \in Items
                        /\ Item(d, [rank |-> d, tag |-> f[d]]).id = d
      BY <1>2, ItemType
  <2> QED
      BY <2>1
<1>5. casts' = IF docs = {} THEN casts ELSE Append(casts, cast)
    BY DEF Arrive
<1> HIDE DEF brought
<1>6. cast \in CastRecord /\ CastOK(cast)
    BY <1>4 DEF CastRecord, CastOK, OnePerId
<1> HIDE DEF cast
<1>7. casts' \in Seq(CastRecord) /\ \A k \in DOMAIN casts' : CastOK(casts'[k])
    BY <1>1, <1>5, <1>6
<1> QED
    BY <1>3, <1>7

LEMMA LoadBringsKeeps ==
    ASSUME ListIInv, LoadBrings
    PROVE  ListIInv'
<1>0. ListTypes /\ QueueTypes /\ DeviceTypes
    BY DEF ListIInv
<1>1. Older(Limit) \in SUBSET remote
    BY DEF Older
<1>2. PICK docs \in SUBSET remote : \E f \in [docs -> Tags] : Arrive(docs, f)
    BY <1>1 DEF LoadBrings
<1>3. UNCHANGED <<view, calls, lockVars, left>> /\ scope' = "loaded"
    BY DEF LoadBrings
<1>4. ScreenIInv'
    BY <1>2, <1>3, ArriveKeeps
<1>5. /\ casts' \in Seq(CastRecord) /\ \A k \in DOMAIN casts' : CastOK(casts'[k])
      /\ store' \in Stores /\ remote' \subseteq Ids
    BY <1>0, <1>2, ArriveTypes
<1>6. ListTypes'
    BY <1>3, ViewType, ToldStep
<1>7. QueueTypes' /\ DeviceTypes'
    BY <1>0, <1>3, <1>5 DEF QueueTypes, DeviceTypes
<1> QED
    BY <1>4, <1>6, <1>7 DEF ListIInv

LEMMA ExtendKeeps ==
    ASSUME ListIInv, NEW k \in DOMAIN calls, Extend(k)
    PROVE  ListIInv'
<1>0. ListTypes /\ QueueTypes /\ DeviceTypes
    BY DEF ListIInv
<1>1. calls' = [calls EXCEPT ![k].phase = "extended"] /\ UNCHANGED <<lockVars, left>>
    BY DEF Extend
<1>2. CASE scope # "partial"
  <2>1. UNCHANGED <<view, store, remote, scope, casts>>
      BY <1>2 DEF Extend
  <2>2. calls' \in Seq(CallRecord) /\ \A j \in DOMAIN calls' : calls'[j].filter = view'.filter
      BY <1>0, <1>1, <2>1, PhaseType
  <2> QED
      BY <1>1, <2>1, <2>2, ViewType, ToldKeepsAll
<1>3. CASE scope = "partial"
  <2>1. Older(Limit) \in SUBSET remote
      BY DEF Older
  <2>2. PICK docs \in SUBSET remote : \E f \in [docs -> Tags] : Arrive(docs, f)
      BY <1>3, <2>1 DEF Extend
  <2> DEFINE known == IF remote' = {} THEN "complete" ELSE "partial"
             e == [Emission EXCEPT !.idle = TRUE, !.known = known]
  <2>3. e \in Emissions
      BY DEF Emission, Emissions, Known
  <2>4. view' = Told(view, e) /\ scope' = known
      BY <1>3 DEF Extend
  <2> HIDE DEF e
  <2>5. PICK e0 \in Emissions : view' = Told(view, e0)
      BY <2>3, <2>4
  <2>6. view' \in Views /\ Alike(view', view)
      BY <2>5, ViewType, ToldKeeps
  <2>7. calls' \in Seq(CallRecord) /\ \A j \in DOMAIN calls' : calls'[j].filter = view'.filter
      BY <1>0, <1>1, <2>6, PhaseType DEF Alike
  <2>8. ScreenIInv'
      BY <1>1, <2>2, <2>6, ArriveKeeps DEF Alike
  <2>9. /\ casts' \in Seq(CastRecord) /\ \A j \in DOMAIN casts' : CastOK(casts'[j])
        /\ store' \in Stores /\ remote' \subseteq Ids
      BY <1>0, <2>2, ArriveTypes
  <2>10. ListTypes'
      BY <1>1, <2>6, ViewType, ToldStep
  <2>11. QueueTypes' /\ DeviceTypes'
      BY <1>0, <1>1, <2>4, <2>7, <2>9 DEF QueueTypes, DeviceTypes
  <2> QED
      BY <2>8, <2>10, <2>11 DEF ListIInv
<1> QED
    BY <1>2, <1>3

\* So is what a write changes.
LEMMA WriteTypes ==
    ASSUME ListIInv, NEW d \in Ids, NEW data \in Data \cup {Absent}, store' = [store EXCEPT ![d] = data],
           Spend("writes"), UNCHANGED <<view, calls, remote, scope, locked>>,
           \/ /\ UNCHANGED delayed
              /\ \E c \in CastRecord : CastOK(c) /\ casts' = Append(casts, c)
           \/ /\ UNCHANGED casts /\ locked
              /\ \E i \in Items : delayed' = Append(delayed, i)
    PROVE  ListTypes' /\ QueueTypes' /\ DeviceTypes'
<1>0. ListTypes /\ QueueTypes /\ DeviceTypes
    BY DEF ListIInv
<1>1. left' \in Lefts /\ left'.more = left.more
    BY ViewType, SpendKeeps
<1>2. ListTypes'
    BY <1>1, ViewType, ToldStep
<1>3. DeviceTypes'
    BY <1>0 DEF DeviceTypes, Stores
<1>4. /\ casts' \in Seq(CastRecord) /\ \A k \in DOMAIN casts' : CastOK(casts'[k])
      /\ delayed' \in Seq(Items) /\ (~locked => delayed' = <<>>)
  <2>1. /\ casts \in Seq(CastRecord) /\ \A k \in DOMAIN casts : CastOK(casts[k])
        /\ delayed \in Seq(Items) /\ (~locked => delayed = <<>>)
      BY <1>0 DEF QueueTypes
  <2>2. ASSUME NEW c \in CastRecord, CastOK(c), casts' = Append(casts, c)
        PROVE  casts' \in Seq(CastRecord) /\ \A k \in DOMAIN casts' : CastOK(casts'[k])
      BY <2>1, <2>2
  <2>3. ASSUME NEW i \in Items, delayed' = Append(delayed, i)
        PROVE  delayed' \in Seq(Items)
      BY <2>1, <2>3
  <2> QED
      BY <2>1, <2>2, <2>3
<1>5. QueueTypes'
    BY <1>0, <1>4 DEF QueueTypes
<1> QED
    BY <1>2, <1>3, <1>5

LEMMA WritesKeep ==
    ASSUME Tame, ListIInv, NEW d \in Ids,
           Remove(d) \/ \E data \in Data : Add(d, data) \/ Change(d, data)
    PROVE  ListIInv'
<1>1. CASE Remove(d)
  <2>1. ScreenIInv'
      BY <1>1, RemoveKeeps
  <2>2. Cast({}, {}, {d}) \in CastRecord /\ CastOK(Cast({}, {}, {d}))
      BY DEF Cast, CastRecord, CastOK, OnePerId
  <2>3. /\ store' = [store EXCEPT ![d] = Absent] /\ Spend("writes")
        /\ UNCHANGED <<view, calls, remote, scope, locked, delayed>>
        /\ casts' = Append(casts, Cast({}, {}, {d}))
      BY <1>1 DEF Remove
  <2>4. \E c \in CastRecord : CastOK(c) /\ casts' = Append(casts, c)
      BY <2>2, <2>3, Zenon
  <2>5. PICK data \in Data \cup {Absent} : data = Absent
      OBVIOUS
  <2>6. ListTypes' /\ QueueTypes' /\ DeviceTypes'
      BY <2>3, <2>4, <2>5, WriteTypes
  <2> QED
      BY <2>1, <2>6 DEF ListIInv
<1>2. CASE \E data \in Data : Add(d, data)
  <2>1. PICK data \in Data : Add(d, data)
      BY <1>2
  <2>2. ScreenIInv'
      BY <2>1, AddKeeps
  <2>3. Item(d, data) \in Items /\ data \in Data \cup {Absent}
      BY ItemType
  <2>4. Cast({Item(d, data)}, {}, {}) \in CastRecord /\ CastOK(Cast({Item(d, data)}, {}, {}))
      BY <2>3 DEF Cast, CastRecord, CastOK, OnePerId
  <2>5. /\ store' = [store EXCEPT ![d] = data] /\ Spend("writes")
        /\ UNCHANGED <<view, calls, remote, scope, locked>>
        /\ \/ locked /\ delayed' = Append(delayed, Item(d, data)) /\ casts' = casts
           \/ delayed' = delayed /\ casts' = Append(casts, Cast({Item(d, data)}, {}, {}))
      BY <2>1 DEF Add
  <2>6. \/ /\ UNCHANGED delayed
           /\ \E c \in CastRecord : CastOK(c) /\ casts' = Append(casts, c)
        \/ /\ UNCHANGED casts /\ locked
           /\ \E i \in Items : delayed' = Append(delayed, i)
      BY <2>3, <2>4, <2>5, Zenon
  <2>7. ListTypes' /\ QueueTypes' /\ DeviceTypes'
      BY <2>3, <2>5, <2>6, WriteTypes
  <2> QED
      BY <2>2, <2>7 DEF ListIInv
<1>3. CASE \E data \in Data : Change(d, data)
  <2>1. PICK data \in Data : Change(d, data)
      BY <1>3
  <2>2. ScreenIInv'
      BY <2>1, ChangeKeeps
  <2>3. Item(d, data) \in Items /\ data \in Data \cup {Absent}
      BY ItemType
  <2>4. Cast({}, {Item(d, data)}, {}) \in CastRecord /\ CastOK(Cast({}, {Item(d, data)}, {}))
      BY <2>3 DEF Cast, CastRecord, CastOK, OnePerId
  <2>5. /\ store' = [store EXCEPT ![d] = data] /\ Spend("writes")
        /\ UNCHANGED <<view, calls, remote, scope, locked, delayed>>
        /\ casts' = Append(casts, Cast({}, {Item(d, data)}, {}))
      BY <2>1 DEF Change
  <2>6. \E c \in CastRecord : CastOK(c) /\ casts' = Append(casts, c)
      BY <2>4, <2>5, Zenon
  <2>7. ListTypes' /\ QueueTypes' /\ DeviceTypes'
      BY <2>3, <2>5, <2>6, WriteTypes
  <2> QED
      BY <2>2, <2>7 DEF ListIInv
<1> QED
    BY <1>1, <1>2, <1>3

LEMMA LocksKeep ==
    ASSUME ListIInv, Lock \/ Unlock
    PROVE  ListIInv'
<1>0. ListTypes /\ QueueTypes /\ DeviceTypes /\ ScreenIInv /\ left \in Lefts
    BY DEF ListIInv, ListTypes
<1>1. CASE Lock
  <2>1. UNCHANGED <<view, calls, deviceVars, casts, delayed>> /\ locked' = TRUE
      BY <1>1 DEF Lock
  <2>2. left' \in Lefts /\ left'.more = left.more
      BY <1>0, <1>1, SpendKeeps DEF Lock
  <2>3. ListTypes'
      BY <2>1, <2>2, ViewType, ToldStep
  <2>4. QueueTypes' /\ DeviceTypes'
      BY <1>0, <2>1 DEF QueueTypes, DeviceTypes
  <2>5. ScreenIInv'
    <3>1. \A i \in view'.items : i \in view.items
        BY <2>1
    <3>2. view'.filter = view.filter
        BY <2>1
    <3> QED
        BY <1>0, <2>1, <3>1, <3>2, ListMoves
  <2> QED
      BY <2>3, <2>4, <2>5 DEF ListIInv
<1>2. CASE Unlock
  <2>1. /\ UNCHANGED <<view, calls, deviceVars, left>> /\ locked' = FALSE /\ delayed' = <<>>
        /\ casts' = casts \o [k \in DOMAIN delayed |-> Cast({delayed[k]}, {}, {})]
      BY <1>2 DEF Unlock
  <2>2. ScreenIInv'
      BY <1>2, UnlockKeeps
  <2>3. ListTypes'
      BY <2>1, ViewType, ToldStep
  <2>4. delayed \in Seq(Items) /\ casts \in Seq(CastRecord) /\ \A k \in DOMAIN casts : CastOK(casts[k])
      BY <1>0 DEF QueueTypes
  <2> DEFINE more == [k \in DOMAIN delayed |-> Cast({delayed[k]}, {}, {})]
  <2>5. more \in Seq(CastRecord) /\ \A k \in DOMAIN more : CastOK(more[k])
    <3>1. \A k \in DOMAIN delayed : Cast({delayed[k]}, {}, {}) \in CastRecord /\ CastOK(Cast({delayed[k]}, {}, {}))
      <4>1. \A k \in DOMAIN delayed : delayed[k] \in Items
          BY <2>4
      <4> QED
          BY <4>1 DEF Cast, CastRecord, CastOK, OnePerId
    <3>2. DOMAIN delayed = 1..Len(delayed) /\ Len(delayed) \in Nat
        BY <2>4
    <3> QED
        BY <3>1, <3>2
  <2>6. casts' = casts \o more
      BY <2>1
  <2> HIDE DEF more
  <2>7. casts' \in Seq(CastRecord) /\ \A k \in DOMAIN casts' : CastOK(casts'[k])
      BY <2>4, <2>5, <2>6
  <2>8. delayed' \in Seq(Items)
      BY <2>1
  <2>9. QueueTypes' /\ DeviceTypes'
      BY <1>0, <2>1, <2>7, <2>8 DEF QueueTypes, DeviceTypes
  <2> QED
      BY <2>2, <2>3, <2>9 DEF ListIInv
<1> QED
    BY <1>1, <1>2

LEMMA DeliverKeepsAll ==
    ASSUME ListIInv, Deliver
    PROVE  ListIInv'
<1>0. ListTypes /\ QueueTypes /\ DeviceTypes
    BY DEF ListIInv
<1>1. /\ casts' = Tail(casts)
      /\ Shows(view', view, Joining(Head(casts)), Staying(Head(casts)), Parting(Head(casts)))
    BY <1>0, DeliverShows
<1>2. /\ view' \in Views /\ OnePerId(view'.items) /\ Cardinality(view'.items) <= view'.window
      /\ view'.filter = view.filter /\ view'.window = view.window /\ view'.asked = view.asked
      /\ view.items = {} /\ Joining(Head(casts)) = {} => view'.items = {} /\ view'.next = view.next
    BY <1>1 DEF Shows
<1>3. UNCHANGED <<calls, deviceVars, lockVars, left>> /\ casts # <<>>
    BY DEF Deliver
<1>4. casts \in Seq(CastRecord) /\ \A k \in DOMAIN casts : CastOK(casts[k])
    BY <1>0 DEF QueueTypes
<1>5. view.filter = None => Joining(Head(casts)) = {}
  <2>1. Head(casts) \in CastRecord
      BY <1>3, <1>4
  <2>2. \A i \in Head(casts).added : i.tag \in Tags
      BY <2>1 DEF CastRecord, Items
  <2> QED
      BY <2>2, CollectionNoneAssumption DEF Joining
<1>6. ListTypes'
    BY <1>0, <1>2, <1>3, <1>5 DEF ListTypes, WellFormed
<1>7. casts' \in Seq(CastRecord) /\ \A k \in DOMAIN casts' : CastOK(casts'[k])
    BY <1>1, <1>3, <1>4
<1>8. QueueTypes' /\ DeviceTypes'
    BY <1>0, <1>2, <1>3, <1>7 DEF QueueTypes, DeviceTypes
<1>9. ScreenIInv'
    BY DeliverKeeps
<1> QED
    BY <1>6, <1>8, <1>9 DEF ListIInv

LEMMA ListInit == CollectionInit => ListIInv
<1> SUFFICES ASSUME CollectionInit
             PROVE  ListIInv
    OBVIOUS
<1>0. /\ view = Blank /\ calls = <<>> /\ store = [d \in Ids |-> Absent] /\ casts = <<>>
      /\ delayed = <<>> /\ locked = FALSE /\ scope \in {"complete", "unknown"}
      /\ left = [queries |-> MaxQueries, more |-> MaxMore, writes |-> MaxWrites, fails |-> MaxFails]
    BY DEF CollectionInit
<1>1. remote \subseteq Ids
    BY CollectionBoundsAssumption DEF CollectionInit, Ids
<1>2. /\ view.items = {} /\ view.filter = None /\ view.window = Limit /\ view.next = 0 /\ ~view.asked
    BY <1>0 DEF Blank
<1>3. ListTypes
  <2>1. Limit \in Nat \ {0} /\ MaxMore \in Nat /\ left \in Lefts /\ left.more = MaxMore
      BY <1>0, CollectionBoundsAssumption DEF Lefts
  <2>2. 1 \in 1..(MaxMore + 1 - left.more) /\ Limit * 1 = Limit
      BY <2>1
  <2>3. view \in Views
      BY <1>0, <2>1, PositionType DEF Blank, Views, Known
  <2>4. WellFormed(view)
      BY <1>2, <2>1, <2>3, FS_EmptySet DEF WellFormed, OnePerId
  <2> QED
      BY <1>2, <2>1, <2>2, <2>4 DEF ListTypes
<1>4. QueueTypes
  <2>1. /\ calls \in Seq(CallRecord) /\ DOMAIN calls = {} /\ casts \in Seq(CastRecord)
        /\ DOMAIN casts = {} /\ delayed \in Seq(Items) /\ DOMAIN delayed = {}
      BY <1>0
  <2> QED
      BY <1>0, <2>1 DEF QueueTypes
<1>5. DeviceTypes
    BY <1>0, <1>1 DEF DeviceTypes, Stores
<1>6. ScreenIInv
    BY <1>0, <1>1, <1>2 DEF ScreenIInv, Turns, Successive, HeardOfAll, Heard, Right, Latest, Waits,
                            RemoteIsSilent, Silent, Delayed
<1> QED
    BY <1>3, <1>4, <1>5, <1>6 DEF ListIInv

LEMMA ListStep ==
    ASSUME Tame
    PROVE  ListIInv /\ [CollectionNext]_collectionVars => ListIInv'
<1> SUFFICES ASSUME ListIInv, [CollectionNext]_collectionVars
             PROVE  ListIInv'
    OBVIOUS
<1>1. CASE Sort
    BY <1>1, SortKeeps
<1>2. CASE \E f \in Asked : Query(f)
    BY <1>2, QueryKeeps
<1>3. CASE LoadMore
    BY <1>3, LoadMoreKeeps
<1>4. CASE AnswerAny
    BY <1>4, AnswerKeeps DEF AnswerAny
<1>5. CASE \E k \in DOMAIN calls : AskServer(k) \/ Extend(k) \/ ExtendFails(k)
    BY <1>5, AskServerKeeps, ExtendKeeps, ExtendFailsKeeps
<1>6. CASE LoadStarts \/ LoadBrings \/ LoadEnds \/ LoadFails
    BY <1>6, LoadStartsKeeps, LoadBringsKeeps, LoadEndsKeeps, LoadFailsKeeps
<1>7. CASE \E d \in Ids : Remove(d) \/ (view.asked /\ \E data \in Data : Add(d, data) \/ Change(d, data))
    BY <1>7, WritesKeep
<1>8. CASE Lock \/ Unlock
    BY <1>8, LocksKeep
<1>9. CASE Deliver
    BY <1>9, DeliverKeepsAll
<1>10. CASE UNCHANGED collectionVars
  <2>1. UNCHANGED <<view, calls, store, remote, scope, casts, delayed, locked, left>>
      BY <1>10
  <2>2. ListTypes' /\ QueueTypes' /\ DeviceTypes'
      BY <2>1 DEF ListIInv, ListTypes, WellFormed, QueueTypes, DeviceTypes
  <2>3. ScreenIInv'
      BY <2>1, ListMoves DEF ListIInv
  <2> QED
      BY <2>2, <2>3 DEF ListIInv
<1> QED
    BY <1>1, <1>2, <1>3, <1>4, <1>5, <1>6, <1>7, <1>8, <1>9, <1>10 DEF CollectionNext

\* Every list is well formed, fits its pages, and is right about a document or made so by
\* the last broadcast about it that is on its way: in every run in which an `added` matches
\* the list it is meant for, no document changes under AddLock, and a query waits for the
\* answers to those before it (#query, #localPage, #filterLocalEvents and #applyChanges,
\* with AddLock and extend()).
THEOREM ListInvariance ==
    ASSUME Tame
    PROVE  CollectionSpec => []ListIInv
<1>1. CollectionInit => ListIInv
    BY ListInit
<1>2. ListIInv /\ [CollectionNext]_collectionVars => ListIInv'
    BY ListStep
<1> QED
    BY <1>1, <1>2, PTL DEF CollectionSpec

\* What the screen shows when nothing is on its way to it is what the device holds: no
\* document that is gone, left the filter or changed since, none listed twice, and no more
\* than fit the pages asked for, for any number of documents, filters, queries, pages and
\* writes.
THEOREM ListsShowTheDevice ==
    ASSUME Tame
    PROVE  CollectionSpec => []ListInv
<1>1. ASSUME ListIInv
      PROVE  ListInv
  <2>0. ListTypes /\ QueueTypes /\ DeviceTypes /\ ScreenIInv
      BY <1>1 DEF ListIInv
  <2>1. view \in Views /\ OnePerId(view.items) /\ Cardinality(view.items) <= view.window /\ left \in Lefts
      BY <2>0 DEF ListTypes, WellFormed
  <2>2. CollectionTypeOK
    <3>1. view.window \in {Limit * k : k \in 1..(MaxMore + 1)}
      <4>1. PICK k \in 1..(MaxMore + 1 - left.more) : view.window = Limit * k
          BY <2>0 DEF ListTypes
      <4>2. k \in 1..(MaxMore + 1)
          BY <2>1, WindowType
      <4> QED
          BY <4>1, <4>2
    <3>2. /\ view.items \subseteq Items /\ view.filter \in Tags \cup {None}
          /\ {view.next, view.after} \subseteq 0..Position([id |-> N, rank |-> N])
          /\ view.loading \in {None, "all", "next"} /\ view.known \in {"unknown", "partial", "complete"}
          /\ view.status \in {"idle", "loading", "ready", "error"}
        BY <2>1 DEF Views, Places, Known
    <3> QED
        BY <2>0, <3>1, <3>2 DEF CollectionTypeOK, QueueTypes, DeviceTypes, Stores
  <2>3. ListFits
      BY <2>1 DEF ListFits, OnePerId
  <2>4. ListIsTrue
    <3> SUFFICES ASSUME Quiet, NEW i \in view.items
                 PROVE  i \in Matching(view.filter)
        BY DEF ListIsTrue
    <3>1. i.id \in Ids /\ i.tag = i.tag
        BY <2>1 DEF Views, Items
    <3>2. ~Delayed(i.id) /\ Silent(casts, i.id)
        BY DEF Quiet, Delayed, Silent
    <3>3. i = Item(i.id, store[i.id]) /\ i.tag = view.filter
        BY <2>0, <3>1, <3>2 DEF ScreenIInv, HeardOfAll, Heard, Right, IsStored
    <3>4. i.tag = store[i.id].tag
        BY <3>3 DEF Item
    <3> QED
        BY <3>1, <3>3, <3>4 DEF Matching
  <2> QED
      BY <2>2, <2>3, <2>4 DEF ListInv
<1> QED
    BY <1>1, ListInvariance, PTL

-----------------------------------------------------------------------------
(* What a clipped list leaves behind its next page *)

\* The cursor 0 is before every document.
LEMMA NoPositionIsZero == \A i \in Items : Position(i) > 0
<1> SUFFICES ASSUME NEW i \in Items
             PROVE  Position(i) > 0
    OBVIOUS
<1>1. i.rank \in Nat /\ i.id \in Nat /\ i.id > 0
    BY CollectionBoundsAssumption DEF Items, Ids
<1>2. i.rank * (N + 1) \in Nat
    BY <1>1, CollectionBoundsAssumption
<1> QED
    BY <1>1, <1>2 DEF Position

\* The first n of a set end before its others.
LEMMA FirstItemsEnd ==
    ASSUME NEW S \in SUBSET Items, OnePerId(S), S # {}, NEW n \in Nat \ {0}
    PROVE  /\ FirstItems(n, S) # {} /\ End(FirstItems(n, S)) # 0
           /\ \E k \in FirstItems(n, S) : Position(k) = End(FirstItems(n, S))
           /\ \A i \in FirstItems(n, S) : Position(i) <= End(FirstItems(n, S))
           /\ \A j \in S \ FirstItems(n, S) :
                 /\ Position(j) > End(FirstItems(n, S))
                 /\ Cardinality({x \in S : Position(x) < Position(j)}) >= n
<1> DEFINE F == FirstItems(n, S)
           P == {Position(i) : i \in F}
           Before(j) == {x \in S : Position(x) < Position(j)}
<1>1. IsFiniteSet(S) /\ \A i \in S : Position(i) \in Nat
    BY OnceIsFinite, PositionType
<1>2. \A i \in S : IsFiniteSet(Before(i)) /\ Cardinality(Before(i)) \in Nat
    BY <1>1, FS_Subset, FS_CardinalityType
<1>3. F \subseteq S /\ \A i \in S : i \in F <=> Cardinality(Before(i)) < n
    BY DEF FirstItems
<1>4. F # {}
  <2>1. PICK x \in S : \A y \in S : Position(x) <= Position(y)
      BY Foremost
  <2>2. Before(x) = {}
      BY <1>1, <2>1
  <2> QED
      BY <1>3, <2>2, FS_EmptySet
<1>5. Max(P) \in P /\ \A y \in P : Max(P) >= y
  <2>1. P \in SUBSET Places /\ P # {}
      BY <1>3, <1>4, PositionType
  <2> HIDE DEF P
  <2>2. \E x \in P : \A y \in P : x >= y
      BY <2>1, PositionType, Greatest DEF Places
  <2> QED
      BY <2>2 DEF Max
<1>6. PICK k \in F : Position(k) = End(F)
    BY <1>5 DEF End
<1>7. \A i \in F : Position(i) <= End(F)
    BY <1>1, <1>3, <1>5 DEF End
<1>8. ASSUME NEW j \in S, j \notin F
      PROVE  Position(j) > End(F) /\ Cardinality(Before(j)) >= n
  <2>1. Cardinality(Before(j)) >= n
      BY <1>2, <1>3, <1>8
  <2>2. ASSUME Position(j) <= Position(k)
        PROVE  FALSE
    <3>1. Before(j) \subseteq Before(k)
        BY <1>1, <1>3, <2>2
    <3>2. Cardinality(Before(j)) <= Cardinality(Before(k)) /\ Cardinality(Before(k)) < n
        BY <1>2, <1>3, <3>1, FS_Subset
    <3>3. Cardinality(Before(j)) \in Nat /\ Cardinality(Before(k)) \in Nat
        BY <1>2, <1>3
    <3> HIDE DEF Before
    <3> QED
        BY <2>1, <3>2, <3>3
  <2> QED
      BY <1>1, <1>3, <1>6, <2>1, <2>2
<1>9. End(F) # 0
    BY <1>3, <1>6, NoPositionIsZero
<1> QED
    BY <1>4, <1>6, <1>7, <1>8, <1>9

\* A list w that shows the documents S of v as far as they fit: all of them, or those up
\* to its next page, when there are enough to fill the window.
Cuts(w, v, S) ==
    \/ w.items = S /\ w.next = v.next
    \/ /\ w.next # 0 /\ w.items \subseteq S
       /\ \E k \in w.items : Position(k) = w.next
       /\ \A i \in w.items : Position(i) <= w.next
       /\ \A j \in S \ w.items :
             /\ Position(j) > w.next
             /\ Cardinality({x \in S : Position(x) < Position(j)}) >= v.window

\* "What does not fit the pages asked for stays in the storage".
LEMMA ClippedCuts ==
    ASSUME NEW v \in Views, NEW S \in SUBSET Items, OnePerId(S)
    PROVE  Cuts(Clipped(v, S), v, S)
<1> DEFINE kept == FirstItems(v.window, S)
<1>1. v.window \in Nat \ {0} /\ IsFiniteSet(S)
    BY OnceIsFinite DEF Views
<1>2. CASE Cardinality(S) <= v.window
  <2>1. Clipped(v, S) = [v EXCEPT !.items = S]
      BY <1>2 DEF Clipped
  <2> QED
      BY <2>1 DEF Views, Cuts
<1>3. CASE ~(Cardinality(S) <= v.window)
  <2>1. Clipped(v, S) = [v EXCEPT !.items = kept, !.next = End(kept)]
      BY <1>3 DEF Clipped
  <2>2. S # {}
      BY <1>1, <1>3, FS_EmptySet
  <2>3. kept \subseteq S
      BY DEF FirstItems
  <2>4. /\ End(kept) # 0 /\ \E k \in kept : Position(k) = End(kept)
        /\ \A i \in kept : Position(i) <= End(kept)
        /\ \A j \in S \ kept : /\ Position(j) > End(kept)
                               /\ Cardinality({x \in S : Position(x) < Position(j)}) >= v.window
      BY <1>1, <2>2, FirstItemsEnd
  <2> HIDE DEF kept
  <2>5. Clipped(v, S).items = kept /\ Clipped(v, S).next = End(kept)
      BY <2>1 DEF Views
  <2> QED
      BY <2>3, <2>4, <2>5 DEF Cuts
<1> QED
    BY <1>2, <1>3

\* The documents a change makes of the list v, before they are clipped.
Makes(S, v, added, modified, removed) ==
    /\ S \in SUBSET Items /\ OnePerId(S)
    /\ \A i \in v.items : /\ i.id \notin removed
                          /\ \A c \in added \cup modified : c.id # i.id
                          => i \in S
    /\ \A i \in added : i.id \notin removed => i \in S
    /\ \A i \in modified : i.id \notin removed /\ On(v, i.id) => i \in S
    /\ \A i \in S : i \in added \cup modified \/ i \in v.items

LEMMA AppliedCuts ==
    ASSUME NEW v \in Views, OnePerId(v.items),
           NEW added \in SUBSET Items, NEW modified \in SUBSET Items, NEW removed \in SUBSET Ids,
           OnePerId(added \cup modified)
    PROVE  \E S : /\ Makes(S, v, added, modified, removed)
                  /\ Cuts(Applied(v, added, modified, removed), v, S)
<1> DEFINE changed == added \cup modified
           U == Updated(v, changed)
           S == {i \in U \cup {a \in added : ~On(v, a.id)} : i.id \notin removed}
<1>0. /\ changed \in SUBSET Items /\ OnePerId(changed) /\ v.items \in SUBSET Items
      /\ added \subseteq changed /\ modified \subseteq changed
    BY DEF Views
<1>1. CASE changed = {} /\ removed = {}
  <2>1. Makes(v.items, v, added, modified, removed)
      BY <1>0, <1>1 DEF Makes, OnePerId
  <2>2. Applied(v, added, modified, removed) = v
      BY <1>1 DEF Applied
  <2> QED
      BY <2>1, <2>2 DEF Cuts
<1>2. CASE ~(changed = {} /\ removed = {})
  <2>1. Applied(v, added, modified, removed) = Clipped(v, S)
      BY <1>2 DEF Applied
  <2>2. \A i \in U : \/ i \in changed /\ \E j \in v.items : j.id = i.id
                     \/ i \in v.items /\ \A c \in changed : c.id # i.id
    <3> SUFFICES ASSUME NEW j \in v.items,
                        NEW i, i = IF \E c \in changed : c.id = j.id THEN CHOOSE c \in changed : c.id = j.id ELSE j
                 PROVE  \/ i \in changed /\ \E k \in v.items : k.id = i.id
                        \/ i \in v.items /\ \A c \in changed : c.id # i.id
        BY DEF Updated
    <3> HIDE DEF changed
    <3>1. CASE \E c \in changed : c.id = j.id
      <4>1. i \in changed /\ i.id = j.id
          BY <3>1
      <4> QED
          BY <4>1
    <3>2. CASE ~\E c \in changed : c.id = j.id
        BY <3>2
    <3> QED
        BY <3>1, <3>2
  <2>3. \A c \in changed : On(v, c.id) => c \in U
    <3> HIDE DEF changed
    <3> SUFFICES ASSUME NEW c \in changed, NEW j \in v.items, j.id = c.id
                 PROVE  c \in U
        BY DEF On
    <3>1. (CHOOSE d \in changed : d.id = j.id) = c
        BY <1>0 DEF OnePerId
    <3> QED
        BY <3>1 DEF Updated
  <2>4. \A i \in v.items : (\A c \in changed : c.id # i.id) => i \in U
    <3> HIDE DEF changed
    <3> QED
        BY DEF Updated
  <2>5. \A i \in S : i.id \notin removed /\ (i \in U \/ (i \in added /\ ~On(v, i.id)))
      OBVIOUS
  <2>6. \A i : i.id \notin removed /\ (i \in U \/ (i \in added /\ ~On(v, i.id))) => i \in S
    <3> HIDE DEF U
    <3> QED
        OBVIOUS
  <2> HIDE DEF U, S, changed
  <2>7. S \in SUBSET Items /\ OnePerId(S)
    <3>1. S \in SUBSET Items
        BY <1>0, <2>2, <2>5
    <3>2. \A i, j \in S : i.id = j.id => i = j
        BY <1>0, <2>2, <2>5 DEF OnePerId, On
    <3> QED
        BY <3>1, <3>2 DEF OnePerId
  <2>8. Makes(S, v, added, modified, removed)
    <3>1. \A i \in added : i.id \notin removed => i \in S
        BY <1>0, <2>3, <2>6
    <3>2. \A i \in modified : i.id \notin removed /\ On(v, i.id) => i \in S
        BY <1>0, <2>3, <2>6
    <3>3. \A i \in v.items : /\ i.id \notin removed
                             /\ \A c \in added \cup modified : c.id # i.id
                             => i \in S
        BY <2>4, <2>6 DEF changed
    <3>4. \A i \in S : i \in added \cup modified \/ i \in v.items
        BY <1>0, <2>2, <2>5 DEF changed
    <3> QED
        BY <2>7, <3>1, <3>2, <3>3, <3>4 DEF Makes
  <2>9. Cuts(Clipped(v, S), v, S)
      BY <2>7, ClippedCuts
  <2> QED
      BY <2>1, <2>8, <2>9
<1> QED
    BY <1>1, <1>2

LEMMA ReceivedCuts ==
    ASSUME NEW v \in Views, OnePerId(v.items), Cardinality(v.items) <= v.window,
           NEW from \in {"query", "realtime"},
           NEW added \in SUBSET Items, NEW modified \in SUBSET Items, NEW removed \in SUBSET Ids,
           OnePerId(added \cup modified)
    PROVE  \E S : /\ Makes(S, v, added, modified, removed)
                  /\ Cuts(Received(v, from, added, modified, removed), v, S)
<1> DEFINE e == [Emission EXCEPT !.from = from, !.changes = TRUE, !.idle = from = "query"]
           t == Tapped(v, e)
           a == Applied(t, added, modified, removed)
<1>1. e \in Emissions
    BY DEF Emission, Emissions
<1> HIDE DEF e
<1>2. t \in Views /\ Alike(t, v)
    BY <1>1, TappedKeeps
<1> HIDE DEF t
<1>3. OnePerId(t.items) /\ Cardinality(t.items) <= t.window
    BY <1>2 DEF Alike
<1>4. PICK S : Makes(S, t, added, modified, removed) /\ Cuts(a, t, S)
    BY <1>2, <1>3, AppliedCuts
<1>5. Shows(a, t, added, modified, removed)
    BY <1>2, <1>3, AppliedShows
<1> HIDE DEF a
<1>6. Settled(a) \in Views /\ Alike(Settled(a), a)
    BY <1>5, SettledKeeps DEF Shows
<1>7. Received(v, from, added, modified, removed) = Settled(a)
    BY DEF Received, a, t, e
<1>8. Makes(S, v, added, modified, removed)
    BY <1>2, <1>4 DEF Makes, Alike, On
<1>9. Cuts(Settled(a), v, S)
    BY <1>2, <1>4, <1>6 DEF Cuts, Alike
<1> QED
    BY <1>7, <1>8, <1>9

\* What matches past a cursor is in the page read there, or past the page's own cursor.
LEMMA NextPage ==
    ASSUME store \in Stores, NEW f \in Tags, NEW after \in Places
    PROVE  /\ \A d \in Ids : store[d].tag = f /\ Position(Item(d, store[d])) > after =>
                 \/ Item(d, store[d]) \in Page(f, after)
                 \/ NextOf(f, after) # 0 /\ Position(Item(d, store[d])) > NextOf(f, after)
           /\ \A p \in Page(f, after) :
                 /\ Position(p) > after
                 /\ NextOf(f, after) # 0 => Position(p) <= NextOf(f, after)
           /\ NextOf(f, after) # 0 => NextOf(f, after) >= after
<1> DEFINE B == Beyond(f, after)
           page == Page(f, after)
           next == NextOf(f, after)
<1>1. \A i \in B : i \in Items /\ i = Item(i.id, store[i.id]) /\ Position(i) > after
  <2> SUFFICES ASSUME NEW d \in Ids, store[d].tag = f, NEW i, i = Item(d, store[d]), Position(i) > after
               PROVE  i \in Items /\ i = Item(i.id, store[i.id])
      BY DEF Beyond, Matching
  <2>1. store[d] \in Data
      BY CollectionNoneAssumption DEF Stores, Absent
  <2> QED
      BY <2>1, ItemType
<1>2. \A d \in Ids : store[d].tag = f /\ Position(Item(d, store[d])) > after => Item(d, store[d]) \in B
    BY DEF Beyond, Matching
<1>3. page = FirstItems(Limit, B)
    BY DEF Page
<1>4. /\ page # {} /\ (page # B \/ Completeness # "complete") => next = End(page)
      /\ page # {} /\ ~(page # B \/ Completeness # "complete") => next = 0
      /\ page = {} => next \in {0, after}
    BY DEF NextOf
<1> HIDE DEF B, next, page
<1>5. B \in SUBSET Items /\ OnePerId(B)
    BY <1>1 DEF OnePerId
<1>6. Limit \in Nat \ {0} /\ after \in Nat
    BY CollectionBoundsAssumption, PositionType
<1>7. page \subseteq B
    BY <1>3 DEF FirstItems
<1>8. CASE B = {}
    BY <1>2, <1>4, <1>6, <1>7, <1>8 DEF page, next
<1>9. CASE B # {}
  <2> DEFINE end == End(page)
  <2>1. /\ page # {} /\ end # 0
        /\ \E k \in page : Position(k) = end
        /\ \A i \in page : Position(i) <= end
        /\ \A j \in B \ page : Position(j) > end
      BY <1>3, <1>5, <1>6, <1>9, FirstItemsEnd
  <2>2. next = end \/ (next = 0 /\ page = B)
      BY <1>4, <2>1
  <2> HIDE DEF end
  <2>3. end > after /\ end \in Nat
      BY <1>1, <1>7, <2>1, PositionType
  <2>4. \A p \in page : Position(p) > after /\ (next # 0 => Position(p) <= next)
      BY <1>1, <1>7, <2>1, <2>2
  <2>5. \A i \in B : i \in page \/ (next # 0 /\ Position(i) > next)
      BY <2>1, <2>2
  <2>6. next # 0 => next >= after
      BY <1>6, <2>2, <2>3
  <2> QED
      BY <1>2, <2>4, <2>5, <2>6 DEF page, next
<1> QED
    BY <1>8, <1>9

-----------------------------------------------------------------------------
(* What is not on the screen is in reach, or on its way *)

Flushing == \E k \in DOMAIN calls : calls[k].flush

\* A document that matches is on the screen or past the next page.
Reached(d) ==
    store[d].tag = view.filter =>
        \/ Item(d, store[d]) \in view.items
        \/ view.next # 0 /\ Position(Item(d, store[d])) > view.next

\* Or the last broadcast about it will bring it: it adds the document, or is the first of
\* all and changes a document of the list.
Brought(s, d) == \E k \in DOMAIN s : Latest(s, k, d) /\ (Adds(s[k], d) \/ (k = 1 /\ On(view, d)))
Soon(d) == Delayed(d) \/ Reached(d) \/ Brought(casts, d)

\* While a change to a document comes as `modified` only when it is on the screen and
\* nothing is on its way, such a broadcast is the first one.
ModifiedFirst == \A k \in DOMAIN casts : casts[k].modified # {} => k = 1

\* A query for a first page waits alone and without a cursor; one for a later page has one.
CallsInTurn ==
    \A k \in DOMAIN calls :
        /\ calls[k].flush => k = 1 /\ calls[k].phase = "asked" /\ calls[k].after = 0
        /\ ~calls[k].flush => calls[k].after # 0

\* Until a first page is asked for again: every document is in reach or will be, the list
\* ends before its next page, and that page is the one every call waits for.
InPlace ==
    /\ \A d \in Ids : Soon(d)
    /\ view.next # 0 => \A i \in view.items : Position(i) <= view.next
    /\ \A k \in DOMAIN calls : calls[k].after = view.next
ReachOK == ModifiedFirst /\ CallsInTurn /\ (view.asked /\ ~holed /\ ~Flushing => InPlace)
ReachIInv == ListIInv /\ ReachOK

-----------------------------------------------------------------------------
(* Broadcasts that join the others *)

\* A broadcast that brings a document still does when others about other documents follow.
LEMMA StillBrought ==
    ASSUME NEW s \in Seq(CastRecord), NEW t \in Seq(CastRecord), NEW d, Silent(t, d), Brought(s, d)
    PROVE  Brought(s \o t, d)
<1>1. PICK k \in DOMAIN s : Latest(s, k, d) /\ (Adds(s[k], d) \/ (k = 1 /\ On(view, d)))
    BY DEF Brought
<1>2. /\ DOMAIN s \subseteq DOMAIN (s \o t)
      /\ \A l \in DOMAIN s : (s \o t)[l] = s[l]
      /\ \A l \in DOMAIN (s \o t) : l \in DOMAIN s \/ (l - Len(s) \in DOMAIN t /\ (s \o t)[l] = t[l - Len(s)])
    OBVIOUS
<1>3. Latest(s \o t, k, d)
    BY <1>1, <1>2 DEF Latest, Silent
<1> QED
    BY <1>1, <1>2, <1>3 DEF Brought

\* An `added` brings its document when it is the only one of those that follow about it.
LEMMA NewlyBrought ==
    ASSUME NEW s \in Seq(CastRecord), NEW t \in Seq(CastRecord), NEW d, OnceAbout(t, d),
           NEW m \in DOMAIN t, Adds(t[m], d)
    PROVE  Brought(s \o t, d)
<1>1. /\ m + Len(s) \in DOMAIN (s \o t) /\ (s \o t)[m + Len(s)] = t[m]
      /\ \A l \in DOMAIN (s \o t) : l > m + Len(s) =>
            l - Len(s) \in DOMAIN t /\ l - Len(s) # m /\ (s \o t)[l] = t[l - Len(s)]
    OBVIOUS
<1>2. About(t[m], d)
    BY DEF About, Adds
<1>3. \A l \in DOMAIN t : l # m => ~About(t[l], d)
    BY <1>2 DEF OnceAbout
<1>4. Latest(s \o t, m + Len(s), d)
    BY <1>1, <1>2, <1>3 DEF Latest
<1> QED
    BY <1>1, <1>4 DEF Brought

\* The list stays in its place when broadcasts join those on their way, and what they are
\* not about stays as it was, or waits for the end of an add.
LEMMA MoreInPlace ==
    ASSUME InPlace, casts \in Seq(CastRecord),
           NEW more \in Seq(CastRecord), casts' = casts \o more,
           view'.items = view.items, view'.filter = view.filter, view'.next = view.next,
           \A j \in DOMAIN calls' : calls'[j].after = view.next,
           \A d \in Ids : OnceAbout(more, d),
           \A d \in Ids : Silent(more, d) =>
               Delayed(d)' \/ (store'[d] = store[d] /\ ~Delayed(d)),
           \A d \in Ids : ~Silent(more, d) =>
               Soon(d)' \/ \E m \in DOMAIN more : Adds(more[m], d)
    PROVE  InPlace'
<1>1. ASSUME NEW d \in Ids
      PROVE  Soon(d)'
  <2>1. CASE Silent(more, d)
    <3>1. CASE Delayed(d)'
        BY <3>1 DEF Soon
    <3>2. CASE store'[d] = store[d] /\ ~Delayed(d)
      <4>1. Reached(d) \/ Brought(casts, d)
          BY <3>2 DEF InPlace, Soon
      <4>2. Reached(d) => Reached(d)'
          BY <3>2 DEF Reached
      <4>3. ASSUME Brought(casts, d)
            PROVE  Brought(casts, d)'
        <5>1. Brought(casts \o more, d)
            BY <2>1, <4>3, StillBrought
        <5> QED
            BY <5>1 DEF Brought, On
      <4> QED
          BY <4>1, <4>2, <4>3 DEF Soon
    <3> QED
        BY <2>1, <3>1, <3>2
  <2>2. CASE \E m \in DOMAIN more : Adds(more[m], d)
    <3>1. Brought(casts \o more, d)
        BY <2>2, NewlyBrought
    <3>2. Brought(casts, d)'
        BY <3>1 DEF Brought, On
    <3> QED
        BY <3>2 DEF Soon
  <2> QED
      BY <2>1, <2>2
<1>2. view'.next # 0 => \A i \in view'.items : Position(i) <= view'.next
    BY DEF InPlace
<1> QED
    BY <1>1, <1>2 DEF InPlace

\* So it does when nothing is broadcast.
LEMMA StillInPlace ==
    ASSUME InPlace,
           view'.items = view.items, view'.filter = view.filter, view'.next = view.next,
           \A j \in DOMAIN calls' : calls'[j].after = view.next,
           casts' = casts,
           \A d \in Ids : Delayed(d)' \/ (store'[d] = store[d] /\ ~Delayed(d))
    PROVE  InPlace'
<1>1. ASSUME NEW d \in Ids
      PROVE  Soon(d)'
  <2>1. CASE Delayed(d)'
      BY <2>1 DEF Soon
  <2>2. CASE store'[d] = store[d] /\ ~Delayed(d)
    <3>1. Reached(d) \/ Brought(casts, d)
        BY <2>2 DEF InPlace, Soon
    <3>2. Reached(d) => Reached(d)'
        BY <2>2 DEF Reached
    <3>3. Brought(casts, d) => Brought(casts, d)'
        BY DEF Brought, On
    <3> QED
        BY <3>1, <3>2, <3>3 DEF Soon
  <2> QED
      BY <2>1, <2>2
<1>2. view'.next # 0 => \A i \in view'.items : Position(i) <= view'.next
    BY DEF InPlace
<1> QED
    BY <1>1, <1>2 DEF InPlace

-----------------------------------------------------------------------------
(* Every step keeps the list in its place *)

LEMMA StaysInPlace ==
    ASSUME ReachOK, ModifiedFirst', CallsInTurn', view'.asked = view.asked, holed' = holed,
           Flushing => Flushing', InPlace => InPlace'
    PROVE  ReachOK'
BY DEF ReachOK

\* A later page goes from one phase to the next.
LEMMA PhaseInTurn ==
    ASSUME CallsInTurn, calls \in Seq(CallRecord), NEW k \in DOMAIN calls, ~calls[k].flush,
           NEW p, calls' = [calls EXCEPT ![k].phase = p]
    PROVE  /\ CallsInTurn' /\ (Flushing => Flushing')
           /\ InPlace => \A j \in DOMAIN calls' : calls'[j].after = view.next
<1>1. \A j \in DOMAIN calls : calls[j] \in CallRecord
    OBVIOUS
<1>2. /\ DOMAIN calls' = DOMAIN calls
      /\ \A j \in DOMAIN calls : /\ calls'[j].flush = calls[j].flush /\ calls'[j].after = calls[j].after
                                 /\ j # k => calls'[j] = calls[j]
    BY <1>1 DEF CallRecord
<1>3. CallsInTurn'
    BY <1>2 DEF CallsInTurn
<1> QED
    BY <1>2, <1>3 DEF Flushing, InPlace

\* The status of the sync does not change what the list shows.
LEMMA SyncAlike ==
    ASSUME ListIInv,
           \/ \E k \in DOMAIN calls : AskServer(k) \/ Extend(k) \/ ExtendFails(k)
           \/ LoadStarts \/ LoadBrings \/ LoadEnds \/ LoadFails
    PROVE  Alike(view', view)
<1>1. CASE \E k \in DOMAIN calls : AskServer(k)
  <2> DEFINE e == [Emission EXCEPT !.load = "next"]
  <2>1. e \in Emissions /\ view' = Told(view, e)
      BY <1>1 DEF Emission, Emissions, AskServer
  <2> HIDE DEF e
  <2> QED
      BY <2>1, ViewType, ToldKeeps
<1>2. CASE \E k \in DOMAIN calls : Extend(k)
  <2>1. CASE view' = view
      BY <2>1 DEF Alike
  <2>2. CASE view' # view
    <3> DEFINE known == IF remote' = {} THEN "complete" ELSE "partial"
               e == [Emission EXCEPT !.idle = TRUE, !.known = known]
    <3>1. e \in Emissions /\ view' = Told(view, e)
        BY <1>2, <2>2 DEF Emission, Emissions, Extend, Known
    <3> HIDE DEF e
    <3> QED
        BY <3>1, ViewType, ToldKeeps
  <2> QED
      BY <2>1, <2>2
<1>3. CASE \E k \in DOMAIN calls : ExtendFails(k)
  <2> DEFINE e == [Emission EXCEPT !.idle = TRUE, !.known = Completeness]
             error == [Emission EXCEPT !.error = TRUE]
             told == Told(view, e)
  <2>1. e \in Emissions /\ error \in Emissions /\ view' = Told(told, error)
      BY <1>3, ViewType DEF Emission, Emissions, ExtendFails
  <2> HIDE DEF e, error
  <2>2. told \in Views /\ Alike(told, view)
      BY <2>1, ViewType, ToldKeeps
  <2> HIDE DEF told
  <2>3. Alike(view', told)
      BY <2>1, <2>2, ToldKeeps
  <2> QED
      BY <2>2, <2>3 DEF Alike
<1>4. CASE LoadStarts
  <2> DEFINE e == [Emission EXCEPT !.load = "all", !.known = "unknown"]
  <2>1. e \in Emissions /\ view' = Told(view, e)
      BY <1>4 DEF Emission, Emissions, LoadStarts, Known
  <2> HIDE DEF e
  <2> QED
      BY <2>1, ViewType, ToldKeeps
<1>5. CASE LoadBrings
    BY <1>5 DEF LoadBrings, Alike
<1>6. CASE LoadEnds
  <2> DEFINE known == IF remote = {} THEN "complete" ELSE "partial"
             e == [Emission EXCEPT !.idle = TRUE, !.known = known]
  <2>1. e \in Emissions /\ view' = Told(view, e)
      BY <1>6 DEF Emission, Emissions, LoadEnds, Known
  <2> HIDE DEF e
  <2> QED
      BY <2>1, ViewType, ToldKeeps
<1>7. CASE LoadFails
  <2> DEFINE e == [Emission EXCEPT !.error = TRUE, !.known = "unknown"]
  <2>1. e \in Emissions /\ view' = Told(view, e)
      BY <1>7 DEF Emission, Emissions, LoadFails, Known
  <2> HIDE DEF e
  <2> QED
      BY <2>1, ViewType, ToldKeeps
<1> QED
    BY <1>1, <1>2, <1>3, <1>4, <1>5, <1>6, <1>7

\* A page of the server is broadcast as `added`.
LEMMA ArriveInPlace ==
    ASSUME ListIInv, ModifiedFirst, NEW docs \in SUBSET remote, NEW f \in [docs -> Tags], Arrive(docs, f),
           view'.items = view.items, view'.filter = view.filter, view'.next = view.next,
           InPlace => \A j \in DOMAIN calls' : calls'[j].after = view.next,
           delayed' = delayed
    PROVE  ModifiedFirst' /\ (InPlace => InPlace')
<1>0. casts \in Seq(CastRecord) /\ remote \subseteq Ids
    BY DEF ListIInv, QueueTypes, DeviceTypes
<1>1. \A d \in Ids : store'[d] = IF d \in docs THEN [rank |-> d, tag |-> f[d]] ELSE store[d]
    BY DEF Arrive
<1>2. \A d \in docs : d \in Ids /\ [rank |-> d, tag |-> f[d]] \in Data
    BY <1>0 DEF Data
<1>3. \A d \in Ids : Delayed(d)' = Delayed(d)
    BY DEF Delayed
<1> DEFINE brought == {Item(d, [rank |-> d, tag |-> f[d]]) : d \in docs}
           cast == [from |-> "query", added |-> brought, modified |-> {}, removed |-> {}]
<1>4. /\ \A i \in brought : i \in Items /\ i.id \in docs
      /\ \A e \in docs : \E i \in brought : i.id = e
  <2>1. \A d \in docs : /\ Item(d, [rank |-> d, tag |-> f[d]]) \in Items
                        /\ Item(d, [rank |-> d, tag |-> f[d]]).id = d
      BY <1>2, ItemType
  <2> QED
      BY <2>1
<1>5. casts' = IF docs = {} THEN casts ELSE Append(casts, cast)
    BY DEF Arrive
<1> HIDE DEF brought
<1>6. cast \in CastRecord /\ cast.modified = {} /\ \A e : (Adds(cast, e) <=> e \in docs) /\ (About(cast, e) <=> e \in docs)
    BY <1>4 DEF CastRecord, Adds, About
<1> HIDE DEF cast
<1>7. CASE docs = {}
  <2>1. \A d \in Ids : Delayed(d)' \/ (store'[d] = store[d] /\ ~Delayed(d))
      BY <1>1, <1>3, <1>7
  <2>2. InPlace => InPlace'
      BY <1>5, <1>7, <2>1, StillInPlace
  <2> QED
      BY <1>5, <1>7, <2>2 DEF ModifiedFirst
<1>8. CASE docs # {}
  <2>0. <<cast>> \in Seq(CastRecord)
      BY <1>6
  <2>1. PICK more \in Seq(CastRecord) : more = <<cast>>
      BY <2>0
  <2>2. DOMAIN more = {1} /\ more[1] = cast /\ casts' = casts \o more
      BY <1>0, <1>5, <1>6, <1>8, <2>1
  <2>3. ModifiedFirst'
      BY <1>0, <1>5, <1>6, <1>8 DEF ModifiedFirst
  <2>4. \A e \in Ids : OnceAbout(more, e) /\ (Silent(more, e) <=> e \notin docs)
      BY <1>6, <2>2 DEF OnceAbout, Silent
  <2>5. \A e \in Ids : ~Silent(more, e) => Soon(e)' \/ \E m \in DOMAIN more : Adds(more[m], e)
      BY <1>6, <2>2, <2>4
  <2>6. \A e \in Ids : Silent(more, e) => Delayed(e)' \/ (store'[e] = store[e] /\ ~Delayed(e))
      BY <1>1, <1>3, <2>4
  <2>7. InPlace => InPlace'
      BY <1>0, <2>2, <2>4, <2>5, <2>6, MoreInPlace
  <2> QED
      BY <2>3, <2>7
<1> QED
    BY <1>7, <1>8

\* The sync tells its status, goes from one phase to the next or brings a page.
LEMMA SyncInPlace ==
    ASSUME ListIInv, ReachOK,
           \/ \E k \in DOMAIN calls : AskServer(k) \/ Extend(k) \/ ExtendFails(k)
           \/ LoadStarts \/ LoadBrings \/ LoadEnds \/ LoadFails
    PROVE  ReachOK'
<1>0. /\ ModifiedFirst /\ CallsInTurn /\ calls \in Seq(CallRecord)
      /\ Alike(view', view) /\ UNCHANGED <<lockVars, holed>>
  <2>1. Alike(view', view) /\ calls \in Seq(CallRecord)
      BY SyncAlike, ViewType
  <2>2. UNCHANGED <<lockVars, holed>>
      BY DEF AskServer, Extend, ExtendFails, LoadStarts, LoadBrings, LoadEnds, LoadFails
  <2> QED
      BY <2>1, <2>2 DEF ReachOK
<1>1. /\ view'.items = view.items /\ view'.filter = view.filter /\ view'.next = view.next
      /\ view'.asked = view.asked
    BY <1>0 DEF Alike
<1>2. /\ CallsInTurn' /\ (Flushing => Flushing')
      /\ InPlace => \A j \in DOMAIN calls' : calls'[j].after = view.next
  <2>1. CASE calls' = calls
      BY <1>0, <2>1 DEF CallsInTurn, Flushing, InPlace
  <2>2. ASSUME NEW k \in DOMAIN calls, AskServer(k)
        PROVE  ~calls[k].flush /\ calls' = [calls EXCEPT ![k].phase = "extending"]
      BY <1>0, <2>2 DEF AskServer, Short, CallsInTurn
  <2>3. ASSUME NEW k \in DOMAIN calls, Extend(k) \/ ExtendFails(k)
        PROVE  ~calls[k].flush /\ calls' = [calls EXCEPT ![k].phase = "extended"]
      BY <1>0, <2>3 DEF Extend, ExtendFails, CallsInTurn
  <2>4. CASE \E k \in DOMAIN calls : AskServer(k) \/ Extend(k) \/ ExtendFails(k)
    <3>1. PICK k \in DOMAIN calls : AskServer(k) \/ Extend(k) \/ ExtendFails(k)
        BY <2>4
    <3>2. /\ ~calls[k].flush
          /\ \E p \in {"extending", "extended"} : calls' = [calls EXCEPT ![k].phase = p]
        BY <3>1, <2>2, <2>3
    <3> QED
        BY <1>0, <3>2, PhaseInTurn
  <2>5. CASE LoadStarts \/ LoadBrings \/ LoadEnds \/ LoadFails
    <3>1. calls' = calls
        BY <2>5 DEF LoadStarts, LoadBrings, LoadEnds, LoadFails
    <3> QED
        BY <2>1, <3>1
  <2> QED
      BY <2>4, <2>5
<1>3. CASE UNCHANGED <<store, casts>>
  <2>1. \A d \in Ids : Delayed(d)' \/ (store'[d] = store[d] /\ ~Delayed(d))
      BY <1>0, <1>3 DEF Delayed
  <2>2. InPlace => InPlace'
      BY <1>1, <1>2, <1>3, <2>1, StillInPlace
  <2>3. ModifiedFirst'
      BY <1>0, <1>3 DEF ModifiedFirst
  <2> QED
      BY <1>0, <1>1, <1>2, <2>2, <2>3, StaysInPlace
<1>4. CASE \E docs \in SUBSET remote : \E f \in [docs -> Tags] : Arrive(docs, f)
  <2>1. ModifiedFirst' /\ (InPlace => InPlace')
      BY <1>0, <1>1, <1>2, <1>4, ArriveInPlace
  <2> QED
      BY <1>0, <1>1, <1>2, <2>1, StaysInPlace
<1>5. Older(Limit) \in SUBSET remote
    BY DEF Older
<1>6. ASSUME NEW k \in DOMAIN calls, Extend(k)
      PROVE  \/ UNCHANGED <<store, casts>>
             \/ \E docs \in SUBSET remote : \E f \in [docs -> Tags] : Arrive(docs, f)
    BY <1>5, <1>6 DEF Extend
<1>7. LoadBrings => \E docs \in SUBSET remote : \E f \in [docs -> Tags] : Arrive(docs, f)
    BY <1>5 DEF LoadBrings
<1>8. ASSUME \/ \E k \in DOMAIN calls : AskServer(k) \/ ExtendFails(k)
             \/ LoadStarts \/ LoadEnds \/ LoadFails
      PROVE  UNCHANGED <<store, casts>>
    BY <1>8 DEF AskServer, ExtendFails, LoadStarts, LoadEnds, LoadFails
<1> QED
    BY <1>3, <1>4, <1>6, <1>7, <1>8

\* A write joins a broadcast to those on their way, or waits for the end of an add.
LEMMA WriteInPlace ==
    ASSUME Meets = {}, ListIInv, ReachOK, NEW d \in Ids, view.asked,
           Remove(d) \/ \E data \in Data : Add(d, data) \/ Change(d, data)
    PROVE  ReachOK'
<1>0. /\ ModifiedFirst /\ CallsInTurn /\ casts \in Seq(CastRecord) /\ delayed \in Seq(Items)
      /\ store \in Stores /\ ListTypes
    BY DEF ReachOK, ListIInv, QueueTypes, DeviceTypes
<1>1. UNCHANGED <<view, calls, holed>>
    BY DEF Remove, Add, Change
<1>2. /\ CallsInTurn' /\ (Flushing => Flushing')
      /\ InPlace => \A j \in DOMAIN calls' : calls'[j].after = view.next
    BY <1>0, <1>1 DEF CallsInTurn, Flushing, InPlace
<1>3. /\ \A e \in Ids : e # d => store'[e] = store[e]
      /\ UNCHANGED delayed \/ (UNCHANGED casts /\ \E data \in Data : delayed' = Append(delayed, Item(d, data)))
  <2>1. Remove(d) => (\A e \in Ids : e # d => store'[e] = store[e]) /\ UNCHANGED delayed
      BY <1>0 DEF Remove
  <2>2. ASSUME NEW data \in Data, Change(d, data)
        PROVE  (\A e \in Ids : e # d => store'[e] = store[e]) /\ UNCHANGED delayed
      BY <1>0, <2>2 DEF Change
  <2>3. ASSUME NEW data \in Data, Add(d, data)
        PROVE  /\ \A e \in Ids : e # d => store'[e] = store[e]
               /\ UNCHANGED delayed \/ (UNCHANGED casts /\ delayed' = Append(delayed, Item(d, data)))
      BY <1>0, <2>3 DEF Add
  <2> QED
      BY <2>1, <2>2, <2>3
<1>4. \A e \in Ids : e # d => Delayed(e)' = Delayed(e)
  <2>1. CASE UNCHANGED delayed
      BY <2>1 DEF Delayed
  <2>2. ASSUME NEW data \in Data, delayed' = Append(delayed, Item(d, data))
        PROVE  \A e \in Ids : e # d => Delayed(e)' = Delayed(e)
    <3>1. /\ DOMAIN delayed' = DOMAIN delayed \cup {Len(delayed) + 1}
          /\ \A k \in DOMAIN delayed : delayed'[k] = delayed[k]
          /\ delayed'[Len(delayed) + 1].id = d
        BY <1>0, <2>2, ItemType
    <3> QED
        BY <3>1 DEF Delayed
  <2> QED
      BY <1>3, <2>1, <2>2
<1>5. ASSUME NEW c \in CastRecord, casts' = Append(casts, c), \A e : About(c, e) <=> e = d,
             UNCHANGED delayed, ~Delayed(d), Adds(c, d) \/ Soon(d)',
             c.modified = {} \/ casts = <<>>
      PROVE  ReachOK'
  <2>0. <<c>> \in Seq(CastRecord)
      OBVIOUS
  <2>1. PICK more \in Seq(CastRecord) : more = <<c>>
      BY <2>0
  <2>2. DOMAIN more = {1} /\ more[1] = c /\ casts' = casts \o more
      BY <1>0, <1>5, <2>1
  <2>3. \A e \in Ids : OnceAbout(more, e) /\ (Silent(more, e) <=> e # d)
      BY <1>5, <2>2 DEF OnceAbout, Silent
  <2>4. \A e \in Ids : ~Silent(more, e) => Soon(e)' \/ \E m \in DOMAIN more : Adds(more[m], e)
      BY <1>5, <2>2, <2>3
  <2>5. \A e \in Ids : Silent(more, e) => Delayed(e)' \/ (store'[e] = store[e] /\ ~Delayed(e))
      BY <1>3, <1>4, <2>3
  <2>6. InPlace => InPlace'
      BY <1>0, <1>1, <1>2, <2>2, <2>3, <2>4, <2>5, MoreInPlace
  <2>7. ModifiedFirst'
      BY <1>0, <1>5 DEF ModifiedFirst
  <2> QED
      BY <1>0, <1>1, <1>2, <2>6, <2>7, StaysInPlace
<1>6. CASE Remove(d)
  <2>1. /\ casts' = Append(casts, Cast({}, {}, {d})) /\ UNCHANGED delayed /\ ~Delayed(d)
        /\ store' = [store EXCEPT ![d] = Absent]
      BY <1>6 DEF Remove, Steady
  <2>2. Item(d, [rank |-> d, tag |-> view.filter]) \in Items /\ view.filter \in Tags
      BY <1>0, ItemType DEF ListTypes, WellFormed, Views, Data
  <2>3. /\ Cast({}, {}, {d}) \in CastRecord /\ Cast({}, {}, {d}).modified = {}
        /\ \A e : About(Cast({}, {}, {d}), e) <=> e = d
      BY <2>2, OneDocument DEF Cast
  <2>4. store'[d].tag = None
      BY <1>0, <2>1 DEF Stores, Absent
  <2>5. Soon(d)'
      BY <1>1, <2>2, <2>4, CollectionNoneAssumption DEF Soon, Reached
  <2> QED
      BY <1>5, <2>1, <2>3, <2>5
<1>7. ASSUME NEW data \in Data, Add(d, data)
      PROVE  ReachOK'
  <2>1. ~Delayed(d) /\ Item(d, data) \in Items /\ Item(d, data).id = d
      BY <1>7, ItemType DEF Add, Steady
  <2>2. CASE locked
    <3>1. delayed' = Append(delayed, Item(d, data)) /\ casts' = casts
        BY <1>7, <2>2 DEF Add
    <3>2. Delayed(d)'
      <4>1. Len(delayed) + 1 \in DOMAIN delayed' /\ delayed'[Len(delayed) + 1] = Item(d, data)
          BY <1>0, <2>1, <3>1
      <4> QED
          BY <2>1, <4>1 DEF Delayed
    <3>3. InPlace => InPlace'
      <4>1. \A e \in Ids : Delayed(e)' \/ (store'[e] = store[e] /\ ~Delayed(e))
          BY <1>3, <1>4, <3>2
      <4> QED
          BY <1>1, <1>2, <3>1, <4>1, StillInPlace
    <3>4. ModifiedFirst'
        BY <1>0, <3>1 DEF ModifiedFirst
    <3> QED
        BY <1>0, <1>1, <1>2, <3>3, <3>4, StaysInPlace
  <2>3. CASE ~locked
    <3>1. UNCHANGED delayed /\ casts' = Append(casts, Cast({Item(d, data)}, {}, {}))
        BY <1>7, <2>3 DEF Add
    <3>2. /\ Cast({Item(d, data)}, {}, {}) \in CastRecord /\ Cast({Item(d, data)}, {}, {}).modified = {}
          /\ \A e : About(Cast({Item(d, data)}, {}, {}), e) <=> e = d
          /\ Adds(Cast({Item(d, data)}, {}, {}), d)
        BY <2>1, OneDocument DEF Cast, Adds
    <3> QED
        BY <1>5, <2>1, <3>1, <3>2
  <2> QED
      BY <2>2, <2>3
<1>8. ASSUME NEW data \in Data, Change(d, data)
      PROVE  ReachOK'
  <2>1. /\ ~Delayed(d) /\ On(view, d) /\ casts = <<>> /\ UNCHANGED delayed
        /\ casts' = Append(casts, Cast({}, {Item(d, data)}, {}))
      BY <1>8 DEF Change, Steady
  <2>2. Item(d, data) \in Items /\ Item(d, data).id = d
      BY ItemType
  <2>3. /\ Cast({}, {Item(d, data)}, {}) \in CastRecord
        /\ \A e : About(Cast({}, {Item(d, data)}, {}), e) <=> e = d
      BY <2>2, OneDocument
  <2>4. Brought(casts, d)'
    <3>1. PICK c \in CastRecord : c = Cast({}, {Item(d, data)}, {}) /\ About(c, d)
        BY <2>3
    <3>2. casts' = <<c>>
        BY <2>1, <3>1
    <3>3. DOMAIN casts' = {1} /\ About(casts'[1], d) /\ On(view', d)
        BY <1>1, <2>1, <3>1, <3>2
    <3> QED
        BY <3>3 DEF Brought, Latest
  <2> QED
      BY <1>5, <2>1, <2>3, <2>4 DEF Soon
<1> QED
    BY <1>6, <1>7, <1>8

\* What AddLock held back comes as `added`.
LEMMA LocksInPlace ==
    ASSUME ListIInv, ReachOK, Lock \/ Unlock
    PROVE  ReachOK'
<1>0. /\ ModifiedFirst /\ CallsInTurn /\ casts \in Seq(CastRecord) /\ delayed \in Seq(Items)
    BY DEF ReachOK, ListIInv, QueueTypes, DeviceTypes
<1>1. UNCHANGED <<view, calls, holed, store>>
    BY DEF Lock, Unlock
<1>2. /\ CallsInTurn' /\ (Flushing => Flushing')
      /\ InPlace => \A j \in DOMAIN calls' : calls'[j].after = view.next
    BY <1>0, <1>1 DEF CallsInTurn, Flushing, InPlace
<1>3. CASE Lock
  <2>1. casts' = casts /\ delayed' = delayed
      BY <1>3 DEF Lock
  <2>2. \A d \in Ids : Delayed(d)' \/ (store'[d] = store[d] /\ ~Delayed(d))
      BY <1>1, <2>1 DEF Delayed
  <2>3. InPlace => InPlace'
      BY <1>1, <1>2, <2>1, <2>2, StillInPlace
  <2>4. ModifiedFirst'
      BY <1>0, <2>1 DEF ModifiedFirst
  <2> QED
      BY <1>0, <1>1, <1>2, <2>3, <2>4, StaysInPlace
<1>4. CASE Unlock
  <2>1. /\ delayed' = <<>>
        /\ casts' = casts \o [k \in DOMAIN delayed |-> Cast({delayed[k]}, {}, {})]
      BY <1>4 DEF Unlock
  <2>2. \A k \in DOMAIN delayed : delayed[k] \in Items
      BY <1>0
  <2>3. \A k \in DOMAIN delayed : Cast({delayed[k]}, {}, {}) \in CastRecord
      BY <2>2 DEF Cast, CastRecord
  <2>4. [k \in DOMAIN delayed |-> Cast({delayed[k]}, {}, {})] \in Seq(CastRecord)
    <3>1. DOMAIN delayed = 1..Len(delayed) /\ Len(delayed) \in Nat
        BY <1>0
    <3> QED
        BY <2>3, <3>1
  <2>5. PICK more \in Seq(CastRecord) : more = [k \in DOMAIN delayed |-> Cast({delayed[k]}, {}, {})]
      BY <2>4
  <2>6. /\ DOMAIN more = DOMAIN delayed /\ casts' = casts \o more
        /\ \A m \in DOMAIN more : /\ more[m].modified = {} /\ Adds(more[m], delayed[m].id)
                                  /\ \A e : About(more[m], e) <=> e = delayed[m].id
      BY <2>1, <2>5 DEF About, Adds, Cast
  <2>7. \A m, l \in DOMAIN delayed : delayed[l].id = delayed[m].id => l = m
      BY DEF ListIInv, ScreenIInv, Waits
  <2>8. \A e \in Ids : OnceAbout(more, e) /\ (Delayed(e) <=> ~Silent(more, e))
      BY <2>6, <2>7 DEF OnceAbout, Delayed, Silent
  <2>9. \A e \in Ids : ~Silent(more, e) => Soon(e)' \/ \E m \in DOMAIN more : Adds(more[m], e)
      BY <2>6 DEF Silent
  <2>10. \A e \in Ids : Silent(more, e) => Delayed(e)' \/ (store'[e] = store[e] /\ ~Delayed(e))
      BY <1>1, <2>8
  <2>11. InPlace => InPlace'
      BY <1>0, <1>1, <1>2, <2>6, <2>8, <2>9, <2>10, MoreInPlace
  <2>12. ModifiedFirst'
    <3>1. \A k \in DOMAIN casts' : \/ k \in DOMAIN casts /\ casts'[k] = casts[k]
                                   \/ k - Len(casts) \in DOMAIN more /\ casts'[k] = more[k - Len(casts)]
        BY <1>0, <2>6
    <3> QED
        BY <1>0, <2>6, <3>1 DEF ModifiedFirst
  <2> QED
      BY <1>0, <1>1, <1>2, <2>11, <2>12, StaysInPlace
<1> QED
    BY <1>3, <1>4

\* A later page is asked for at the next page of the list.
LEMMA LoadMoreInPlace ==
    ASSUME ListIInv, ReachOK, LoadMore
    PROVE  ReachOK'
<1> DEFINE call == [flush |-> FALSE, filter |-> view.filter, after |-> view.next, phase |-> "asked"]
           clear == [view EXCEPT !.error = FALSE, !.window = WindowOf(FALSE), !.filter = view.filter, !.after = view.next]
<1>0. ModifiedFirst /\ CallsInTurn /\ calls \in Seq(CallRecord) /\ view \in Views
    BY ViewType DEF ReachOK
<1>1. calls' = Append(calls, call) /\ view' = clear /\ view.next # 0
    BY DEF LoadMore, Asks
<1>2. UNCHANGED <<store, casts, delayed, holed>>
    BY DEF LoadMore
<1>3. /\ view'.items = view.items /\ view'.filter = view.filter /\ view'.next = view.next
      /\ view'.asked = view.asked
    BY <1>0, <1>1 DEF Views
<1>4. /\ DOMAIN calls' = DOMAIN calls \cup {Len(calls) + 1}
      /\ \A k \in DOMAIN calls : calls'[k] = calls[k]
      /\ calls'[Len(calls) + 1].flush = FALSE /\ calls'[Len(calls) + 1].after = view.next
    BY <1>0, <1>1
<1>5. CallsInTurn' /\ (Flushing => Flushing')
    BY <1>0, <1>1, <1>4 DEF CallsInTurn, Flushing
<1>6. InPlace => \A j \in DOMAIN calls' : calls'[j].after = view.next
    BY <1>4 DEF InPlace
<1>7. \A d \in Ids : Delayed(d)' \/ (store'[d] = store[d] /\ ~Delayed(d))
    BY <1>2 DEF Delayed
<1>8. InPlace => InPlace'
    BY <1>2, <1>3, <1>6, <1>7, StillInPlace
<1>9. ModifiedFirst'
    BY <1>0, <1>2 DEF ModifiedFirst
<1> QED
    BY <1>2, <1>3, <1>5, <1>8, <1>9, StaysInPlace

\* A first page is asked for.
LEMMA FirstInPlace ==
    ASSUME Meets = {}, ListIInv, ReachOK, Sort \/ \E f \in Asked : Query(f)
    PROVE  ReachOK'
<1>1. /\ calls = <<>> /\ casts' = casts
      /\ \E f : calls' = Append(calls, [flush |-> TRUE, filter |-> f, after |-> 0, phase |-> "asked"])
    BY DEF Sort, Query, Asks
<1>2. PICK c : calls' = Append(<<>>, c) /\ c.flush /\ c.phase = "asked" /\ c.after = 0
    BY <1>1
<1>3. DOMAIN calls' = {1} /\ calls'[1] = c
    BY <1>2
<1> QED
    BY <1>1, <1>2, <1>3 DEF ReachOK, ModifiedFirst, CallsInTurn, Flushing

-----------------------------------------------------------------------------
(* A broadcast reaches the list *)

LEMMA LatestExists ==
    ASSUME NEW s \in Seq(CastRecord), NEW d, ~Silent(s, d)
    PROVE  \E k \in DOMAIN s : Latest(s, k, d)
<1> DEFINE K == Len(s)
           S == {k \in DOMAIN s : About(s[k], d)}
<1>1. K \in Nat /\ DOMAIN s = 1..K
    OBVIOUS
<1> HIDE DEF K
<1>2. S \in SUBSET (0..K) /\ S # {}
    BY <1>1 DEF Silent
<1>3. PICK k \in S : \A l \in S : k >= l
    BY <1>1, <1>2, Greatest
<1> QED
    BY <1>1, <1>3 DEF Latest

\* What a broadcast makes of the list, as far as it fits.
LEMMA DeliverCuts ==
    ASSUME ListTypes, QueueTypes, Deliver
    PROVE  \E S : /\ Makes(S, view, Joining(Head(casts)), Staying(Head(casts)), Parting(Head(casts)))
                  /\ Cuts(view', view, S)
<1> DEFINE cast == Head(casts)
<1>1. cast \in CastRecord /\ CastOK(cast) /\ view \in Views
    BY DeliverShows DEF ListTypes, WellFormed
<1>2. view' = Received(view, cast.from, Joining(cast), Staying(cast), Parting(cast))
    BY DEF Deliver, Joining, Staying, Parting
<1> HIDE DEF cast
<1>3. /\ cast.from \in {"query", "realtime"} /\ cast.added \in SUBSET Items
      /\ cast.modified \in SUBSET Items /\ cast.removed \in SUBSET Ids
    BY <1>1 DEF CastRecord
<1>4. Joining(cast) \in SUBSET Items /\ Staying(cast) \in SUBSET Items /\ Parting(cast) \in SUBSET Ids
    BY <1>3 DEF Joining, Staying, Parting, Leaving, Items
<1>5. OnePerId(Joining(cast) \cup Staying(cast))
    BY <1>1 DEF CastOK, OnePerId, Joining, Staying
<1>6. OnePerId(view.items) /\ Cardinality(view.items) <= view.window
    BY DEF ListTypes, WellFormed
<1> QED
    BY <1>1, <1>2, <1>3, <1>4, <1>5, <1>6, ReceivedCuts DEF cast

LEMMA DeliverInPlace ==
    ASSUME ListIInv, ReachOK, Deliver
    PROVE  ReachOK'
<1> DEFINE h == Head(casts)
<1>0. /\ ListTypes /\ QueueTypes /\ ScreenIInv /\ store \in Stores /\ view \in Views
      /\ ModifiedFirst /\ CallsInTurn /\ casts \in Seq(CastRecord) /\ casts # <<>>
      /\ \A k \in DOMAIN casts : CastOK(casts[k])
    BY DEF ListIInv, ListTypes, WellFormed, QueueTypes, DeviceTypes, ReachOK, Deliver
<1>1. /\ casts' = Tail(casts) /\ UNCHANGED <<calls, store, delayed>>
      /\ holed' = (holed \/ Past \/ Overtaken)
    BY DEF Deliver
<1>2. /\ h \in CastRecord /\ CastOK(h) /\ h = casts[1] /\ 1 \in DOMAIN casts
      /\ Shows(view', view, Joining(h), Staying(h), Parting(h))
    BY <1>0, DeliverShows
<1> HIDE DEF h
<1>3. /\ casts' \in Seq(CastRecord)
      /\ \A k \in DOMAIN casts' : k + 1 \in DOMAIN casts /\ casts'[k] = casts[k + 1] /\ k + 1 # 1
    BY <1>0, <1>1
<1>4. /\ \A k \in DOMAIN casts' : casts'[k].modified = {}
      /\ ModifiedFirst' /\ CallsInTurn' /\ Flushing' = Flushing
    BY <1>0, <1>1, <1>3 DEF ModifiedFirst, CallsInTurn, Flushing
<1>5. view'.asked = view.asked /\ view'.filter = view.filter /\ view' \in Views
    BY <1>2 DEF Shows
<1>6. SUFFICES ASSUME view.asked, ~holed, ~Past, ~Overtaken, ~Flushing, InPlace
               PROVE  InPlace'
    BY <1>1, <1>4, <1>5 DEF ReachOK
<1>7. PICK S : /\ Makes(S, view, Joining(h), Staying(h), Parting(h))
               /\ Cuts(view', view, S)
    BY <1>0, DeliverCuts DEF h
<1>8. view.next \in Nat /\ view'.next \in Nat /\ \A i \in view'.items \cup view.items : Position(i) \in Nat
    BY <1>0, <1>5, PositionType DEF Views
<1>9. /\ view'.next # 0 => \A i \in view'.items : Position(i) <= view'.next
      /\ view.next # 0 => view'.next # 0 /\ view'.next <= view.next
      /\ \A i \in S : i \in view'.items \/ (view'.next # 0 /\ Position(i) > view'.next)
  <2>1. view.next # 0 => \A i \in view'.items : Position(i) <= view.next
      BY <1>6, <1>8 DEF Past
  <2>2. CASE view'.items = S /\ view'.next = view.next
      BY <1>8, <2>1, <2>2
  <2>3. CASE ~(view'.items = S /\ view'.next = view.next)
    <3>1. /\ view'.next # 0
          /\ \E k \in view'.items : Position(k) = view'.next
          /\ \A i \in view'.items : Position(i) <= view'.next
          /\ \A j \in S \ view'.items : Position(j) > view'.next
        BY <1>7, <2>3 DEF Cuts
    <3> QED
        BY <1>8, <2>1, <3>1
  <2> QED
      BY <2>2, <2>3
<1>10. \A k \in DOMAIN calls' : calls'[k].after = view'.next
    BY <1>1, <1>6 DEF Overtaken, Flushing
<1>11. view.filter \in Tags
    BY <1>0, <1>6 DEF ListTypes, Views
<1>12. ASSUME NEW d \in Ids
       PROVE  Soon(d)'
  <2> DEFINE item == Item(d, store[d])
  <2>0. SUFFICES ASSUME ~Delayed(d), store[d].tag = view.filter
                 PROVE  Soon(d)'
      BY <1>1, <1>5 DEF Soon, Delayed, Reached
  <2>1. store[d] # Absent /\ store[d] \in Data
      BY <1>0, <1>11, <2>0, CollectionNoneAssumption DEF Absent, Stores
  <2>2. item \in Items /\ item.id = d /\ item.tag = view.filter
      BY <2>0, <2>1, ItemType DEF Item
  <2>3. Heard(d)
      BY <1>0, <2>0 DEF ScreenIInv, HeardOfAll
  <2>4. item \in S \/ (view.next # 0 /\ Position(item) > view.next) => Reached(d)'
    <3>1. Position(item) \in Nat
        BY <2>2, PositionType
    <3>2. item \in view'.items \/ (view'.next # 0 /\ Position(item) > view'.next) => Reached(d)'
        BY <1>1 DEF Reached
    <3> HIDE DEF item
    <3> QED
        BY <1>8, <1>9, <3>1, <3>2
  <2>5. CASE ~Silent(casts', d)
    <3>1. PICK k \in DOMAIN casts' : Latest(casts', k, d)
        BY <1>3, <2>5, LatestExists
    <3>2. Latest(casts, k + 1, d) /\ casts'[k] = casts[k + 1] /\ k + 1 \in DOMAIN casts
        BY <1>0, <1>1, <3>1, TailTells
    <3>3. Says(casts'[k], d, store[d]) /\ About(casts'[k], d)
        BY <2>3, <3>1, <3>2 DEF Heard, Latest
    <3>4. Adds(casts'[k], d)
        BY <1>4, <2>1, <3>3 DEF Says, About, Adds
    <3> QED
        BY <3>1, <3>4 DEF Soon, Brought
  <2>6. CASE Silent(casts', d) /\ About(h, d)
    <3>1. Latest(casts, 1, d)
        BY <1>0, <1>1, <2>6, TailTells DEF h
    <3>2. Says(h, d, store[d])
        BY <1>2, <2>3, <3>1 DEF Heard
    <3>3. d \notin h.removed /\ item \in h.added \cup h.modified
        BY <2>1, <2>6, <3>2 DEF Says, About
    <3>4. CASE item \in h.added
      <4>1. h.modified = {}
          BY <1>2, <3>4 DEF CastOK
      <4>2. item \in Joining(h) /\ d \notin Parting(h)
          BY <2>2, <3>3, <3>4, <4>1 DEF Joining, Parting, Leaving
      <4>3. item \in S
          BY <1>7, <2>2, <4>2 DEF Makes
      <4> QED
          BY <2>4, <4>3 DEF Soon
    <3>5. CASE item \in h.modified
      <4>1. d \notin Leaving(h.modified)
          BY <2>0 DEF Leaving
      <4>2. item \in Staying(h) /\ d \notin Parting(h)
          BY <2>2, <3>3, <3>5, <4>1 DEF Staying, Parting
      <4>3. CASE On(view, d)
        <5>1. item \in S
            BY <1>7, <2>2, <4>2, <4>3 DEF Makes
        <5> QED
            BY <2>4, <5>1 DEF Soon
      <4>4. CASE ~On(view, d)
        <5>1. ~Adds(h, d)
            BY <1>2, <3>5 DEF CastOK, Adds
        <5>2. ~Brought(casts, d)
          <6> SUFFICES ASSUME NEW k \in DOMAIN casts, Latest(casts, k, d), Adds(casts[k], d)
                       PROVE  FALSE
              BY <4>4 DEF Brought
          <6>1. k = 1
              BY <1>0, <1>2, <3>1 DEF Latest
          <6> QED
              BY <1>2, <5>1, <6>1
        <5>3. Reached(d) /\ item \notin view.items
            BY <1>6, <2>0, <2>2, <4>4, <5>2 DEF InPlace, Soon, On
        <5>4. view.next # 0 /\ Position(item) > view.next
            BY <2>0, <5>3 DEF Reached
        <5> QED
            BY <2>4, <5>4 DEF Soon
      <4> QED
          BY <4>3, <4>4
    <3> QED
        BY <3>3, <3>4, <3>5
  <2>7. CASE Silent(casts', d) /\ ~About(h, d)
    <3>1. Silent(casts, d)
        BY <1>0, <1>1, <2>7, TailTells DEF h
    <3>2. ~Brought(casts, d)
        BY <3>1 DEF Brought, Latest, Silent
    <3>3. Reached(d)
        BY <1>6, <2>0, <3>2 DEF InPlace, Soon
    <3>4. item \in view.items \/ (view.next # 0 /\ Position(item) > view.next)
        BY <2>0, <3>3 DEF Reached
    <3>5. d \notin Parting(h) /\ \A c \in Joining(h) \cup Staying(h) : c.id # d
        BY <2>7 DEF About, Parting, Joining, Staying, Leaving
    <3>6. item \in view.items => item \in S
        BY <1>7, <2>2, <3>5 DEF Makes
    <3> QED
        BY <2>4, <3>4, <3>6 DEF Soon
  <2> QED
      BY <2>5, <2>6, <2>7
<1> QED
    BY <1>9, <1>10, <1>12 DEF InPlace

-----------------------------------------------------------------------------
(* A page reaches the list *)

\* Document d, if it matches, is shown by w or past its next page.
Reaches(w, d) ==
    store[d].tag = w.filter =>
        \/ Item(d, store[d]) \in w.items
        \/ w.next # 0 /\ Position(Item(d, store[d])) > w.next

\* The next page of a list is put behind what it shows: what it does not fit is past the
\* new end, and nothing the list showed has to go for it.
LEMMA NextInPlace ==
    ASSUME store \in Stores, NEW v, WellFormed(v), v.next # 0,
           NEW c, ~c.flush, c.filter = v.filter, c.filter \in Tags, c.after = v.next,
           \A i \in v.items : Position(i) <= v.next
    PROVE  /\ Answered(c, v).next # 0 => \A i \in Answered(c, v).items : Position(i) <= Answered(c, v).next
           /\ \A d \in Ids : Reaches(v, d) => Reaches(Answered(c, v), d)
           /\ \A d \in Ids : On(v, d) => On(Answered(c, v), d) \/ Reaches(Answered(c, v), d)
<1> DEFINE P == Page(c.filter, c.after)
           n == NextOf(c.filter, c.after)
           paged == [v EXCEPT !.next = n]
           a == Applied(paged, P, {}, {})
           w == Answered(c, v)
<1>0. /\ v \in Views /\ OnePerId(v.items) /\ v.window \in Nat \ {0} /\ v.next \in Places
      /\ v.items \in SUBSET Items /\ Cardinality(v.items) <= v.window
    BY DEF WellFormed, Views
<1>1. /\ P \in SUBSET Items /\ OnePerId(P) /\ n \in Places
      /\ \A p \in P : IsStored(p) /\ p.tag = v.filter
    BY <1>0, PageType
<1>2. /\ \A d \in Ids : store[d].tag = v.filter /\ Position(Item(d, store[d])) > v.next =>
            Item(d, store[d]) \in P \/ (n # 0 /\ Position(Item(d, store[d])) > n)
      /\ \A p \in P : Position(p) > v.next /\ (n # 0 => Position(p) <= n)
      /\ n # 0 => n >= v.next
    BY <1>0, NextPage
<1> HIDE DEF n
<1>3. /\ paged \in Views /\ paged.items = v.items /\ paged.next = n /\ paged.filter = v.filter
      /\ paged.window = v.window
    BY <1>0, <1>1 DEF Views
<1>4. w = Settled(a)
    BY DEF Answered, n
<1> HIDE DEF P, paged
<1>5. {} \in SUBSET Items /\ {} \in SUBSET Ids /\ OnePerId(P \cup {}) /\ OnePerId(paged.items)
    BY <1>0, <1>1, <1>3 DEF OnePerId
<1>6. Shows(a, paged, P, {}, {})
    BY <1>0, <1>1, <1>3, <1>5, AppliedShows
<1>7. PICK S : Makes(S, paged, P, {}, {}) /\ Cuts(a, paged, S)
    BY <1>1, <1>3, <1>5, AppliedCuts
<1> HIDE DEF a, w
<1>8. /\ w \in Views /\ w.items = a.items /\ w.next = a.next /\ w.filter = v.filter
    BY <1>3, <1>4, <1>6, SettledKeeps DEF Shows, Alike
<1>9. /\ S \in SUBSET Items /\ OnePerId(S) /\ P \subseteq S
      /\ \A i \in v.items : (\A p \in P : p.id # i.id) => i \in S
      /\ \A i \in S : i \in P \/ i \in v.items
    BY <1>3, <1>7 DEF Makes
<1>10. \/ w.items = S /\ w.next = n
       \/ /\ w.next # 0 /\ w.items \subseteq S
          /\ \E k \in w.items : Position(k) = w.next
          /\ \A i \in w.items : Position(i) <= w.next
          /\ \A j \in S \ w.items :
                /\ Position(j) > w.next
                /\ Cardinality({x \in S : Position(x) < Position(j)}) >= v.window
    BY <1>3, <1>7, <1>8 DEF Cuts
<1>11. /\ v.next \in Nat /\ n \in Nat /\ w.next \in Nat
       /\ \A i \in S \cup v.items : Position(i) \in Nat
    BY <1>0, <1>1, <1>8, <1>9, PositionType DEF Views
<1>12. n # 0 => \A i \in S : Position(i) <= n
  <2> SUFFICES ASSUME n # 0, NEW i \in S
               PROVE  Position(i) <= n
      OBVIOUS
  <2>1. CASE i \in P
      BY <1>2, <2>1
  <2>2. CASE i \in v.items
    <3>1. Position(i) <= v.next /\ v.next <= n /\ Position(i) \in Nat
        BY <1>2, <1>11, <2>2
    <3> QED
        BY <1>11, <3>1
  <2> QED
      BY <1>9, <2>1, <2>2
<1>13. \A i \in S : i \in w.items \/ (w.next # 0 /\ Position(i) > w.next)
    BY <1>10
<1>14. n # 0 => w.next # 0 /\ w.next <= n
    BY <1>10, <1>11, <1>12
<1>15. w.next # 0 => \A i \in w.items : Position(i) <= w.next
    BY <1>10, <1>12
<1>16. ASSUME NEW d \in Ids, \E p \in P : p.id = d
       PROVE  Reaches(w, d)
    BY <1>1, <1>9, <1>13, <1>16 DEF Reaches, IsStored
<1>17. ASSUME NEW d \in Ids, Reaches(v, d)
       PROVE  Reaches(w, d)
  <2> DEFINE item == Item(d, store[d])
  <2>1. SUFFICES ASSUME store[d].tag = v.filter, \A p \in P : p.id # d
                 PROVE  item \in w.items \/ (w.next # 0 /\ Position(item) > w.next)
      BY <1>8, <1>16 DEF Reaches
  <2>2. item.id = d /\ Position(item) \in Nat
    <3>1. store[d] \in Data
        BY <2>1, CollectionNoneAssumption DEF Stores, Absent
    <3> QED
        BY <3>1, ItemType, PositionType
  <2>3. item \in v.items \/ Position(item) > v.next
      BY <1>17, <2>1 DEF Reaches
  <2>4. Position(item) > v.next => n # 0 /\ Position(item) > n
      BY <1>2, <2>1, <2>2
  <2> HIDE DEF item
  <2>5. CASE item \in v.items
      BY <1>9, <1>13, <2>1, <2>2, <2>5
  <2>6. CASE Position(item) > v.next
      BY <1>11, <1>14, <2>2, <2>4, <2>6
  <2> QED
      BY <2>3, <2>5, <2>6
<1>18. ASSUME NEW d \in Ids, On(v, d)
       PROVE  On(w, d) \/ Reaches(w, d)
  <2>1. SUFFICES ASSUME \A p \in P : p.id # d
                 PROVE  On(w, d)
      BY <1>16
  <2>2. PICK i \in v.items : i.id = d
      BY <1>18 DEF On
  <2>3. i \in S
      BY <1>9, <2>1, <2>2
  <2> DEFINE before == {x \in S : Position(x) < Position(i)}
  <2>4. before \subseteq v.items \ {i}
    <3> SUFFICES ASSUME NEW x \in S, Position(x) < Position(i)
                 PROVE  x \in v.items /\ x # i
        OBVIOUS
    <3>1. Position(x) \in Nat /\ Position(i) \in Nat /\ Position(i) <= v.next
        BY <1>11
    <3>2. x \notin P
        BY <1>2, <1>11, <3>1
    <3> QED
        BY <1>9, <3>1, <3>2
  <2>5. Cardinality(before) < v.window
    <3>1. IsFiniteSet(v.items) /\ Cardinality(v.items) \in Nat
        BY <1>0, OnceIsFinite, FS_CardinalityType
    <3>2. /\ IsFiniteSet(v.items \ {i}) /\ Cardinality(v.items \ {i}) = Cardinality(v.items) - 1
        BY <3>1, FS_RemoveElement
    <3> HIDE DEF before
    <3>3. Cardinality(before) <= Cardinality(v.items \ {i}) /\ Cardinality(before) \in Nat
        BY <2>4, <3>2, FS_Subset, FS_CardinalityType
    <3> QED
        BY <1>0, <3>1, <3>2, <3>3
  <2>6. i \in w.items
    <3>1. Cardinality(before) \in Nat
        BY <1>9, OnceIsFinite, FS_Subset, FS_CardinalityType
    <3> QED
        BY <1>0, <1>10, <2>3, <2>5, <3>1
  <2> QED
      BY <2>2, <2>6 DEF On
<1> QED
    BY <1>15, <1>17, <1>18 DEF w

\* A first page leaves nothing out.
LEMMA FirstPageInPlace ==
    ASSUME store \in Stores, NEW v, WellFormed(v),
           NEW c, c.flush, c.filter = v.filter, c.filter \in Tags, c.after = 0
    PROVE  /\ Answered(c, v).next # 0 => \A i \in Answered(c, v).items : Position(i) <= Answered(c, v).next
           /\ \A d \in Ids : Reaches(Answered(c, v), d)
<1> DEFINE P == Page(c.filter, c.after)
           n == NextOf(c.filter, c.after)
           paged == [v EXCEPT !.next = n]
           empty == Unloaded(paged, P)
           first == [paged EXCEPT !.items = P, !.unloaded = empty, !.answered = v.answered \/ ~empty]
           w == Answered(c, v)
<1>0. v \in Views
    BY DEF WellFormed
<1>1. P \in SUBSET Items /\ n \in Places
    BY PageType, PositionType
<1>2. /\ \A d \in Ids : store[d].tag = v.filter /\ Position(Item(d, store[d])) > 0 =>
            Item(d, store[d]) \in P \/ (n # 0 /\ Position(Item(d, store[d])) > n)
      /\ \A p \in P : n # 0 => Position(p) <= n
    BY NextPage, PositionType
<1> HIDE DEF P, n
<1>3. w = Settled(first)
  <2>1. w = Settled([paged EXCEPT !.items = P, !.unloaded = Unloaded(v, P), !.answered = @ \/ ~Unloaded(v, P)])
      BY DEF Answered, P, n
  <2>2. paged.known = v.known /\ paged.answered = v.answered
      BY <1>0 DEF Views
  <2> QED
      BY <2>1, <2>2 DEF Unloaded
<1>4. empty \in BOOLEAN /\ (v.answered \/ ~empty) \in BOOLEAN
    BY DEF Unloaded
<1> HIDE DEF empty
<1>5. first \in Views /\ first.items = P /\ first.next = n /\ first.filter = v.filter
    BY <1>0, <1>1, <1>4 DEF Views
<1> HIDE DEF first, w
<1>6. w.items = P /\ w.next = n /\ w.filter = v.filter
    BY <1>3, <1>5, SettledKeeps DEF Alike
<1>7. ASSUME NEW d \in Ids
      PROVE  Reaches(w, d)
  <2>1. SUFFICES ASSUME store[d].tag = v.filter
                 PROVE  Item(d, store[d]) \in P \/ (n # 0 /\ Position(Item(d, store[d])) > n)
      BY <1>6 DEF Reaches
  <2>2. store[d] \in Data
      BY <2>1, CollectionNoneAssumption DEF Stores, Absent
  <2>3. Position(Item(d, store[d])) > 0
      BY <2>2, ItemType, NoPositionIsZero
  <2> QED
      BY <1>2, <2>1, <2>3
<1> QED
    BY <1>2, <1>6, <1>7 DEF w

\* The calls that stay keep their order.
LEMMA CallsInOrder ==
    ASSUME calls \in Seq(CallRecord), NEW k \in DOMAIN calls
    PROVE  \A j \in DOMAIN CallsWithout(k) :
               \E l \in DOMAIN calls : CallsWithout(k)[j] = calls[l] /\ j <= l /\ j \in Nat \ {0}
<1> DEFINE n == Len(calls)
           a == SubSeq(calls, 1, k - 1)
           b == SubSeq(calls, k + 1, n)
<1>1. n \in Nat /\ DOMAIN calls = 1..n /\ k \in 1..n
    OBVIOUS
<1>2. /\ a \in Seq(CallRecord) /\ Len(a) = k - 1 /\ \A j \in 1..(k - 1) : a[j] = calls[j]
    BY <1>1
<1>3. b \in Seq(CallRecord) /\ Len(b) = n - k /\ \A j \in 1..(n - k) : b[j] = calls[k + j]
    BY <1>1
<1> HIDE DEF n, a, b
<1>4. /\ a \o b \in Seq(CallRecord) /\ DOMAIN (a \o b) = 1..(n - 1)
      /\ \A j \in 1..(n - 1) : (a \o b)[j] = IF j <= k - 1 THEN a[j] ELSE b[j - (k - 1)]
    BY <1>1, <1>2, <1>3
<1>5. ASSUME NEW j \in 1..(n - 1)
      PROVE  \E l \in DOMAIN calls : (a \o b)[j] = calls[l] /\ j <= l /\ j \in Nat \ {0}
  <2>1. CASE j <= k - 1
    <3>1. j \in 1..(k - 1) /\ j \in 1..n /\ j <= j /\ j \in Nat \ {0}
        BY <1>1, <2>1
    <3>2. (a \o b)[j] = calls[j]
        BY <1>2, <1>4, <2>1, <3>1
    <3> QED
        BY <1>1, <3>1, <3>2
  <2>2. CASE j > k - 1
    <3>1. j - (k - 1) \in 1..(n - k) /\ k + (j - (k - 1)) \in 1..n /\ j <= k + (j - (k - 1))
        BY <1>1, <2>2
    <3>2. (a \o b)[j] = calls[k + (j - (k - 1))]
        BY <1>1, <1>3, <1>4, <2>2, <3>1
    <3> QED
        BY <1>1, <3>1, <3>2
  <2>3. j <= k - 1 \/ j > k - 1
      BY <1>1
  <2> QED
      BY <2>1, <2>2, <2>3
<1>6. CallsWithout(k) = a \o b
    BY DEF CallsWithout, a, b, n
<1> QED
    BY <1>4, <1>5, <1>6

\* A page comes: the first one, or the next one behind what the list shows.
LEMMA AnswerInPlace ==
    ASSUME ListIInv, ReachOK, NEW k \in DOMAIN calls, \A j \in 1..k - 1 : calls[j].phase # "asked", Answer(k)
    PROVE  ReachOK'
<1>0. /\ ListTypes /\ QueueTypes /\ store \in Stores /\ calls \in Seq(CallRecord)
      /\ ModifiedFirst /\ CallsInTurn /\ WellFormed(view)
    BY DEF ListIInv, ListTypes, QueueTypes, DeviceTypes, ReachOK
<1>1. PICK c \in CallRecord : c = calls[k] /\ c.filter = view.filter
    BY <1>0 DEF QueueTypes
<1>2. c.filter \in Tags /\ c.after \in Places /\ c.flush \in BOOLEAN
    BY <1>1 DEF CallRecord
<1>3. /\ UNCHANGED <<store, casts, delayed>> /\ calls' = CallsWithout(k)
      /\ holed' = ((holed /\ ~c.flush) \/ Overtaken)
    BY <1>1 DEF Answer
<1>4. PICK v : view' = Answered(c, v) /\ WellFormed(v) /\ Alike(v, view)
  <2> DEFINE e == [Emission EXCEPT !.idle = TRUE, !.known = Completeness]
             t == Told(view, e)
  <2>1. e \in Emissions
      BY DEF Emission, Emissions, Completeness, Known
  <2>2. view' = Answered(c, view) \/ view' = Answered(c, t)
      BY <1>1 DEF Answer
  <2> HIDE DEF e
  <2>3. t \in Views /\ Alike(t, view)
      BY <1>0, <2>1, ToldKeeps DEF WellFormed
  <2> HIDE DEF t
  <2>4. WellFormed(t) /\ Alike(view, view)
      BY <1>0, <2>3 DEF WellFormed, Alike, OnePerId
  <2> QED
      BY <1>0, <2>2, <2>3, <2>4, Zenon
<1>5. /\ v.items = view.items /\ v.filter = view.filter /\ v.window = view.window
      /\ v.next = view.next /\ v.asked = view.asked
    BY <1>4 DEF Alike
<1>6. view'.filter = view.filter /\ view'.asked = view.asked
  <2>1. PICK pages \in 1..(MaxMore + 1 - left.more) : view.window = Limit * pages
      BY <1>0 DEF ListTypes
  <2>2. Limit <= v.window
      BY <1>0, <1>5, <2>1, WindowType DEF ListTypes
  <2>3. SamePages(Answered(c, v), v)
      BY <1>0, <1>1, <1>2, <1>4, <1>5, <2>2, AnsweredShows
  <2> QED
      BY <1>4, <1>5, <2>3 DEF SamePages
<1>7. \A j \in DOMAIN calls' : \E l \in DOMAIN calls : calls'[j] = calls[l] /\ j <= l /\ j \in Nat \ {0}
    BY <1>0, <1>3, CallsInOrder
<1>8. CallsInTurn' /\ ModifiedFirst'
    BY <1>0, <1>3, <1>7 DEF CallsInTurn, ModifiedFirst
<1>9. SUFFICES ASSUME view.asked, ~(holed /\ ~c.flush), ~Overtaken, ~Flushing'
               PROVE  InPlace'
    BY <1>3, <1>6, <1>8 DEF ReachOK
<1>10. \A j \in DOMAIN calls' : calls'[j].after = view'.next
    BY <1>9 DEF Overtaken, Flushing
<1>11. \A d \in Ids : Reaches(view', d) => Reached(d)'
    BY <1>3 DEF Reaches, Reached
<1>12. CASE c.flush
  <2>1. c.after = 0
      BY <1>0, <1>1, <1>12 DEF CallsInTurn
  <2>2. /\ view'.next # 0 => \A i \in view'.items : Position(i) <= view'.next
        /\ \A d \in Ids : Reaches(view', d)
      BY <1>0, <1>1, <1>2, <1>4, <1>5, <1>12, <2>1, FirstPageInPlace
  <2> QED
      BY <1>10, <1>11, <2>2 DEF InPlace, Soon
<1>13. CASE ~c.flush
  <2>1. ~Flushing
    <3> SUFFICES ASSUME NEW j \in DOMAIN calls, calls[j].flush
                 PROVE  FALSE
        BY DEF Flushing
    <3>1. j = 1 /\ calls[j].phase = "asked" /\ j # k
        BY <1>0, <1>1, <1>13 DEF CallsInTurn
    <3>2. j \in 1..k - 1
        BY <1>0, <3>1
    <3> QED
        BY <3>1, <3>2
  <2>2. InPlace
      BY <1>9, <1>13, <2>1 DEF ReachOK
  <2>3. c.after = view.next /\ view.next # 0
      BY <1>0, <1>1, <1>13, <2>2 DEF InPlace, CallsInTurn
  <2>4. \A i \in v.items : Position(i) <= v.next
      BY <1>5, <2>2, <2>3 DEF InPlace
  <2>5. /\ view'.next # 0 => \A i \in view'.items : Position(i) <= view'.next
        /\ \A d \in Ids : Reaches(v, d) => Reaches(view', d)
        /\ \A d \in Ids : On(v, d) => On(view', d) \/ Reaches(view', d)
      BY <1>0, <1>1, <1>2, <1>4, <1>5, <1>13, <2>3, <2>4, NextInPlace
  <2>6. ASSUME NEW d \in Ids
        PROVE  Soon(d)'
    <3>1. CASE Delayed(d)
        BY <1>3, <3>1 DEF Soon, Delayed
    <3>2. CASE Reached(d)
      <4>1. Reaches(v, d)
          BY <1>5, <3>2 DEF Reached, Reaches
      <4> QED
          BY <1>11, <2>5, <4>1 DEF Soon
    <3>3. CASE Brought(casts, d)
      <4>1. On(view, d) => On(view', d) \/ Reached(d)'
          BY <1>5, <1>11, <2>5 DEF On
      <4>2. Brought(casts, d)' \/ Reached(d)'
          BY <1>3, <3>3, <4>1 DEF Brought
      <4> QED
          BY <4>2 DEF Soon
    <3> QED
        BY <2>2, <3>1, <3>2, <3>3 DEF InPlace, Soon
  <2> QED
      BY <1>10, <2>5, <2>6 DEF InPlace
<1> QED
    BY <1>2, <1>12, <1>13

LEMMA ReachInit == CollectionInit => ReachOK
<1> SUFFICES ASSUME CollectionInit
             PROVE  ReachOK
    OBVIOUS
<1>1. calls = <<>> /\ casts = <<>> /\ ~view.asked
    BY DEF CollectionInit, Blank
<1>2. DOMAIN calls = {} /\ DOMAIN casts = {}
    BY <1>1
<1> QED
    BY <1>1, <1>2 DEF ReachOK, ModifiedFirst, CallsInTurn

LEMMA ReachStep ==
    ASSUME Meets = {}
    PROVE  ReachIInv /\ [CollectionNext]_collectionVars => ReachIInv'
<1> SUFFICES ASSUME ListIInv, ReachOK, [CollectionNext]_collectionVars
             PROVE  ReachIInv'
    BY DEF ReachIInv
<1>1. ListIInv'
    BY ListStep DEF Tame
<1> SUFFICES ReachOK'
    BY <1>1 DEF ReachIInv
<1>2. CASE Sort \/ \E f \in Asked : Query(f)
    BY <1>2, FirstInPlace
<1>3. CASE LoadMore
    BY <1>3, LoadMoreInPlace
<1>4. CASE AnswerAny
    BY <1>4, AnswerInPlace DEF AnswerAny
<1>5. CASE \/ \E k \in DOMAIN calls : AskServer(k) \/ Extend(k) \/ ExtendFails(k)
           \/ LoadStarts \/ LoadBrings \/ LoadEnds \/ LoadFails
    BY <1>5, SyncInPlace
<1>6. CASE \E d \in Ids : view.asked /\ \E data \in Data : Add(d, data) \/ Change(d, data)
    BY <1>6, WriteInPlace
<1>7. CASE \E d \in Ids : Remove(d)
  <2>1. PICK d \in Ids : Remove(d)
      BY <1>7
  <2>2. view.asked => ReachOK'
      BY <2>1, WriteInPlace
  <2>3. ASSUME ~view.asked
        PROVE  ReachOK'
    <3>1. UNCHANGED <<view, calls>> /\ casts' = Append(casts, Cast({}, {}, {d})) /\ casts \in Seq(CastRecord)
        BY <2>1 DEF Remove, ListIInv, QueueTypes
    <3>0. Cast({}, {}, {d}).modified = {}
        BY DEF Cast
    <3>2. PICK c : c = Cast({}, {}, {d}) /\ c.modified = {}
        BY <3>0
    <3>3. \A k \in DOMAIN casts' : (k \in DOMAIN casts /\ casts'[k] = casts[k]) \/ casts'[k] = c
        BY <3>1, <3>2
    <3> QED
        BY <2>3, <3>1, <3>2, <3>3 DEF ReachOK, ModifiedFirst, CallsInTurn
  <2> QED
      BY <2>2, <2>3
<1>8. CASE Lock \/ Unlock
    BY <1>8, LocksInPlace
<1>9. CASE Deliver
    BY <1>9, DeliverInPlace
<1>10. CASE UNCHANGED collectionVars
  <2>1. \A d \in Ids : Soon(d)' = Soon(d)
      BY <1>10 DEF Soon, Delayed, Reached, Brought, On
  <2> QED
      BY <1>10, <2>1 DEF ReachOK, ModifiedFirst, CallsInTurn, Flushing, InPlace
<1> QED
    BY <1>2, <1>3, <1>4, <1>5, <1>6, <1>7, <1>8, <1>9, <1>10 DEF CollectionNext

\* While a list has its place in the storage, each document that matches is on the screen,
\* past the next page, held back by AddLock, or brought by the last broadcast about it, and
\* every page that was asked for is the next one: in every run in which changes to what is
\* not on the screen are not broadcast to it as `modified` and no query, sort or write comes
\* in between (#query, #localPage, #clip and #applyChanges, with extend() and AddLock).
THEOREM ReachInvariance ==
    ASSUME Meets = {}
    PROVE  CollectionSpec => []ReachIInv
<1>1. CollectionInit => ReachIInv
    BY ListInit, ReachInit DEF ReachIInv
<1>2. ReachIInv /\ [CollectionNext]_collectionVars => ReachIInv'
    BY ReachStep
<1> QED
    BY <1>1, <1>2, PTL DEF CollectionSpec

\* "The rest stays in storage for loadMore": whatever matches is on the screen or past the
\* cursor of the next page when nothing is on its way, unless the list took a document from
\* past that page, or the page it waited for is not its next one any more; for any number
\* of documents, filters, queries, pages and writes.
THEOREM NothingOutOfReach ==
    ASSUME Meets = {}
    PROVE  CollectionSpec => []Reachable
<1>1. ASSUME ReachIInv
      PROVE  Reachable
  <2> SUFFICES ASSUME Quiet, view.asked, ~holed, NEW i \in Matching(view.filter)
               PROVE  i \in view.items \/ (view.next # 0 /\ Position(i) > view.next)
      BY DEF Reachable, InReach
  <2>1. casts = <<>> /\ calls = <<>> /\ delayed = <<>>
      BY DEF Quiet
  <2>2. DOMAIN casts = {} /\ DOMAIN calls = {} /\ DOMAIN delayed = {}
      BY <2>1
  <2>3. PICK d \in Ids : store[d].tag = view.filter /\ i = Item(d, store[d])
      BY DEF Matching
  <2>4. Soon(d)
      BY <1>1, <2>2 DEF ReachIInv, ReachOK, Flushing, InPlace
  <2>5. Reached(d)
      BY <2>2, <2>4 DEF Soon, Delayed, Brought
  <2> QED
      BY <2>3, <2>5 DEF Reached
<1> QED
    BY <1>1, ReachInvariance, PTL
=============================================================================
