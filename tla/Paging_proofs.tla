----------------------------- MODULE Paging_proofs -----------------------------
(***************************************************************************)
(* Proofs about Paging for any number of documents, values, pages and      *)
(* writes, any size of a page and any requests.                            *)
(***************************************************************************)
EXTENDS Paging, FiniteSetTheorems, TLAPS

-----------------------------------------------------------------------------
(* The first elements of a finite set in a strict total order *)

\* The pairs R order the set S.
Orders(R, S) ==
    /\ \A a \in S : <<a, a>> \notin R
    /\ \A a, b, c \in S : <<a, b>> \in R /\ <<b, c>> \in R => <<a, c>> \in R
    /\ \A a, b \in S : a = b \/ <<a, b>> \in R \/ <<b, a>> \in R

\* The elements of S before d, and the first n of S.
Under(R, S, d) == {e \in S : <<e, d>> \in R}
FirstN(R, S, n) == {d \in S : Cardinality(Under(R, S, d)) < n}

\* An order of a set is one of its subsets.
LEMMA OrderOfSubset ==
    ASSUME NEW R, NEW S, NEW T \in SUBSET S, Orders(R, S)
    PROVE  Orders(R, T)
BY DEF Orders

\* What is later has more before it.
LEMMA UnderGrows ==
    ASSUME NEW R, NEW S, IsFiniteSet(S), Orders(R, S), NEW a \in S, NEW b \in S, <<a, b>> \in R
    PROVE  /\ Cardinality(Under(R, S, a)) \in Nat /\ Cardinality(Under(R, S, b)) \in Nat
           /\ Cardinality(Under(R, S, a)) < Cardinality(Under(R, S, b))
<1>1. Under(R, S, a) \in SUBSET Under(R, S, b) /\ Under(R, S, b) \in SUBSET S
    BY DEF Under, Orders
<1>2. a \in Under(R, S, b) /\ a \notin Under(R, S, a)
    BY DEF Under, Orders
<1>3. IsFiniteSet(Under(R, S, b)) /\ IsFiniteSet(Under(R, S, a))
    BY <1>1, FS_Subset
<1>4. Cardinality(Under(R, S, a)) \in Nat /\ Cardinality(Under(R, S, b)) \in Nat
    BY <1>3, FS_CardinalityType
<1>5. Cardinality(Under(R, S, a)) <= Cardinality(Under(R, S, b))
      /\ Cardinality(Under(R, S, a)) # Cardinality(Under(R, S, b))
    BY <1>1, <1>2, <1>3, FS_Subset
<1> QED BY <1>4, <1>5

\* The numbers of elements before each are 0, 1, 2, ...: the places in the order.
LEMMA PlacesInOrder ==
    ASSUME NEW R, NEW S, IsFiniteSet(S), Orders(R, S)
    PROVE  LET f == [d \in S |-> Cardinality(Under(R, S, d))]
           IN  f \in Bijection(S, 0..(Cardinality(S) - 1))
<1> DEFINE f == [d \in S |-> Cardinality(Under(R, S, d))]
           n == Cardinality(S)
           T == 0..(n - 1)
<1>1. n \in Nat
    BY FS_CardinalityType
<1>2. \A d \in S : f[d] \in T
  <2>1. TAKE d \in S
  <2>2. Under(R, S, d) \in SUBSET S /\ d \notin Under(R, S, d)
    BY DEF Under, Orders
  <2>3. IsFiniteSet(Under(R, S, d))
    BY <2>2, FS_Subset
  <2>4. f[d] \in Nat /\ f[d] <= n /\ f[d] # n
    BY <2>2, <2>3, FS_CardinalityType, FS_Subset
  <2> QED BY <1>1, <2>4
<1>3. f \in [S -> T]
    BY <1>2
<1>4. \A a, b \in S : f[a] = f[b] => a = b
  <2>1. SUFFICES ASSUME NEW a \in S, NEW b \in S, f[a] = f[b], a # b PROVE FALSE
    OBVIOUS
  <2>2. CASE <<a, b>> \in R
    BY <2>1, <2>2, UnderGrows
  <2>3. CASE <<b, a>> \in R
    BY <2>1, <2>3, UnderGrows
  <2> QED BY <2>1, <2>2, <2>3 DEF Orders
<1>5. f \in Injection(S, T)
    BY <1>3, <1>4 DEF Injection, IsInjective
<1>6. IsFiniteSet(T) /\ Cardinality(T) = n
    BY <1>1, FS_Interval
<1>7. f \in Surjection(S, T)
    BY <1>5, <1>6, FS_Injection
<1> QED BY <1>5, <1>7 DEF Bijection

\* The first n: what is before one of them is one of them, the others come after
\* them, and they are n unless the set has fewer.
LEMMA FirstNs ==
    ASSUME NEW R, NEW S, IsFiniteSet(S), Orders(R, S), NEW n \in Nat
    PROVE  /\ FirstN(R, S, n) \in SUBSET S /\ IsFiniteSet(FirstN(R, S, n))
           /\ \A d \in FirstN(R, S, n), e \in S : <<e, d>> \in R => e \in FirstN(R, S, n)
           /\ \A d \in FirstN(R, S, n), e \in S \ FirstN(R, S, n) : <<d, e>> \in R
           /\ Cardinality(S) \in Nat
           /\ Cardinality(FirstN(R, S, n)) = IF n <= Cardinality(S) THEN n ELSE Cardinality(S)
           /\ Cardinality(S) <= n => FirstN(R, S, n) = S
           /\ FirstN(R, S, n) = S => Cardinality(S) <= n
<1> DEFINE F == FirstN(R, S, n)
           f == [d \in S |-> Cardinality(Under(R, S, d))]
           c == Cardinality(S)
           m == IF n <= c THEN n ELSE c
<1>1. F \in SUBSET S /\ IsFiniteSet(F)
    BY FS_Subset DEF FirstN
<1>2. ASSUME NEW d \in F, NEW e \in S, <<e, d>> \in R PROVE e \in F
  <2>1. d \in S
    BY <1>1
  <2>2. Cardinality(Under(R, S, e)) \in Nat /\ Cardinality(Under(R, S, d)) \in Nat
        /\ Cardinality(Under(R, S, e)) < Cardinality(Under(R, S, d))
    BY <1>2, <2>1, UnderGrows
  <2>3. Cardinality(Under(R, S, d)) < n
    BY DEF FirstN
  <2> QED BY <2>2, <2>3 DEF FirstN
<1>3. ASSUME NEW d \in F, NEW e \in S \ F PROVE <<d, e>> \in R
    BY <1>1, <1>2 DEF Orders
<1>4. c \in Nat /\ m \in Nat /\ m <= n /\ m <= c
    BY FS_CardinalityType
<1>5. f \in Bijection(S, 0..(c - 1))
    BY PlacesInOrder
<1>6. /\ \A d \in S : f[d] \in 0..(c - 1)
      /\ \A a, b \in S : f[a] = f[b] => a = b
      /\ \A k \in 0..(c - 1) : \E d \in S : f[d] = k
  <2>1. f \in [S -> 0..(c - 1)] /\ IsInjective(f)
    BY <1>5 DEF Bijection, Injection
  <2>2. \A k \in 0..(c - 1) : \E d \in S : f[d] = k
    BY <1>5 DEF Bijection, Surjection
  <2>3. \A a, b \in S : f[a] = f[b] => a = b
    BY <2>1 DEF IsInjective
  <2> QED BY <2>1, <2>2, <2>3
<1>7. F = {d \in S : f[d] < n}
    BY DEF FirstN
<1> HIDE DEF f, c
<1>8. Cardinality(F) = m
  <2> DEFINE g == [d \in F |-> f[d]]
             I == 0..(m - 1)
  <2>1. \A d \in F : f[d] \in I
    BY <1>1, <1>4, <1>6, <1>7
  <2>2. g \in [F -> I]
    BY <2>1
  <2>3. \A a, b \in F : g[a] = g[b] => a = b
    BY <1>1, <1>6
  <2>4. \A k \in I : \E d \in F : g[d] = k
    <3>1. TAKE k \in I
    <3>2. k \in 0..(c - 1) /\ k < n
      BY <1>4
    <3>3. PICK d \in S : f[d] = k
      BY <1>6, <3>2
    <3>4. d \in F
      BY <1>7, <3>2, <3>3
    <3> QED BY <3>3, <3>4
  <2>5. g \in Bijection(F, I)
    <3>1. g \in Injection(F, I)
      BY <2>2, <2>3 DEF Injection, IsInjective
    <3>2. g \in Surjection(F, I)
      BY <2>2, <2>4 DEF Surjection
    <3> QED BY <3>1, <3>2 DEF Bijection
  <2>6. ExistsBijection(F, I)
    BY <2>5 DEF ExistsBijection
  <2>7. Cardinality(I) = Cardinality(F)
    BY <1>1, <2>6, FS_Bijection
  <2>8. Cardinality(I) = m
    <3> HIDE DEF m
    <3>1. 0 \in Int /\ m - 1 \in Int /\ (0 > m - 1 => m = 0) /\ (m - 1) - 0 + 1 = m
      BY <1>4
    <3>2. Cardinality(0..(m - 1)) = IF 0 > m - 1 THEN 0 ELSE (m - 1) - 0 + 1
      BY <3>1, FS_Interval
    <3> QED BY <3>1, <3>2
  <2> QED BY <2>7, <2>8
<1>9. c <= n => F = S
    BY <1>4, <1>6, <1>7
<1>10. F = S => c <= n
    BY <1>4, <1>8 DEF c
<1> QED BY <1>1, <1>2, <1>3, <1>4, <1>8, <1>9, <1>10 DEF c

\* A set that is not empty has a first and a last element.
LEMMA Ends ==
    ASSUME NEW R, NEW S, IsFiniteSet(S), Orders(R, S), S # {}
    PROVE  /\ \E d \in S : \A e \in S \ {d} : <<d, e>> \in R
           /\ \E d \in S : \A e \in S \ {d} : <<e, d>> \in R
<1> DEFINE f == [d \in S |-> Cardinality(Under(R, S, d))]
           c == Cardinality(S)
<1>1. c \in Nat /\ c # 0
    BY FS_CardinalityType, FS_EmptySet
<1>2. f \in Bijection(S, 0..(c - 1))
    BY PlacesInOrder
<1>3. /\ \A d \in S : f[d] \in 0..(c - 1)
      /\ \A k \in 0..(c - 1) : \E d \in S : f[d] = k
    BY <1>2 DEF Bijection, Surjection, Injection
<1>4. \A a, b \in S : <<a, b>> \in R => f[a] < f[b]
    BY UnderGrows
<1> HIDE DEF f, c
<1>5. PICK first \in S : f[first] = 0
    BY <1>1, <1>3
<1>6. PICK last \in S : f[last] = c - 1
    BY <1>1, <1>3
<1>7. \A e \in S : <<e, first>> \notin R
    BY <1>1, <1>3, <1>4, <1>5
<1>8. \A e \in S : <<last, e>> \notin R
    BY <1>1, <1>3, <1>4, <1>6
<1> QED BY <1>7, <1>8 DEF Orders

-----------------------------------------------------------------------------
(* The order of a request *)

\* The plain strings of the ids are in the order of the ids.
TextInOrder == \A i, j \in Ids : i < j <=> TextRank[i] < TextRank[j]

\* a comes before b, by the field and by the id.
ValueFirst(where, a, b) ==
    IF asked.dir = "asc" THEN SmallerValue(where, a, b) ELSE SmallerValue(where, b, a)
IdFirst(where, a, b) == IF IdAscends(where) THEN a.id < b.id ELSE b.id < a.id
Before(where, a, b) ==
    \/ asked.by = "v" /\ a.v # b.v /\ ValueFirst(where, a, b)
    \/ (asked.by = "v" => a.v = b.v) /\ IdFirst(where, a, b)

\* The positions have an id and a value, which are numbers.
LEMMA PositionType ==
    ASSUME NEW a \in Position
    PROVE  /\ a.id \in Ids /\ a.id \in Nat /\ a.v \in Values \cup {Null} /\ a.v \in Nat
           /\ a = [id |-> a.id, v |-> a.v]
<1>1. /\ a.id \in Ids /\ a.v \in Values \cup {Null}
      /\ a = [id |-> a.id, v |-> a.v]
    BY DEF Position
<1>2. a.id \in Nat
    BY <1>1, IdsAssumption
<1>3. a.v \in Nat
    BY <1>1, ValuesAssumption DEF Null
<1> QED BY <1>1, <1>2, <1>3

\* Where the strings are in order, an index changes nothing.
LEMMA PrecedesIs ==
    ASSUME TextInOrder, NEW where, NEW a \in Position, NEW b \in Position
    PROVE  Precedes(where, a, b) <=> Before(where, a, b)
<1>1. a.id \in Ids /\ b.id \in Ids
    BY PositionType
<1>2. IdBelow(where, a, b) <=> a.id < b.id
    BY <1>1 DEF IdBelow, TextInOrder
<1>3. IdBelow(where, b, a) <=> b.id < a.id
    BY <1>1 DEF IdBelow, TextInOrder
<1> QED BY <1>2, <1>3 DEF Precedes, Before, ValueFirst, IdFirst

\* Values that differ are ordered, one way only.
LEMMA ValuesOrdered ==
    ASSUME NEW where, NEW a \in Position, NEW b \in Position, NEW c \in Position
    PROVE  /\ ~ValueFirst(where, a, a)
           /\ ValueFirst(where, a, b) /\ ValueFirst(where, b, c) => ValueFirst(where, a, c)
           /\ a.v # b.v => ValueFirst(where, a, b) \/ ValueFirst(where, b, a)
           /\ a.v = b.v /\ ValueFirst(where, b, c) => ValueFirst(where, a, c)
           /\ b.v = c.v /\ ValueFirst(where, a, b) => ValueFirst(where, a, c)
           /\ ValueFirst(where, a, b) => a.v # b.v
<1>1. a.v \in Nat /\ b.v \in Nat /\ c.v \in Nat
    BY PositionType
<1> QED BY <1>1 DEF ValueFirst, SmallerValue, Null

\* Ids that differ are ordered, one way only.
LEMMA IdsOrdered ==
    ASSUME NEW where, NEW a \in Position, NEW b \in Position, NEW c \in Position
    PROVE  /\ ~IdFirst(where, a, a)
           /\ IdFirst(where, a, b) /\ IdFirst(where, b, c) => IdFirst(where, a, c)
           /\ a.id # b.id => IdFirst(where, a, b) \/ IdFirst(where, b, a)
<1>1. a.id \in Nat /\ b.id \in Nat /\ c.id \in Nat
    BY PositionType
<1> QED BY <1>1 DEF IdFirst

\* No document comes before itself, the order is transitive, and of two documents
\* one comes before the other.
LEMMA BeforeOrders ==
    ASSUME NEW where, NEW a \in Position, NEW b \in Position, NEW c \in Position
    PROVE  /\ ~Before(where, a, a)
           /\ Before(where, a, b) /\ Before(where, b, c) => Before(where, a, c)
           /\ a.id # b.id => Before(where, a, b) \/ Before(where, b, a)
<1>1. ~Before(where, a, a)
    BY IdsOrdered DEF Before
<1>2. ASSUME Before(where, a, b), Before(where, b, c) PROVE Before(where, a, c)
    <2>1. CASE asked.by = "v"
      <3>1. CASE a.v # b.v /\ b.v # c.v
        <4>1. ValueFirst(where, a, b) /\ ValueFirst(where, b, c)
          BY <1>2, <2>1, <3>1 DEF Before
        <4>2. ValueFirst(where, a, c) /\ a.v # c.v
          BY <4>1, ValuesOrdered
        <4> QED BY <2>1, <4>2 DEF Before
      <3>2. CASE a.v = b.v /\ b.v # c.v
        <4>1. ValueFirst(where, b, c)
          BY <1>2, <2>1, <3>2 DEF Before
        <4>2. ValueFirst(where, a, c)
          BY <3>2, <4>1, ValuesOrdered
        <4> QED BY <2>1, <3>2, <4>2 DEF Before
      <3>3. CASE a.v # b.v /\ b.v = c.v
        <4>1. ValueFirst(where, a, b)
          BY <1>2, <2>1, <3>3 DEF Before
        <4>2. ValueFirst(where, a, c)
          BY <3>3, <4>1, ValuesOrdered
        <4> QED BY <2>1, <3>3, <4>2 DEF Before
      <3>4. CASE a.v = b.v /\ b.v = c.v
        <4>1. IdFirst(where, a, b) /\ IdFirst(where, b, c)
          BY <1>2, <2>1, <3>4 DEF Before
        <4>2. IdFirst(where, a, c)
          BY <4>1, IdsOrdered
        <4> QED BY <2>1, <3>4, <4>2 DEF Before
      <3> QED BY <3>1, <3>2, <3>3, <3>4
    <2>2. CASE asked.by # "v"
      <3>1. IdFirst(where, a, b) /\ IdFirst(where, b, c)
        BY <1>2, <2>2 DEF Before
      <3>2. IdFirst(where, a, c)
        BY <3>1, IdsOrdered
      <3> QED BY <2>2, <3>2 DEF Before
    <2> QED BY <2>1, <2>2
<1>3. ASSUME a.id # b.id PROVE Before(where, a, b) \/ Before(where, b, a)
    BY <1>3, ValuesOrdered, IdsOrdered DEF Before
<1> QED BY <1>1, <1>2, <1>3

\* The pairs of positions in that order and in the other one.
Ahead(where) == {p \in Position \X Position : Before(where, p[1], p[2])}
Behind(where) == {p \in Position \X Position : Before(where, p[2], p[1])}

\* A set of documents, each under its id.
Documents(S) ==
    /\ S \in SUBSET Position /\ IsFiniteSet(S)
    /\ \A a, b \in S : a.id = b.id => a = b

\* The pairs order every set of documents.
LEMMA DocumentsOrdered ==
    ASSUME NEW where, NEW S, Documents(S)
    PROVE  Orders(Ahead(where), S) /\ Orders(Behind(where), S)
<1>1. S \subseteq Position
    BY DEF Documents
<1>2. \A a, b \in S : /\ <<a, b>> \in Ahead(where) <=> Before(where, a, b)
                      /\ <<a, b>> \in Behind(where) <=> Before(where, b, a)
    BY <1>1 DEF Ahead, Behind
<1>3. \A a, b, c \in S :
          /\ ~Before(where, a, a)
          /\ Before(where, a, b) /\ Before(where, b, c) => Before(where, a, c)
          /\ a.id # b.id => Before(where, a, b) \/ Before(where, b, a)
    BY <1>1, BeforeOrders
<1>4. \A a, b \in S : a.id = b.id => a = b
    BY DEF Documents
<1>5. Orders(Ahead(where), S)
    BY <1>2, <1>3, <1>4 DEF Orders
<1>6. Orders(Behind(where), S)
    BY <1>2, <1>3, <1>4 DEF Orders
<1> QED BY <1>5, <1>6

\* A part of a set of documents is one.
LEMMA DocumentsPart ==
    ASSUME NEW S, Documents(S), NEW T \in SUBSET S
    PROVE  Documents(T)
<1>1. IsFiniteSet(T)
    BY FS_Subset DEF Documents
<1> QED BY <1>1 DEF Documents

\* The first n documents of a set are the first of its order, the last n those of
\* the reversed order.
LEMMA CutsAre ==
    ASSUME TextInOrder, NEW where, NEW S, Documents(S), NEW n
    PROVE  /\ FirstOf(where, S, n) = FirstN(Ahead(where), S, n)
           /\ LastOf(where, S, n) = FirstN(Behind(where), S, n)
<1>1. S \subseteq Position
    BY DEF Documents
<1>2. \A a, b \in S : /\ <<a, b>> \in Ahead(where) <=> Precedes(where, a, b)
                      /\ <<a, b>> \in Behind(where) <=> Precedes(where, b, a)
    BY <1>1, PrecedesIs DEF Ahead, Behind
<1>3. \A d \in S : {e \in S : Precedes(where, e, d)} = Under(Ahead(where), S, d)
    BY <1>2 DEF Under
<1>4. \A d \in S : {e \in S : Precedes(where, d, e)} = Under(Behind(where), S, d)
    BY <1>2 DEF Under
<1>5. FirstOf(where, S, n) = FirstN(Ahead(where), S, n)
    BY <1>3 DEF FirstOf, FirstN
<1>6. LastOf(where, S, n) = FirstN(Behind(where), S, n)
    BY <1>4 DEF LastOf, FirstN
<1> QED BY <1>5, <1>6

\* The first n documents: what comes before one of them is one of them, the others
\* come after them, and they are n unless there are fewer.
LEMMA FirstOfFacts ==
    ASSUME TextInOrder, NEW where, NEW S, Documents(S), NEW n \in Nat
    PROVE  /\ FirstOf(where, S, n) \in SUBSET S
           /\ \A d \in FirstOf(where, S, n), e \in S :
                  Before(where, e, d) => e \in FirstOf(where, S, n)
           /\ \A d \in FirstOf(where, S, n), e \in S \ FirstOf(where, S, n) : Before(where, d, e)
           /\ Cardinality(S) \in Nat
           /\ Cardinality(FirstOf(where, S, n)) = IF n <= Cardinality(S) THEN n ELSE Cardinality(S)
           /\ FirstOf(where, S, n) = S <=> Cardinality(S) <= n
<1> DEFINE R == Ahead(where)
<1>1. Orders(R, S) /\ IsFiniteSet(S) /\ S \subseteq Position
    BY DocumentsOrdered DEF Documents
<1>2. \A a, b \in S : <<a, b>> \in R <=> Before(where, a, b)
    BY <1>1 DEF Ahead
<1>3. FirstOf(where, S, n) = FirstN(R, S, n)
    BY CutsAre
<1> DEFINE F == FirstN(R, S, n)
<1> HIDE DEF R
<1>4. /\ F \in SUBSET S
      /\ \A d \in F, e \in S : <<e, d>> \in R => e \in F
      /\ \A d \in F, e \in S \ F : <<d, e>> \in R
      /\ Cardinality(S) \in Nat
      /\ Cardinality(F) = IF n <= Cardinality(S) THEN n ELSE Cardinality(S)
      /\ F = S <=> Cardinality(S) <= n
    BY <1>1, FirstNs
<1> HIDE DEF F
<1>5. \A d \in F, e \in S : Before(where, e, d) => e \in F
    BY <1>2, <1>4
<1>6. \A d \in F, e \in S \ F : Before(where, d, e)
    BY <1>2, <1>4
<1> QED BY <1>3, <1>4, <1>5, <1>6 DEF F

\* The last n documents, the other way round.
LEMMA LastOfFacts ==
    ASSUME TextInOrder, NEW where, NEW S, Documents(S), NEW n \in Nat
    PROVE  /\ LastOf(where, S, n) \in SUBSET S
           /\ \A d \in LastOf(where, S, n), e \in S :
                  Before(where, d, e) => e \in LastOf(where, S, n)
           /\ \A d \in LastOf(where, S, n), e \in S \ LastOf(where, S, n) : Before(where, e, d)
           /\ Cardinality(S) \in Nat
           /\ Cardinality(LastOf(where, S, n)) = IF n <= Cardinality(S) THEN n ELSE Cardinality(S)
           /\ LastOf(where, S, n) = S <=> Cardinality(S) <= n
<1> DEFINE R == Behind(where)
<1>1. Orders(R, S) /\ IsFiniteSet(S) /\ S \subseteq Position
    BY DocumentsOrdered DEF Documents
<1>2. \A a, b \in S : <<a, b>> \in R <=> Before(where, b, a)
    BY <1>1 DEF Behind
<1>3. LastOf(where, S, n) = FirstN(R, S, n)
    BY CutsAre
<1> DEFINE F == FirstN(R, S, n)
<1> HIDE DEF R
<1>4. /\ F \in SUBSET S
      /\ \A d \in F, e \in S : <<e, d>> \in R => e \in F
      /\ \A d \in F, e \in S \ F : <<d, e>> \in R
      /\ Cardinality(S) \in Nat
      /\ Cardinality(F) = IF n <= Cardinality(S) THEN n ELSE Cardinality(S)
      /\ F = S <=> Cardinality(S) <= n
    BY <1>1, FirstNs
<1> HIDE DEF F
<1>5. \A d \in F, e \in S : Before(where, d, e) => e \in F
    BY <1>2, <1>4
<1>6. \A d \in F, e \in S \ F : Before(where, e, d)
    BY <1>2, <1>4
<1> QED BY <1>3, <1>4, <1>5, <1>6 DEF F

\* The cursors of a page that shows something are those of its first and its last
\* document.
LEMMA CursorsAre ==
    ASSUME TextInOrder, NEW where, NEW S, Documents(S), S # {}
    PROVE  /\ Head(where, S) \in S /\ \A e \in S \ {Head(where, S)} : Before(where, Head(where, S), e)
           /\ Last(where, S) \in S /\ \A e \in S \ {Last(where, S)} : Before(where, e, Last(where, S))
<1>1. S \subseteq Position /\ IsFiniteSet(S) /\ Orders(Ahead(where), S)
    BY DocumentsOrdered DEF Documents
<1>2. \A a, b \in S : /\ <<a, b>> \in Ahead(where) <=> Precedes(where, a, b)
                      /\ Precedes(where, a, b) <=> Before(where, a, b)
    BY <1>1, PrecedesIs DEF Ahead
<1>3. /\ \E d \in S : \A e \in S \ {d} : <<d, e>> \in Ahead(where)
      /\ \E d \in S : \A e \in S \ {d} : <<e, d>> \in Ahead(where)
    BY <1>1, Ends
<1>4. \E d \in S : \A e \in S \ {d} : Precedes(where, d, e)
    BY <1>2, <1>3
<1>5. \E d \in S : \A e \in S \ {d} : Precedes(where, e, d)
    BY <1>2, <1>3
<1>6. Head(where, S) \in S /\ \A e \in S \ {Head(where, S)} : Precedes(where, Head(where, S), e)
    BY <1>4 DEF Head
<1>7. Last(where, S) \in S /\ \A e \in S \ {Last(where, S)} : Precedes(where, e, Last(where, S))
    BY <1>5 DEF Last
<1> QED BY <1>2, <1>6, <1>7

-----------------------------------------------------------------------------
(* The documents selected *)

\* The field of each document: a value, missing, or no document.
DbType == db \in [Ids -> Values \cup {Null, Absent}]

\* A document where it stands now.
At(i) == [id |-> i, v |-> db[i]]

\* The filter selects documents of the collection, as they are.
LEMMA SelectedFacts ==
    ASSUME DbType, NEW where
    PROVE  /\ Documents(Selected(where))
           /\ \A d \in Selected(where) : /\ d.id \in Ids /\ d = At(d.id) /\ db[d.id] # Absent
                                         /\ Selects(where, db[d.id])
           /\ \A i \in Ids : db[i] # Absent => At(i) \in Position
           /\ \A i \in Ids : At(i) \in Selected(where) <=> db[i] # Absent /\ Selects(where, db[i])
<1> DEFINE S == Selected(where)
<1>1. ASSUME NEW d \in S
      PROVE  d \in Position /\ d.id \in Ids /\ d = At(d.id) /\ db[d.id] # Absent /\ Selects(where, db[d.id])
  <2>1. d \in Position /\ db[d.id] = d.v /\ Selects(where, d.v)
    BY DEF Selected
  <2>2. d.v \in Nat /\ d.id \in Ids /\ d = [id |-> d.id, v |-> d.v]
    BY <2>1, PositionType
  <2> QED BY <2>1, <2>2 DEF At, Absent
<1>2. \A a, b \in S : a.id = b.id => a = b
    BY <1>1
<1>3. IsFiniteSet(S)
  <2> DEFINE f == [d \in S |-> d.id]
  <2>1. f \in [S -> Ids]
    BY <1>1
  <2>2. f \in Injection(S, Ids)
    BY <1>2, <2>1 DEF Injection, IsInjective
  <2> QED BY <2>2, IdsAssumption, FS_Injection
<1>4. ASSUME NEW i \in Ids, db[i] # Absent PROVE At(i) \in Position
    BY <1>4 DEF DbType, At, Position
<1>5. ASSUME NEW i \in Ids PROVE At(i) \in S <=> db[i] # Absent /\ Selects(where, db[i])
  <2>1. At(i).id = i /\ At(i).v = db[i]
    BY DEF At
  <2>2. At(i) \in S => db[i] # Absent /\ Selects(where, db[i])
    BY <1>1, <2>1
  <2>3. db[i] # Absent /\ Selects(where, db[i]) => At(i) \in S
    BY <1>4, <2>1 DEF Selected
  <2> QED BY <2>2, <2>3
<1> QED BY <1>1, <1>2, <1>3, <1>4, <1>5 DEF Documents

\* Without a filter there are as many as the collection has.
LEMMA AllSelected ==
    ASSUME DbType, NEW where, \A i \in Ids : db[i] # Absent => Selects(where, db[i])
    PROVE  Cardinality(Selected(where)) = Cardinality({i \in Ids : db[i] # Absent})
<1> DEFINE S == Selected(where)
           T == {i \in Ids : db[i] # Absent}
           f == [d \in S |-> d.id]
<1>1. /\ \A d \in S : d.id \in T
      /\ \A a, b \in S : a.id = b.id => a = b
      /\ IsFiniteSet(S)
    BY SelectedFacts DEF Documents
<1>2. \A i \in T : At(i) \in S /\ At(i).id = i
    BY SelectedFacts DEF At
<1> HIDE DEF S, T
<1>3. f \in [S -> T]
    BY <1>1
<1>4. f \in Injection(S, T)
    BY <1>1, <1>3 DEF Injection, IsInjective
<1>5. f \in Surjection(S, T)
  <2>1. \A i \in T : \E d \in S : f[d] = i
    <3>1. TAKE i \in T
    <3>2. At(i) \in S /\ f[At(i)] = i
      BY <1>2
    <3> QED BY <3>2
  <2> QED BY <1>3, <2>1 DEF Surjection
<1>6. ExistsBijection(S, T)
    BY <1>4, <1>5 DEF ExistsBijection, Bijection
<1>7. Cardinality(T) = Cardinality(S)
    BY <1>1, <1>6, FS_Bijection
<1> QED BY <1>7 DEF S, T

-----------------------------------------------------------------------------
(* Pages *)

\* What lies beyond the cursor of a query, and the page cut from it.
Beyond(where, q) ==
    CASE q.kind = "first"  -> Selected(where)
      [] q.kind = "after"  -> {d \in Selected(where) : Before(where, q.at, d)}
      [] q.kind = "before" -> {d \in Selected(where) : Before(where, d, q.at)}
Cut(where, q) ==
    IF q.kind = "before" THEN LastOf(where, Beyond(where, q), Limit)
    ELSE FirstOf(where, Beyond(where, q), Limit)

\* A query by a cursor.
CursorQuery(q) ==
    /\ q.kind \in {"first", "after", "before"}
    /\ q.kind # "first" => q.at \in Position

\* A page of those that follow: empty only if nothing does, and what is left comes
\* after it.
LEMMA CutForward ==
    ASSUME TextInOrder, DbType, NEW where, NEW q, CursorQuery(q), q.kind # "before"
    PROVE  LET B == Beyond(where, q)
               C == Cut(where, q)
           IN  /\ B \in SUBSET Selected(where) /\ C \in SUBSET B
               /\ Documents(B) /\ Documents(C)
               /\ C = {} <=> B = {}
               /\ \A d \in C, e \in B \ C : Before(where, d, e)
               /\ C # {} => {d \in Selected(where) : \A e \in C : Precedes(where, e, d)} = B \ C
               /\ Cardinality(B) \in Nat
               /\ B \ C # {} <=> Cardinality(B) > Limit
               /\ Cardinality(C) = IF Limit <= Cardinality(B) THEN Limit ELSE Cardinality(B)
<1> DEFINE S == Selected(where)
           B == Beyond(where, q)
           C == Cut(where, q)
<1>1. Documents(S)
    BY SelectedFacts
<1>2. B \in SUBSET S /\ \A d \in S, e \in B : Before(where, e, d) => d \in B
  <2>1. CASE q.kind = "first"
    BY <2>1 DEF Beyond
  <2>2. CASE q.kind = "after"
    <3>1. B = {d \in S : Before(where, q.at, d)} /\ q.at \in Position /\ S \subseteq Position
      BY <1>1, <2>2 DEF Beyond, CursorQuery, Documents
    <3> HIDE DEF B, S
    <3>2. \A d \in S, e \in B : Before(where, e, d) => Before(where, q.at, d)
      BY <3>1, BeforeOrders
    <3> QED BY <3>1, <3>2
  <2> QED BY <2>1, <2>2 DEF CursorQuery
<1>3. Documents(B) /\ C = FirstOf(where, B, Limit) /\ Limit \in Nat /\ Limit > 0
    BY <1>1, <1>2, DocumentsPart, PagingBounds DEF Cut
<1> HIDE DEF S, B, C
<1>4. /\ C \in SUBSET B
      /\ \A d \in C, e \in B \ C : Before(where, d, e)
      /\ Cardinality(B) \in Nat
      /\ Cardinality(C) = IF Limit <= Cardinality(B) THEN Limit ELSE Cardinality(B)
      /\ C = B <=> Cardinality(B) <= Limit
    BY <1>3, FirstOfFacts
<1>5. Documents(C)
    BY <1>3, <1>4, DocumentsPart
<1>6. C = {} <=> B = {}
    BY <1>3, <1>4, <1>5, FS_EmptySet DEF Documents
<1>7. B \ C # {} <=> Cardinality(B) > Limit
  <2>1. B \ C # {} <=> C # B
    BY <1>4
  <2> QED BY <1>3, <1>4, <2>1
<1>8. ASSUME C # {} PROVE {d \in S : \A e \in C : Precedes(where, e, d)} = B \ C
  <2>1. \A d \in S, e \in C : /\ Precedes(where, e, d) <=> Before(where, e, d)
                              /\ ~Before(where, e, e)
    BY <1>1, <1>2, <1>4, PrecedesIs, BeforeOrders DEF Documents
  <2>2. ASSUME NEW d \in S, \A e \in C : Precedes(where, e, d) PROVE d \in B \ C
    BY <1>2, <1>4, <1>8, <2>1, <2>2
  <2>3. ASSUME NEW d \in B \ C PROVE d \in S /\ \A e \in C : Precedes(where, e, d)
    BY <1>2, <1>4, <2>1, <2>3
  <2> QED BY <2>2, <2>3
<1> QED BY <1>2, <1>3, <1>4, <1>5, <1>6, <1>7, <1>8 DEF S, B, C

\* A page of those that lie before a cursor, the other way round.
LEMMA CutBackward ==
    ASSUME TextInOrder, DbType, NEW where, NEW q, CursorQuery(q), q.kind = "before"
    PROVE  LET B == Beyond(where, q)
               C == Cut(where, q)
           IN  /\ B \in SUBSET Selected(where) /\ C \in SUBSET B
               /\ Documents(B) /\ Documents(C)
               /\ C = {} <=> B = {}
               /\ \A d \in C, e \in B \ C : Before(where, e, d)
               /\ C # {} => {d \in Selected(where) : \A e \in C : Precedes(where, d, e)} = B \ C
               /\ Cardinality(B) \in Nat
               /\ B \ C # {} <=> Cardinality(B) > Limit
               /\ Cardinality(C) = IF Limit <= Cardinality(B) THEN Limit ELSE Cardinality(B)
<1> DEFINE S == Selected(where)
           B == Beyond(where, q)
           C == Cut(where, q)
<1>1. Documents(S)
    BY SelectedFacts
<1>2. B \in SUBSET S /\ \A d \in S, e \in B : Before(where, d, e) => d \in B
  <2>1. B = {d \in S : Before(where, d, q.at)} /\ q.at \in Position /\ S \subseteq Position
    BY <1>1 DEF Beyond, CursorQuery, Documents
  <2> HIDE DEF B, S
  <2>2. \A d \in S, e \in B : Before(where, d, e) => Before(where, d, q.at)
    BY <2>1, BeforeOrders
  <2> QED BY <2>1, <2>2
<1>3. Documents(B) /\ C = LastOf(where, B, Limit) /\ Limit \in Nat /\ Limit > 0
    BY <1>1, <1>2, DocumentsPart, PagingBounds DEF Cut
<1> HIDE DEF S, B, C
<1>4. /\ C \in SUBSET B
      /\ \A d \in C, e \in B \ C : Before(where, e, d)
      /\ Cardinality(B) \in Nat
      /\ Cardinality(C) = IF Limit <= Cardinality(B) THEN Limit ELSE Cardinality(B)
      /\ C = B <=> Cardinality(B) <= Limit
    BY <1>3, LastOfFacts
<1>5. Documents(C)
    BY <1>3, <1>4, DocumentsPart
<1>6. C = {} <=> B = {}
    BY <1>3, <1>4, <1>5, FS_EmptySet DEF Documents
<1>7. B \ C # {} <=> Cardinality(B) > Limit
  <2>1. B \ C # {} <=> C # B
    BY <1>4
  <2> QED BY <1>3, <1>4, <2>1
<1>8. ASSUME C # {} PROVE {d \in S : \A e \in C : Precedes(where, d, e)} = B \ C
  <2>1. \A d \in S, e \in C : /\ Precedes(where, d, e) <=> Before(where, d, e)
                              /\ ~Before(where, e, e)
    BY <1>1, <1>2, <1>4, PrecedesIs, BeforeOrders DEF Documents
  <2>2. ASSUME NEW d \in S, \A e \in C : Precedes(where, d, e) PROVE d \in B \ C
    BY <1>2, <1>4, <1>8, <2>1, <2>2
  <2>3. ASSUME NEW d \in B \ C PROVE d \in S /\ \A e \in C : Precedes(where, d, e)
    BY <1>2, <1>4, <2>1, <2>3
  <2> QED BY <2>2, <2>3
<1> QED BY <1>2, <1>3, <1>4, <1>5, <1>6, <1>7, <1>8 DEF S, B, C

\* The conditions under which a place cuts the page that its order calls for: the
\* servers compare values that are there, and Mongo's way back is not looked at.
Comparable(where, q) ==
    /\ where \in {"client", "indexeddb", "mongo", "postgres", "d1"}
    /\ where \notin {"client", "indexeddb"} =>
          /\ \A i \in Ids : db[i] # Null
          /\ q.kind # "first" => q.at.v # Null
    /\ where = "mongo" => q.kind # "before"

\* What an answer must be: the page, and whether more follows in its direction.
IsPage(answer, where, q) ==
    /\ answer.items = Cut(where, q)
    /\ q.kind # "before" => (answer.hasNext <=> Beyond(where, q) \ Cut(where, q) # {})
    /\ q.kind = "before" => (answer.hasPrev <=> Beyond(where, q) \ Cut(where, q) # {})

\* Two places that select the same documents and order them alike cut the same page.
LEMMA SameCut ==
    ASSUME TextInOrder, DbType, NEW here, NEW there, NEW q, CursorQuery(q),
           Selected(here) = Selected(there),
           \A a, b \in Selected(here) \cup (IF q.kind = "first" THEN {} ELSE {q.at}) :
               Before(here, a, b) <=> Before(there, a, b)
    PROVE  Beyond(here, q) = Beyond(there, q) /\ Cut(here, q) = Cut(there, q)
<1> DEFINE S == Selected(here)
           B == Beyond(here, q)
<1>1. Beyond(there, q) = B /\ B \subseteq S
  <2>1. CASE q.kind = "first"
    BY <2>1 DEF Beyond
  <2>2. CASE q.kind = "after"
    BY <2>2 DEF Beyond
  <2>3. CASE q.kind = "before"
    BY <2>3 DEF Beyond
  <2> QED BY <2>1, <2>2, <2>3 DEF CursorQuery
<1>2. S \subseteq Position
    BY SelectedFacts DEF Documents
<1>3. \A a, b \in S : Precedes(here, a, b) <=> Precedes(there, a, b)
    BY <1>2, PrecedesIs
<1> HIDE DEF S, B
<1>4. \A d \in B : /\ {e \in B : Precedes(here, e, d)} = {e \in B : Precedes(there, e, d)}
                   /\ {e \in B : Precedes(here, d, e)} = {e \in B : Precedes(there, d, e)}
    BY <1>1, <1>3
<1>5. FirstOf(here, B, Limit) = FirstOf(there, B, Limit)
    BY <1>4 DEF FirstOf
<1>6. LastOf(here, B, Limit) = LastOf(there, B, Limit)
    BY <1>4 DEF LastOf
<1> QED BY <1>1, <1>5, <1>6 DEF Cut, B

\* The fields of an answer.
LEMMA AnswerFields ==
    ASSUME NEW items, NEW prev, NEW next, NEW hasPrev \in BOOLEAN, NEW hasNext \in BOOLEAN,
           NEW answer, answer = Answer(items, prev, next, hasPrev, hasNext)
    PROVE  /\ answer.items = items /\ answer.prev = prev /\ answer.next = next
           /\ answer.hasPrev = hasPrev /\ answer.hasNext = hasNext /\ answer.first = prev
BY DEF Answer

\* paginateDocs over the documents of the client.
LEMMA ClientPages ==
    ASSUME TextInOrder, DbType, NEW q, CursorQuery(q)
    PROVE  LET C == Cut("client", q)
               prev == {d \in Selected("client") : \A e \in C : Precedes("client", d, e)}
               next == {d \in Selected("client") : \A e \in C : Precedes("client", e, d)}
           IN  /\ ClientPage(q) = IF C = {} THEN Answer({}, 0, 0, FALSE, FALSE)
                                  ELSE Answer(C, Cardinality(prev), Cardinality(next), prev # {}, next # {})
               /\ IsPage(ClientPage(q), "client", q)
<1> DEFINE S == Selected("client")
           B == Beyond("client", q)
           C == Cut("client", q)
           prev == {d \in S : \A e \in C : Precedes("client", d, e)}
           next == {d \in S : \A e \in C : Precedes("client", e, d)}
<1>1. S \subseteq Position
    BY SelectedFacts DEF Documents
<1>2. C = IF q.kind = "before" THEN LastOf("client", {d \in S : Precedes("client", d, q.at)}, Limit)
          ELSE FirstOf("client", ClientFrom(q), Limit)
  <2>1. CASE q.kind = "first"
    <3>1. ClientFrom(q) = S
      BY <2>1 DEF ClientFrom
    <3> QED BY <2>1, <3>1 DEF Cut, Beyond
  <2>2. CASE q.kind = "after"
    <3>1. q.at \in Position
      BY <2>2 DEF CursorQuery
    <3>2. ClientFrom(q) = {d \in S : Before("client", q.at, d)}
      BY <1>1, <2>2, <3>1, PrecedesIs DEF ClientFrom
    <3> QED BY <2>2, <3>2 DEF Cut, Beyond
  <2>3. CASE q.kind = "before"
    <3>1. q.at \in Position
      BY <2>3 DEF CursorQuery
    <3>2. {d \in S : Precedes("client", d, q.at)} = {d \in S : Before("client", d, q.at)}
      BY <1>1, <3>1, PrecedesIs
    <3> QED BY <2>3, <3>2 DEF Cut, Beyond
  <2> QED BY <2>1, <2>2, <2>3 DEF CursorQuery
<1>3. ClientPage(q) = IF C = {} THEN Answer({}, 0, 0, FALSE, FALSE)
                      ELSE Answer(C, Cardinality(prev), Cardinality(next), prev # {}, next # {})
    BY <1>2 DEF ClientPage
<1>4. q.kind # "before" => (C = {} <=> B = {}) /\ (C # {} => next = B \ C)
    BY CutForward
<1>5. q.kind = "before" => (C = {} <=> B = {}) /\ (C # {} => prev = B \ C)
    BY CutBackward
<1> HIDE DEF S, B, C, prev, next
<1>6. ASSUME C = {} PROVE IsPage(ClientPage(q), "client", q)
    BY <1>3, <1>4, <1>5, <1>6 DEF Answer, IsPage, B, C
<1>7. ASSUME C # {} PROVE IsPage(ClientPage(q), "client", q)
  <2>1. /\ ClientPage(q).items = C /\ (ClientPage(q).hasPrev <=> prev # {})
        /\ (ClientPage(q).hasNext <=> next # {})
    <3>1. ClientPage(q) = Answer(C, Cardinality(prev), Cardinality(next), prev # {}, next # {})
      BY <1>3, <1>7
    <3> DEFINE p == prev # {}
               n == next # {}
    <3>2. p \in BOOLEAN /\ n \in BOOLEAN /\ ClientPage(q) = Answer(C, Cardinality(prev), Cardinality(next), p, n)
      BY <3>1
    <3> HIDE DEF p, n
    <3>3. ClientPage(q).items = C /\ ClientPage(q).hasPrev = p /\ ClientPage(q).hasNext = n
      BY <3>2, AnswerFields
    <3> QED BY <3>3 DEF p, n
  <2> QED BY <1>4, <1>5, <1>7, <2>1 DEF IsPage, B, C
<1>8. IsPage(ClientPage(q), "client", q)
    BY <1>6, <1>7
<1> QED BY <1>3, <1>8 DEF C, prev, next, S

\* The number beside a side of an indexed page: at least one if anything is there.
AtLeast(there, n) == IF ~there THEN 0 ELSE IF n > 1 THEN n ELSE 1

\* #indexedPage over the documents of an index.
LEMMA IndexedPages ==
    ASSUME TextInOrder, DbType, NEW q, CursorQuery(q)
    PROVE  LET C == Cut("indexeddb", q)
               prev == {d \in Selected("indexeddb") : \A e \in C : Precedes("indexeddb", d, e)}
               next == {d \in Selected("indexeddb") : \A e \in C : Precedes("indexeddb", e, d)}
           IN  /\ IndexedPage(q) =
                     IF C = {} THEN Answer({}, 0, 0, FALSE, FALSE)
                     ELSE [Answer(C, AtLeast(prev # {}, IndexedFirst(q, C)),
                                  AtLeast(next # {}, counter - IndexedFirst(q, C) - Cardinality(C)),
                                  prev # {}, next # {}) EXCEPT !.first = IndexedFirst(q, C)]
               /\ IsPage(IndexedPage(q), "indexeddb", q)
<1> DEFINE S == Selected("indexeddb")
           B == Beyond("indexeddb", q)
           C == Cut("indexeddb", q)
           beyond == CASE q.kind = "first"  -> S
                       [] q.kind = "after"  -> {d \in S : Precedes("indexeddb", q.at, d)}
                       [] q.kind = "before" -> {d \in S : Precedes("indexeddb", d, q.at)}
           prev == {d \in S : \A e \in C : Precedes("indexeddb", d, e)}
           next == {d \in S : \A e \in C : Precedes("indexeddb", e, d)}
<1>1. S \subseteq Position
    BY SelectedFacts DEF Documents
<1>2. beyond = B
  <2>1. CASE q.kind = "first"
    BY <2>1 DEF Beyond
  <2>2. CASE q.kind = "after"
    <3>1. q.at \in Position
      BY <2>2 DEF CursorQuery
    <3>2. {d \in S : Precedes("indexeddb", q.at, d)} = {d \in S : Before("indexeddb", q.at, d)}
      BY <1>1, <3>1, PrecedesIs
    <3> QED BY <2>2, <3>2 DEF Beyond
  <2>3. CASE q.kind = "before"
    <3>1. q.at \in Position
      BY <2>3 DEF CursorQuery
    <3>2. {d \in S : Precedes("indexeddb", d, q.at)} = {d \in S : Before("indexeddb", d, q.at)}
      BY <1>1, <3>1, PrecedesIs
    <3> QED BY <2>3, <3>2 DEF Beyond
  <2> QED BY <2>1, <2>2, <2>3 DEF CursorQuery
<1>3. (IF q.kind = "before" THEN LastOf("indexeddb", beyond, Limit)
       ELSE FirstOf("indexeddb", beyond, Limit)) = C
  <2> HIDE DEF beyond
  <2> QED BY <1>2 DEF Cut
<1>4. IndexedPage(q) =
          IF C = {} THEN Answer({}, 0, 0, FALSE, FALSE)
          ELSE [Answer(C, AtLeast(prev # {}, IndexedFirst(q, C)),
                       AtLeast(next # {}, counter - IndexedFirst(q, C) - Cardinality(C)),
                       prev # {}, next # {}) EXCEPT !.first = IndexedFirst(q, C)]
  <2> DEFINE items == IF q.kind = "before" THEN LastOf("indexeddb", beyond, Limit)
                      ELSE FirstOf("indexeddb", beyond, Limit)
  <2>1. IndexedPage(q) =
          IF items = {} THEN Answer({}, 0, 0, FALSE, FALSE)
          ELSE [Answer(items, AtLeast({d \in S : \A e \in items : Precedes("indexeddb", d, e)} # {},
                                    IndexedFirst(q, items)),
                       AtLeast({d \in S : \A e \in items : Precedes("indexeddb", e, d)} # {},
                             counter - IndexedFirst(q, items) - Cardinality(items)),
                       {d \in S : \A e \in items : Precedes("indexeddb", d, e)} # {},
                       {d \in S : \A e \in items : Precedes("indexeddb", e, d)} # {})
                  EXCEPT !.first = IndexedFirst(q, items)]
    BY Zenon DEF IndexedPage, AtLeast
  <2>2. items = C
    BY <1>3
  <2> HIDE DEF items, C
  <2> QED BY <2>1, <2>2
<1>5. q.kind # "before" => (C = {} <=> B = {}) /\ (C # {} => next = B \ C)
    BY CutForward
<1>6. q.kind = "before" => (C = {} <=> B = {}) /\ (C # {} => prev = B \ C)
    BY CutBackward
<1> HIDE DEF S, B, C, prev, next, beyond
<1>7. ASSUME C = {} PROVE IsPage(IndexedPage(q), "indexeddb", q)
    BY <1>4, <1>5, <1>6, <1>7 DEF Answer, IsPage, B, C
<1>8. ASSUME C # {} PROVE IsPage(IndexedPage(q), "indexeddb", q)
  <2>1. /\ IndexedPage(q).items = C /\ (IndexedPage(q).hasPrev <=> prev # {})
        /\ (IndexedPage(q).hasNext <=> next # {})
    BY <1>4, <1>8 DEF Answer
  <2> QED BY <1>5, <1>6, <1>8, <2>1 DEF IsPage, B, C
<1>9. IsPage(IndexedPage(q), "indexeddb", q)
    BY <1>7, <1>8
<1> QED BY <1>4, <1>9 DEF C, prev, next, S

\* Where the field is there, the comparisons in SQL are the order.
LEMMA SqlBeyondIs ==
    ASSUME asked \in Requests, NEW where \in {"postgres", "d1"}, NEW d \in Position, NEW at \in Position,
           d.v # Null, at.v # Null
    PROVE  /\ SqlBeyond(where, d, at, TRUE) <=> Before(where, at, d)
           /\ SqlBeyond(where, d, at, FALSE) <=> Before(where, d, at)
<1>1. d.id \in Nat /\ at.id \in Nat /\ d.v \in Nat /\ at.v \in Nat
    BY PositionType
<1>2. asked.by \in {"id", "v"} /\ asked.dir \in {"asc", "desc"}
    BY RequestsAssumption
<1>3. IdAscends(where) <=> asked.idDir = "asc"
    BY DEF IdAscends, SqlIdAscends
<1>4. /\ ValueFirst(where, at, d) <=> IF asked.dir = "asc" THEN at.v < d.v ELSE d.v < at.v
      /\ ValueFirst(where, d, at) <=> IF asked.dir = "asc" THEN d.v < at.v ELSE at.v < d.v
    BY <1>1 DEF ValueFirst, SmallerValue
<1>5. /\ IdFirst(where, at, d) <=> IF asked.idDir = "asc" THEN at.id < d.id ELSE d.id < at.id
      /\ IdFirst(where, d, at) <=> IF asked.idDir = "asc" THEN d.id < at.id ELSE at.id < d.id
    BY <1>3 DEF IdFirst
<1>6. SqlBeyond(where, d, at, TRUE) <=>
          IF asked.by = "id" THEN IF asked.idDir = "asc" THEN d.id > at.id ELSE d.id < at.id
          ELSE \/ IF asked.dir = "asc" THEN d.v > at.v ELSE d.v < at.v
               \/ d.v = at.v /\ IF asked.idDir = "asc" THEN d.id > at.id ELSE d.id < at.id
    BY <1>3 DEF SqlBeyond
<1>7. SqlBeyond(where, d, at, FALSE) <=>
          IF asked.by = "id" THEN IF asked.idDir = "asc" THEN d.id < at.id ELSE d.id > at.id
          ELSE \/ IF asked.dir = "asc" THEN d.v < at.v ELSE d.v > at.v
               \/ d.v = at.v /\ IF asked.idDir = "asc" THEN d.id < at.id ELSE d.id > at.id
    BY <1>3 DEF SqlBeyond
<1>8. CASE asked.by = "id"
    BY <1>1, <1>5, <1>6, <1>7, <1>8 DEF Before
<1>9. CASE asked.by = "v"
  <2>1. CASE d.v = at.v
    <3>1. /\ Before(where, at, d) <=> IdFirst(where, at, d)
          /\ Before(where, d, at) <=> IdFirst(where, d, at)
      BY <1>9, <2>1 DEF Before
    <3>2. ~(d.v < at.v) /\ ~(d.v > at.v)
      BY <1>1, <2>1
    <3>3. SqlBeyond(where, d, at, TRUE) <=> IF asked.idDir = "asc" THEN d.id > at.id ELSE d.id < at.id
      BY <1>6, <1>9, <2>1, <3>2
    <3>4. SqlBeyond(where, d, at, FALSE) <=> IF asked.idDir = "asc" THEN d.id < at.id ELSE d.id > at.id
      BY <1>7, <1>9, <2>1, <3>2
    <3> QED BY <1>1, <1>5, <3>1, <3>3, <3>4
  <2>2. CASE d.v # at.v
    <3>1. /\ Before(where, at, d) <=> ValueFirst(where, at, d)
          /\ Before(where, d, at) <=> ValueFirst(where, d, at)
      BY <1>9, <2>2 DEF Before
    <3> QED BY <1>1, <1>4, <1>6, <1>7, <1>9, <2>2, <3>1
  <2> QED BY <2>1, <2>2
<1> QED BY <1>2, <1>8, <1>9

\* Documents that a server selects have the field.
LEMMA FieldsThere ==
    ASSUME DbType, NEW where, \A i \in Ids : db[i] # Null
    PROVE  \A d \in Selected(where) : d \in Position /\ d.v # Null
<1>1. \A d \in Selected(where) : d \in Position /\ d.id \in Ids /\ d = At(d.id)
    BY SelectedFacts DEF Documents
<1> QED BY <1>1 DEF At

\* The keysets of Postgres and D1 are what lies beyond a cursor, and its other side.
LEMMA KeysetsAre ==
    ASSUME DbType, asked \in Requests, NEW where \in {"postgres", "d1"}, NEW at \in Position,
           \A i \in Ids : db[i] # Null, at.v # Null
    PROVE  /\ {d \in Selected(where) : SqlBeyond(where, d, at, TRUE)}
              = {d \in Selected(where) : Before(where, at, d)}
           /\ {d \in Selected(where) : SqlBeyond(where, d, at, FALSE)}
              = {d \in Selected(where) : Before(where, d, at)}
BY FieldsThere, SqlBeyondIs

\* What comes after the last of some documents comes after all of them, and what
\* comes before the first before all.
LEMMA BeyondEnds ==
    ASSUME TextInOrder, DbType, NEW where, NEW C \in SUBSET Selected(where), C # {}
    PROVE  /\ {d \in Selected(where) : Before(where, Last(where, C), d)}
              = {d \in Selected(where) : \A e \in C : Precedes(where, e, d)}
           /\ {d \in Selected(where) : Before(where, d, Head(where, C))}
              = {d \in Selected(where) : \A e \in C : Precedes(where, d, e)}
<1> DEFINE S == Selected(where)
           h == Head(where, C)
           l == Last(where, C)
<1>1. Documents(S) /\ S \subseteq Position
    BY SelectedFacts DEF Documents
<1>2. Documents(C)
    BY <1>1, DocumentsPart
<1>3. /\ h \in C /\ \A e \in C : e = h \/ Before(where, h, e)
      /\ l \in C /\ \A e \in C : e = l \/ Before(where, e, l)
    BY <1>2, CursorsAre
<1>4. \A e, d \in S : Precedes(where, e, d) <=> Before(where, e, d)
    BY <1>1, PrecedesIs
<1>5. \A a, b, c \in S : Before(where, a, b) /\ Before(where, b, c) => Before(where, a, c)
    BY <1>1, BeforeOrders
<1> HIDE DEF S, h, l
<1>6. \A d \in S : Before(where, l, d) <=> \A e \in C : Precedes(where, e, d)
    BY <1>3, <1>4, <1>5 DEF S
<1>7. \A d \in S : Before(where, d, h) <=> \A e \in C : Precedes(where, d, e)
    BY <1>3, <1>4, <1>5 DEF S
<1> QED BY <1>6, <1>7 DEF S, h, l

\* PostgresQuery.query, and the numbers beside its page.
LEMMA PostgresPages ==
    ASSUME TextInOrder, DbType, asked \in Requests, NEW q, CursorQuery(q), Comparable("postgres", q)
    PROVE  LET C == Cut("postgres", q)
               prev == {d \in Selected("postgres") : \A e \in C : Precedes("postgres", d, e)}
               next == {d \in Selected("postgres") : \A e \in C : Precedes("postgres", e, d)}
           IN  /\ PostgresPage(q) = IF C = {} THEN Answer({}, 0, 0, FALSE, FALSE)
                                    ELSE Answer(C, Cardinality(prev), Cardinality(next), prev # {}, next # {})
               /\ IsPage(PostgresPage(q), "postgres", q)
<1> DEFINE S == Selected("postgres")
           B == Beyond("postgres", q)
           C == Cut("postgres", q)
           prev == {d \in S : \A e \in C : Precedes("postgres", d, e)}
           next == {d \in S : \A e \in C : Precedes("postgres", e, d)}
           items == CASE q.kind = "first" -> FirstOf("postgres", Selected("postgres"), Limit)
                      [] q.kind = "after" -> FirstOf("postgres", PostgresKeyset(q.at, TRUE), Limit)
                      [] q.kind = "before" -> LastOf("postgres", PostgresKeyset(q.at, FALSE), Limit)
<1>1. \A i \in Ids : db[i] # Null
    BY DEF Comparable
<1>2. items = C
  <2>1. CASE q.kind = "first"
    BY <2>1 DEF Cut, Beyond
  <2>2. CASE q.kind = "after"
    <3>1. q.at \in Position /\ q.at.v # Null
      BY <2>2 DEF CursorQuery, Comparable
    <3>2. PostgresKeyset(q.at, TRUE) = {d \in S : Before("postgres", q.at, d)}
      BY <1>1, <3>1, KeysetsAre DEF PostgresKeyset
    <3> QED BY <2>2, <3>2 DEF Cut, Beyond
  <2>3. CASE q.kind = "before"
    <3>1. q.at \in Position /\ q.at.v # Null
      BY <2>3 DEF CursorQuery, Comparable
    <3>2. PostgresKeyset(q.at, FALSE) = {d \in S : Before("postgres", d, q.at)}
      BY <1>1, <3>1, KeysetsAre DEF PostgresKeyset
    <3> QED BY <2>3, <3>2 DEF Cut, Beyond
  <2> QED BY <2>1, <2>2, <2>3 DEF CursorQuery
<1>3. /\ q.kind # "before" => /\ C \subseteq B /\ B \subseteq S
                              /\ (C = {} <=> B = {}) /\ (C # {} => next = B \ C)
      /\ q.kind = "before" => /\ C \subseteq B /\ B \subseteq S
                              /\ (C = {} <=> B = {}) /\ (C # {} => prev = B \ C)
    BY CutForward, CutBackward
<1>4. C # {} => /\ PostgresKeyset(Head("postgres", C), FALSE) = prev
                /\ PostgresKeyset(Last("postgres", C), TRUE) = next
  <2>1. SUFFICES ASSUME C # {} PROVE /\ PostgresKeyset(Head("postgres", C), FALSE) = prev
                                     /\ PostgresKeyset(Last("postgres", C), TRUE) = next
    OBVIOUS
  <2>2. C \in SUBSET S /\ Documents(C)
    BY CutForward, CutBackward
  <2>3. Head("postgres", C) \in C /\ Last("postgres", C) \in C
    BY <2>1, <2>2, CursorsAre
  <2>4. \A d \in S : d \in Position /\ d.v # Null
    BY <1>1, FieldsThere
  <2>5. /\ Head("postgres", C) \in Position /\ Head("postgres", C).v # Null
        /\ Last("postgres", C) \in Position /\ Last("postgres", C).v # Null
    BY <2>2, <2>3, <2>4
  <2>6. PostgresKeyset(Head("postgres", C), FALSE) = {d \in S : Before("postgres", d, Head("postgres", C))}
    BY <1>1, <2>5, KeysetsAre DEF PostgresKeyset
  <2>7. PostgresKeyset(Last("postgres", C), TRUE) = {d \in S : Before("postgres", Last("postgres", C), d)}
    BY <1>1, <2>5, KeysetsAre DEF PostgresKeyset
  <2> QED BY <2>1, <2>2, <2>6, <2>7, BeyondEnds
<1>5. PostgresPage(q) = IF C = {} THEN Answer({}, 0, 0, FALSE, FALSE)
                        ELSE Answer(C, Cardinality(prev), Cardinality(next), prev # {}, next # {})
  <2>1. PostgresPage(q) =
            IF items = {} THEN Answer({}, 0, 0, FALSE, FALSE)
            ELSE Answer(items, Cardinality(PostgresKeyset(Head("postgres", items), FALSE)),
                        Cardinality(PostgresKeyset(Last("postgres", items), TRUE)),
                        PostgresKeyset(Head("postgres", items), FALSE) # {},
                        PostgresKeyset(Last("postgres", items), TRUE) # {})
    BY Zenon DEF PostgresPage
  <2> HIDE DEF items, C, prev, next
  <2> QED BY <1>2, <1>4, <2>1
<1>6. IsPage(PostgresPage(q), "postgres", q)
  <2> DEFINE p == prev # {}
             n == next # {}
             answer == PostgresPage(q)
  <2>1. p \in BOOLEAN /\ n \in BOOLEAN
    OBVIOUS
  <2>2. /\ C = {} => answer = Answer({}, 0, 0, FALSE, FALSE)
        /\ C # {} => answer = Answer(C, Cardinality(prev), Cardinality(next), p, n)
    BY <1>5
  <2> HIDE DEF p, n, C, B, prev, next, answer
  <2>3. CASE C = {}
    <3>1. answer.items = {} /\ answer.hasPrev = FALSE /\ answer.hasNext = FALSE
      BY <2>2, <2>3 DEF Answer
    <3> QED BY <1>3, <2>3, <3>1 DEF IsPage, B, C, answer
  <2>4. CASE C # {}
    <3>1. answer.items = C /\ answer.hasPrev = p /\ answer.hasNext = n
      BY <2>1, <2>2, <2>4, AnswerFields
    <3>2. (answer.hasPrev <=> prev # {}) /\ (answer.hasNext <=> next # {})
      BY <3>1 DEF p, n
    <3> QED BY <1>3, <2>4, <3>1, <3>2 DEF IsPage, B, C, answer
  <2> QED BY <2>3, <2>4
<1> QED BY <1>5, <1>6

\* queryCollection of D1.
LEMMA D1Pages ==
    ASSUME TextInOrder, DbType, asked \in Requests, NEW q, CursorQuery(q), Comparable("d1", q)
    PROVE  IsPage(D1Page(q), "d1", q)
<1> DEFINE S == Selected("d1")
           B == Beyond("d1", q)
           C == Cut("d1", q)
           n == Cardinality(B)
           more == n > Limit
<1>1. \A i \in Ids : db[i] # Null
    BY DEF Comparable
<1>2. B \ C # {} <=> more
    BY CutForward, CutBackward
<1>3. CASE q.kind = "before"
  <2>1. q.at \in Position /\ q.at.v # Null
    BY <1>3 DEF CursorQuery, Comparable
  <2>2. B = D1Plan(q).before
    <3>1. D1Plan(q).before = D1Keyset(q.at, FALSE)
      BY <1>3 DEF D1Plan
    <3>2. D1Keyset(q.at, FALSE) = {d \in S : Before("d1", d, q.at)}
      BY <1>1, <2>1, KeysetsAre DEF D1Keyset
    <3> QED BY <1>3, <3>1, <3>2 DEF Beyond
  <2>3. C = LastOf("d1", B, Limit)
    BY <1>3 DEF Cut
  <2>4. PICK after : D1Page(q) = Answer(LastOf("d1", B, Limit), Monus(n, Limit), Cardinality(after),
                                        n > Limit, Cardinality(after) > 0)
    BY <1>3, <2>2 DEF D1Page
  <2> DEFINE p == n > Limit
             m == Cardinality(after) > 0
  <2>5. D1Page(q) = Answer(C, Monus(n, Limit), Cardinality(after), p, m) /\ p \in BOOLEAN /\ m \in BOOLEAN
    BY <2>3, <2>4
  <2> HIDE DEF p, m
  <2>6. D1Page(q).items = C /\ D1Page(q).hasPrev = p
    BY <2>5, AnswerFields
  <2> QED BY <1>2, <1>3, <2>6 DEF IsPage, p
<1>4. CASE q.kind # "before"
  <2>1. B = D1Plan(q).after
    <3>1. CASE q.kind = "first"
      BY <3>1 DEF Beyond, D1Plan
    <3>2. CASE q.kind = "after"
      <4>1. q.at \in Position /\ q.at.v # Null
        BY <3>2 DEF CursorQuery, Comparable
      <4>2. D1Keyset(q.at, TRUE) = {d \in S : Before("d1", q.at, d)}
        BY <1>1, <4>1, KeysetsAre DEF D1Keyset
      <4> QED BY <3>2, <4>2 DEF Beyond, D1Plan
    <3> QED BY <1>4, <3>1, <3>2 DEF CursorQuery
  <2>2. C = FirstOf("d1", B, Limit)
    BY <1>4 DEF Cut
  <2>3. PICK before : D1Page(q) = Answer(FirstOf("d1", B, Limit), Cardinality(before), Monus(n, Limit),
                                         Cardinality(before) > 0, n > Limit)
    BY <1>4, <2>1 DEF D1Page
  <2> DEFINE p == Cardinality(before) > 0
             m == n > Limit
  <2>4. D1Page(q) = Answer(C, Cardinality(before), Monus(n, Limit), p, m) /\ p \in BOOLEAN /\ m \in BOOLEAN
    BY <2>2, <2>3
  <2> HIDE DEF p, m
  <2>5. D1Page(q).items = C /\ D1Page(q).hasNext = m
    BY <2>4, AnswerFields
  <2> QED BY <1>2, <1>4, <2>5 DEF IsPage, m
<1> QED BY <1>3, <1>4

\* The branches of Mongo's query, one per sort key, are what lies beyond the cursor:
\* all ids of one type come before those of the other.
LEMMA MongoSideIs ==
    ASSUME DbType, asked \in Requests, NEW q, CursorQuery(q), Comparable("mongo", q)
    PROVE  MongoSide(q, FALSE) = Beyond("mongo", q)
<1> DEFINE S == Selected("mongo")
<1>1. CASE q.kind = "first"
    BY <1>1 DEF MongoSide, Beyond
<1>2. CASE q.kind = "after"
  <2> DEFINE value == {d \in S : d.v # Null /\ IF asked.dir = "desc" THEN d.v < q.at.v ELSE d.v > q.at.v}
             id == {d \in S : /\ asked.by = "v" => d.v = q.at.v
                              /\ \/ /\ (d.id \in Uuids) = (q.at.id \in Uuids)
                                    /\ IF ~IdAscends("mongo") THEN d.id < q.at.id ELSE d.id > q.at.id
                                 \/ OtherTypeBeyond(q.at, d, ~IdAscends("mongo"))}
  <2>1. q.at \in Position /\ q.at.v # Null /\ q.at.id \in Ids /\ q.at.id \in Nat /\ q.at.v \in Nat
    BY <1>2, PositionType DEF CursorQuery, Comparable
  <2>2. MongoSide(q, FALSE) = IF asked.by = "v" THEN value \cup id ELSE id
    BY <1>2, <2>1 DEF MongoSide, IdAscends, ServerIdAscends
  <2>3. \A d \in S : d \in Position /\ d.v # Null /\ d.v \in Nat /\ d.id \in Ids /\ d.id \in Nat
    BY FieldsThere, PositionType DEF Comparable
  <2>4. asked.by \in {"id", "v"} /\ asked.dir \in {"asc", "desc"}
    BY RequestsAssumption
  <2>5. ASSUME NEW d \in S
        PROVE  d \in id <=> (asked.by = "v" => d.v = q.at.v) /\ IdFirst("mongo", q.at, d)
    <3>1. (IF ~IdAscends("mongo") THEN d.id < q.at.id ELSE d.id > q.at.id) <=> IdFirst("mongo", q.at, d)
      BY <2>1, <2>3 DEF IdFirst
    <3>2. ASSUME (d.id \in Uuids) # (q.at.id \in Uuids)
          PROVE  OtherTypeBeyond(q.at, d, ~IdAscends("mongo")) <=> IdFirst("mongo", q.at, d)
      <4>1. /\ d.id \in Uuids /\ q.at.id \notin Uuids => d.id < q.at.id /\ ~(q.at.id < d.id)
            /\ d.id \notin Uuids /\ q.at.id \in Uuids => q.at.id < d.id /\ ~(d.id < q.at.id)
        BY <2>1, <2>3, UuidsFirst
      <4> QED BY <3>2, <4>1 DEF OtherTypeBeyond, IdFirst
    <3>3. ASSUME (d.id \in Uuids) = (q.at.id \in Uuids)
          PROVE  ~OtherTypeBeyond(q.at, d, ~IdAscends("mongo"))
      BY <3>3 DEF OtherTypeBeyond
    <3> QED BY <3>1, <3>2, <3>3
  <2>6. ASSUME NEW d \in S, asked.by = "v"
        PROVE  d \in value <=> d.v # q.at.v /\ ValueFirst("mongo", q.at, d)
    BY <2>1, <2>3, <2>4, <2>6 DEF ValueFirst, SmallerValue
  <2> HIDE DEF value, id
  <2>7. ASSUME NEW d \in S
        PROVE  d \in MongoSide(q, FALSE) <=> Before("mongo", q.at, d)
    BY <2>2, <2>4, <2>5, <2>6 DEF Before
  <2>8. MongoSide(q, FALSE) \subseteq S
    BY <2>2 DEF value, id
  <2> QED BY <1>2, <2>7, <2>8 DEF Beyond
<1> QED BY <1>1, <1>2 DEF CursorQuery, Comparable

\* #build_cursor_paging of Mongo, on the way to the end.
LEMMA MongoPages ==
    ASSUME TextInOrder, DbType, asked \in Requests, NEW q, CursorQuery(q), Comparable("mongo", q)
    PROVE  IsPage(MongoPage(q), "mongo", q)
<1> DEFINE B == Beyond("mongo", q)
           C == Cut("mongo", q)
           prev == MongoSide(q, TRUE)
           p == prev # {}
           more == Cardinality(B) > Limit
<1>1. q.kind # "before" /\ B = MongoSide(q, FALSE)
    BY MongoSideIs DEF Comparable
<1>2. B \ C # {} <=> more
    BY <1>1, CutForward
<1>3. C = FirstOf("mongo", B, Limit)
    BY <1>1 DEF Cut
<1>4. p \in BOOLEAN /\ more \in BOOLEAN
    OBVIOUS
<1>5. MongoPage(q) = Answer(C, Cardinality(prev), Monus(Cardinality(B), Limit), p, more)
  <2> DEFINE next == MongoSide(q, FALSE)
  <2>1. MongoPage(q) = Answer(FirstOf("mongo", next, Limit), Cardinality(prev),
                              Monus(Cardinality(next), Limit), p, Cardinality(next) > Limit)
    BY <1>1, Zenon DEF MongoPage
  <2> HIDE DEF next, B, C, prev
  <2> QED BY <1>1, <1>3, <2>1 DEF next
<1> HIDE DEF p, more, prev, B, C
<1>6. MongoPage(q).items = C /\ MongoPage(q).hasNext = more
    BY <1>4, <1>5, AnswerFields
<1> QED BY <1>1, <1>2, <1>6 DEF IsPage, more, B, C

\* The client's documents over IndexedDB are selected and ordered as in memory.
LEMMA ClientIsIndexed ==
    ASSUME TextInOrder, DbType, NEW q, CursorQuery(q)
    PROVE  Beyond("client", q) = Beyond("indexeddb", q) /\ Cut("client", q) = Cut("indexeddb", q)
<1>1. \A v : Selects("client", v) <=> Selects("indexeddb", v)
  <2>1. \A v, c : Matches("client", v, c) <=> Matches("indexeddb", v, c)
    BY DEF Matches
  <2> QED BY <2>1 DEF Selects, AllMatch
<1>2. Selected("client") = Selected("indexeddb")
    BY <1>1 DEF Selected
<1>3. \A a, b : Before("client", a, b) <=> Before("indexeddb", a, b)
    BY DEF Before, ValueFirst, IdFirst, IdAscends, SmallerValue
<1> QED BY <1>2, <1>3, SameCut

\* At every place the answer to a query by a cursor is the page of its order, and
\* says whether more follows.
LEMMA Pages ==
    ASSUME TextInOrder, DbType, asked \in Requests, NEW where, NEW q,
           CursorQuery(q), Comparable(where, q)
    PROVE  IsPage(Page(where, q), where, q)
<1>1. q.kind # "page"
    BY DEF CursorQuery
<1>2. CASE Indexed(where)
  <2>1. where = "indexeddb" /\ Page(where, q) = IndexedPage(q)
    BY <1>1, <1>2 DEF Page, Indexed
  <2> QED BY <2>1, IndexedPages
<1>3. CASE where \in {"client", "indexeddb"} /\ ~Indexed(where)
  <2>1. Page(where, q) = ClientPage(q)
    BY <1>1, <1>3 DEF Page
  <2>2. IsPage(ClientPage(q), "client", q) /\ IsPage(ClientPage(q), "indexeddb", q)
    BY ClientPages, ClientIsIndexed DEF IsPage
  <2> QED BY <1>3, <2>1, <2>2
<1>4. CASE where = "mongo"
  <2>1. Page(where, q) = MongoPage(q)
    BY <1>1, <1>4 DEF Page, Indexed
  <2> QED BY <1>4, <2>1, MongoPages
<1>5. CASE where = "postgres"
  <2>1. Page(where, q) = PostgresPage(q)
    BY <1>1, <1>5 DEF Page, Indexed
  <2> QED BY <1>5, <2>1, PostgresPages
<1>6. CASE where = "d1"
  <2>1. Page(where, q) = D1Page(q)
    BY <1>1, <1>6 DEF Page, Indexed
  <2> QED BY <1>6, <2>1, D1Pages
<1> QED BY <1>2, <1>3, <1>4, <1>5, <1>6 DEF Comparable

-----------------------------------------------------------------------------
(* The invariant of a walk *)

\* What the walk rests on: the plain strings are in the order of the ids, documents
\* lack the field at the client only, and the reader does not follow Mongo back.
Readable ==
    /\ TextInOrder
    /\ Lacking \subseteq {"client", "indexeddb"}
    /\ "mongo" \notin Turning

\* The types of the variables; the documents shown, unless written to since, are
\* selected as they were shown.
PagingTypes ==
    /\ place \in Places /\ asked \in Requests /\ mode \in {"cursor", "page"}
    /\ mode = "page" => place \notin {"client", "indexeddb"}
    /\ DbType /\ (place \notin Lacking => \A i \in Ids : db[i] # Null)
    /\ walk \in {"start", "forward", "back", "end"}
    /\ seen \in [Ids -> Nat] /\ touched \in SUBSET Ids
    /\ counter \in Int
    /\ page = [answer |-> page.answer, query |-> page.query, fresh |-> page.fresh]

ShownTypes ==
    /\ Documents(page.answer.items)
    /\ place \notin Lacking => \A d \in page.answer.items : d.v # Null
    /\ \A d \in page.answer.items : d.id \notin touched => d \in Selected(place)

\* Before the walk and after it.
StartWalk == walk = "start" => touched = {} /\ page = NoPage /\ \A i \in Ids : seen[i] = 0
EndWalk == walk = "end" => \A i \in Ids : seen[i] \in {0, 1}

\* On the way to the end the documents up to the page have been shown, once, and
\* those after it have not, in which case more follows.
ForwardOf(i) ==
    \/ /\ At(i) \in page.answer.items /\ seen[i] = 1
    \/ /\ At(i) \notin page.answer.items /\ seen[i] = 1
       /\ \A e \in page.answer.items : Before(place, At(i), e)
    \/ /\ At(i) \notin page.answer.items /\ seen[i] = 0 /\ page.answer.hasNext
       /\ \A e \in page.answer.items : Before(place, e, At(i))
ForwardWalk ==
    mode = "cursor" /\ walk = "forward" =>
        /\ page.answer.hasNext => page.answer.items # {}
        /\ \A i \in Stable : ForwardOf(i)

\* On the way back it is the other way round.
BackOf(i) ==
    \/ /\ At(i) \in page.answer.items /\ seen[i] = 1
    \/ /\ At(i) \notin page.answer.items /\ seen[i] = 1
       /\ \A e \in page.answer.items : Before(place, e, At(i))
    \/ /\ At(i) \notin page.answer.items /\ seen[i] = 0 /\ page.answer.hasPrev
       /\ \A e \in page.answer.items : Before(place, At(i), e)
BackWalk ==
    walk = "back" => mode = "cursor" /\ place \in Turning /\ \A i \in Stable : BackOf(i)

\* By page numbers the first so many documents have been shown.
PageWalk ==
    mode = "page" /\ walk = "forward" =>
        /\ touched = {} /\ page.query.kind = "page" /\ page.query.at \in Nat \ {0}
        /\ \A i \in Stable :
               seen[i] = IF At(i) \in FirstOf(place, Selected(place), page.query.at * Limit) THEN 1 ELSE 0
        /\ page.answer.hasNext <=> Cardinality(Selected(place)) > page.query.at * Limit

PagingInv ==
    /\ PagingTypes /\ ShownTypes
    /\ StartWalk /\ EndWalk /\ ForwardWalk /\ BackWalk /\ PageWalk

\* Documents that nobody wrote to are where they were, in the same order.
LEMMA OrderKept ==
    ASSUME UNCHANGED <<place, asked>>
    PROVE  /\ \A a, b : Before(place, a, b)' <=> Before(place, a, b)
           /\ \A v : Selects(place, v)' <=> Selects(place, v)
<1>1. \A a, b : Before(place, a, b)' <=> Before(place, a, b)
    BY DEF Before, ValueFirst, SmallerValue, IdFirst, IdAscends, ClientIdAscends, ServerIdAscends, SqlIdAscends
<1>2. \A v : Selects(place, v)' <=> Selects(place, v)
    BY DEF Selects, MongoSelects, PostgresSelects, AllMatch, SomeMatch
<1> QED BY <1>1, <1>2

\* The same documents are selected when nothing is written.
LEMMA SelectedKept ==
    ASSUME UNCHANGED <<place, asked, db>>
    PROVE  /\ Selected(place)' = Selected(place)
           /\ \A i : At(i)' = At(i)
<1>1. \A v : Selects(place, v)' <=> Selects(place, v)
    BY OrderKept
<1> QED BY <1>1 DEF Selected, At

\* No page has been read at first.
LEMMA WalkInit ==
    ASSUME Readable, PagingInit PROVE PagingInv
<1>1. db \in [Ids -> Values \cup {Null, Absent}] /\ (place \notin Lacking => \A i \in Ids : db[i] # Null)
  <2>1. Null \notin Values \cup {Absent}
    BY ValuesAssumption DEF Null, Absent
  <2> QED BY <2>1 DEF PagingInit
<1>2. page = NoPage /\ page.answer.items = {} /\ page = [answer |-> page.answer, query |-> page.query, fresh |-> page.fresh]
    BY DEF PagingInit, NoPage, Answer
<1>3. PagingTypes
    BY <1>1 , <1>2 DEF PagingTypes, PagingInit, DbType, Uncounted
<1>4. ShownTypes
    BY <1>2, FS_EmptySet DEF ShownTypes, Documents
<1> QED BY <1>2, <1>3, <1>4 DEF PagingInv, StartWalk, EndWalk, ForwardWalk, BackWalk, PageWalk, PagingInit

\* What a query of a walk reads is there to be compared.
LEMMA WalkCompares ==
    ASSUME Readable, PagingTypes, ShownTypes, NEW q, CursorQuery(q),
           q.kind # "first" => q.at \in page.answer.items,
           q.kind = "before" => place \in Turning
    PROVE  Comparable(place, q)
<1>1. place \in {"client", "indexeddb", "mongo", "postgres", "d1"}
    BY PlacesAssumption DEF PagingTypes
<1>2. place \notin {"client", "indexeddb"} => place \notin Lacking
    BY DEF Readable
<1> QED BY <1>1, <1>2 DEF Comparable, Readable, PagingTypes, ShownTypes

\* The documents of a page by number are the next `:limit` of the order.
LEMMA OffsetFacts ==
    ASSUME DbType, NEW where, NEW q
    PROVE  LET S == Selected(where)
               skip == (q.at - 1) * Limit
           IN  /\ OffsetPage(where, q).items = FirstOf(where, S, skip + Limit) \ FirstOf(where, S, skip)
               /\ OffsetPage(where, q).items \in SUBSET S
               /\ OffsetPage(where, q).hasNext <=> Cardinality(S) > skip + Limit
               /\ OffsetPage(where, q).hasPrev <=> skip > 0
               /\ OffsetPage(where, q).prev = skip
               /\ OffsetPage(where, q).next = Monus(Cardinality(S), skip + Limit)
<1> DEFINE S == Selected(where)
           skip == (q.at - 1) * Limit
           n == Cardinality(S) > skip + Limit
           p == skip > 0
           items == FirstOf(where, S, skip + Limit) \ FirstOf(where, S, skip)
<1>1. OffsetPage(where, q) = Answer(items, skip, Monus(Cardinality(S), skip + Limit), p, n)
    BY DEF OffsetPage
<1>2. p \in BOOLEAN /\ n \in BOOLEAN
    OBVIOUS
<1>3. items \in SUBSET S
    BY DEF FirstOf
<1> HIDE DEF p, n, items, skip, S
<1>4. /\ OffsetPage(where, q).items = items /\ OffsetPage(where, q).hasPrev = p /\ OffsetPage(where, q).hasNext = n
      /\ OffsetPage(where, q).prev = skip /\ OffsetPage(where, q).next = Monus(Cardinality(S), skip + Limit)
    BY <1>1, <1>2, AnswerFields
<1> QED BY <1>3, <1>4 DEF p, n, items, skip, S

\* A page that has been read is well typed.
LEMMA ReadTypes ==
    ASSUME Readable, PagingTypes, ShownTypes, NEW q, Read(q), q.kind = "page" \/ CursorQuery(q),
           q.kind # "page" => /\ q.kind # "first" => q.at \in page.answer.items
                              /\ q.kind = "before" => place \in Turning,
           seen' = Shown(page'.answer.items), walk' \in {"forward", "back"},
           UNCHANGED <<db, place, asked, mode, touched, counter>>
    PROVE  /\ PagingTypes' /\ ShownTypes'
           /\ page'.answer = Page(place, q) /\ page'.query = q /\ page'.fresh = TRUE
           /\ page'.answer.items \in SUBSET Selected(place)
           /\ Selected(place)' = Selected(place) /\ \A i : At(i)' = At(i)
           /\ \A i \in Ids : db[i] # Absent /\ Selects(place, db[i]) =>
                  seen'[i] = IF At(i) \in page'.answer.items THEN seen[i] + 1 ELSE seen[i]
<1>1. page' = [answer |-> Page(place, q), query |-> q, fresh |-> TRUE]
    BY DEF Read
<1>2. Selected(place)' = Selected(place) /\ \A i : At(i)' = At(i)
    BY SelectedKept
<1> DEFINE items == page'.answer.items
<1>3. page'.answer = Page(place, q) /\ page'.query = q /\ page'.fresh = TRUE
    BY <1>1
<1>4. Documents(Selected(place)) /\ \A d \in Selected(place) : d = At(d.id) /\ d.id \in Ids
    BY SelectedFacts DEF PagingTypes
<1>5. items \in SUBSET Selected(place)
  <2>1. CASE q.kind = "page"
    <3>1. items = OffsetPage(place, q).items
      BY <1>3, <2>1 DEF Page
    <3> QED BY <3>1, OffsetFacts DEF PagingTypes
  <2>2. CASE q.kind # "page"
    <3>1. CursorQuery(q) /\ Comparable(place, q)
      BY <2>2, WalkCompares
    <3>2. items = Cut(place, q)
      BY <1>3, <3>1, Pages DEF Readable, PagingTypes, IsPage
    <3> QED BY <3>1, <3>2, CutForward, CutBackward DEF Readable, PagingTypes
  <2> QED BY <2>1, <2>2
<1>6. Documents(items)
    BY <1>4, <1>5, DocumentsPart
<1>7. ShownTypes'
  <2>1. place \notin Lacking => \A d \in items : d.v # Null
    <3>1. SUFFICES ASSUME place \notin Lacking PROVE \A d \in items : d.v # Null
      OBVIOUS
    <3> QED BY <1>5, <3>1, FieldsThere DEF PagingTypes
  <2>2. Documents(page.answer.items)'
    BY <1>6 DEF Documents
  <2> QED BY <1>2, <1>5, <2>1, <2>2 DEF ShownTypes
<1>8. seen' \in [Ids -> Nat]
    BY DEF Shown, PagingTypes
<1>9. PagingTypes'
    BY <1>1, <1>8 DEF PagingTypes, DbType
<1>10. ASSUME NEW i \in Ids, db[i] # Absent, Selects(place, db[i])
       PROVE  seen'[i] = IF At(i) \in items THEN seen[i] + 1 ELSE seen[i]
  <2>1. (\E d \in items : d.id = i) <=> At(i) \in items
    BY <1>4, <1>5 DEF At
  <2>2. seen'[i] = IF \E d \in items : d.id = i THEN seen[i] + 1 ELSE seen[i]
    BY DEF Shown
  <2> QED BY <2>1, <2>2
<1> QED BY <1>2, <1>3, <1>5, <1>7, <1>9, <1>10

\* The documents nobody wrote to are documents of the filter.
LEMMA StableSelected ==
    ASSUME PagingTypes, NEW i \in Stable
    PROVE  /\ i \in Ids /\ i \notin touched /\ db[i] # Absent /\ Selects(place, db[i])
           /\ At(i) \in Selected(place) /\ At(i) \in Position /\ At(i).id = i
BY SelectedFacts DEF PagingTypes, Stable, At

\* A page after those that have been shown keeps the account of the way to the end.
LEMMA ReadForward ==
    ASSUME Readable, PagingTypes, ShownTypes, NEW q, Read(q), CursorQuery(q), q.kind # "before",
           q.kind # "first" => q.at \in page.answer.items,
           \A i \in Stable : \/ /\ q.kind = "after" /\ seen[i] = 1
                                /\ At(i) = q.at \/ Before(place, At(i), q.at)
                             \/ seen[i] = 0 /\ At(i) \in Beyond(place, q),
           seen' = Shown(page'.answer.items), walk' = "forward",
           UNCHANGED <<db, place, asked, mode, touched, counter>>
    PROVE  PagingTypes' /\ ShownTypes' /\ ForwardWalk'
<1> DEFINE B == Beyond(place, q)
           C == Cut(place, q)
           S == Selected(place)
<1>1. /\ PagingTypes' /\ ShownTypes' /\ page'.answer = Page(place, q)
      /\ \A i : At(i)' = At(i)
      /\ \A i \in Ids : db[i] # Absent /\ Selects(place, db[i]) =>
             seen'[i] = IF At(i) \in page'.answer.items THEN seen[i] + 1 ELSE seen[i]
  <2>1. q.kind # "page" /\ walk' \in {"forward", "back"}
    BY DEF CursorQuery
  <2> QED BY <2>1, ReadTypes
<1>2. IsPage(page'.answer, place, q)
    BY <1>1, WalkCompares, Pages DEF Readable, PagingTypes
<1>3. page'.answer.items = C /\ (page'.answer.hasNext <=> B \ C # {})
    BY <1>2 DEF IsPage
<1>4. /\ B \in SUBSET S /\ C \in SUBSET B /\ (C = {} <=> B = {})
      /\ \A d \in C, e \in B \ C : Before(place, d, e)
    BY CutForward DEF Readable, PagingTypes
<1>5. S \subseteq Position
    BY SelectedFacts DEF PagingTypes, Documents
<1>6. \A a, b : Before(place, a, b)' <=> Before(place, a, b)
    BY OrderKept
<1>7. Stable' = Stable
    BY OrderKept DEF Stable
<1>8. q.kind = "after" => q.at \in Position /\ B = {d \in S : Before(place, q.at, d)}
    BY DEF CursorQuery, Beyond
<1> HIDE DEF B, C, S
<1>9. page'.answer.hasNext => page'.answer.items # {}
    BY <1>3, <1>4
<1>10. ASSUME NEW i \in Stable PROVE ForwardOf(i)'
  <2>1. At(i) \in S /\ At(i) \in Position /\ i \in Ids /\ db[i] # Absent /\ Selects(place, db[i])
    BY StableSelected DEF S
  <2>2. seen'[i] = IF At(i) \in C THEN seen[i] + 1 ELSE seen[i]
    BY <1>1, <1>3, <2>1
  <2>3. CASE /\ q.kind = "after" /\ seen[i] = 1
             /\ At(i) = q.at \/ Before(place, At(i), q.at)
    <3>1. \A e \in C : Before(place, q.at, e)
      BY <1>4, <1>8, <2>3
    <3>2. \A e \in C : Before(place, At(i), e)
      <4>1. TAKE e \in C
      <4>2. e \in Position /\ q.at \in Position /\ Before(place, q.at, e)
        BY <1>4, <1>5, <1>8, <2>3, <3>1
      <4> QED BY <2>1, <2>3, <4>2, BeforeOrders
    <3>3. At(i) \notin C
      <4>1. ~Before(place, At(i), At(i))
        BY <2>1, BeforeOrders
      <4> QED BY <3>2, <4>1
    <3> QED BY <1>1, <1>3, <1>6, <2>2, <2>3, <3>2, <3>3 DEF ForwardOf
  <2>4. CASE seen[i] = 0 /\ At(i) \in B
    <3>1. CASE At(i) \in C
      BY <1>1, <1>3, <2>2, <2>4, <3>1 DEF ForwardOf
    <3>2. CASE At(i) \in B \ C
      <4>1. \A e \in C : Before(place, e, At(i))
        BY <1>4, <3>2
      <4>2. page'.answer.hasNext
        BY <1>3, <3>2
      <4> QED BY <1>1, <1>3, <1>6, <2>2, <2>4, <3>2, <4>1, <4>2 DEF ForwardOf
    <3> QED BY <2>4, <3>1, <3>2
  <2> QED BY <2>3, <2>4 DEF B
<1> QED BY <1>1, <1>7, <1>9, <1>10 DEF ForwardWalk

\* A page before those that have been shown keeps the account of the way back.
LEMMA ReadBackward ==
    ASSUME Readable, PagingTypes, ShownTypes, NEW q, Read(q), CursorQuery(q), q.kind = "before",
           q.at \in page.answer.items, mode = "cursor", place \in Turning,
           \A i \in Stable : \/ /\ seen[i] = 1
                                /\ At(i) = q.at \/ Before(place, q.at, At(i))
                             \/ seen[i] = 0 /\ At(i) \in Beyond(place, q),
           seen' = Shown(page'.answer.items), walk' = "back",
           UNCHANGED <<db, place, asked, mode, touched, counter>>
    PROVE  PagingTypes' /\ ShownTypes' /\ BackWalk'
<1> DEFINE B == Beyond(place, q)
           C == Cut(place, q)
           S == Selected(place)
<1>1. /\ PagingTypes' /\ ShownTypes' /\ page'.answer = Page(place, q)
      /\ \A i : At(i)' = At(i)
      /\ \A i \in Ids : db[i] # Absent /\ Selects(place, db[i]) =>
             seen'[i] = IF At(i) \in page'.answer.items THEN seen[i] + 1 ELSE seen[i]
  <2>1. q.kind # "page" /\ walk' \in {"forward", "back"}
    BY DEF CursorQuery
  <2> QED BY <2>1, ReadTypes
<1>2. IsPage(page'.answer, place, q)
    BY <1>1, WalkCompares, Pages DEF Readable, PagingTypes
<1>3. page'.answer.items = C /\ (page'.answer.hasPrev <=> B \ C # {})
    BY <1>2 DEF IsPage
<1>4. /\ B \in SUBSET S /\ C \in SUBSET B /\ (C = {} <=> B = {})
      /\ \A d \in C, e \in B \ C : Before(place, e, d)
    BY CutBackward DEF Readable, PagingTypes
<1>5. S \subseteq Position
    BY SelectedFacts DEF PagingTypes, Documents
<1>6. \A a, b : Before(place, a, b)' <=> Before(place, a, b)
    BY OrderKept
<1>7. Stable' = Stable
    BY OrderKept DEF Stable
<1>8. q.at \in Position /\ B = {d \in S : Before(place, d, q.at)}
    BY DEF CursorQuery, Beyond
<1> HIDE DEF B, C, S
<1>9. ASSUME NEW i \in Stable PROVE BackOf(i)'
  <2>1. At(i) \in S /\ At(i) \in Position /\ i \in Ids /\ db[i] # Absent /\ Selects(place, db[i])
    BY StableSelected DEF S
  <2>2. seen'[i] = IF At(i) \in C THEN seen[i] + 1 ELSE seen[i]
    BY <1>1, <1>3, <2>1
  <2>3. CASE /\ seen[i] = 1
             /\ At(i) = q.at \/ Before(place, q.at, At(i))
    <3>1. \A e \in C : Before(place, e, q.at)
      BY <1>4, <1>8, <2>3
    <3>2. \A e \in C : Before(place, e, At(i))
      BY <1>4, <1>5, <1>8, <2>1, <2>3, <3>1, BeforeOrders
    <3>3. At(i) \notin C
      BY <2>1, <3>2, BeforeOrders
    <3> QED BY <1>1, <1>3, <1>6, <2>2, <2>3, <3>2, <3>3 DEF BackOf
  <2>4. CASE seen[i] = 0 /\ At(i) \in B
    <3>1. CASE At(i) \in C
      BY <1>1, <1>3, <2>2, <2>4, <3>1 DEF BackOf
    <3>2. CASE At(i) \in B \ C
      <4>1. \A e \in C : Before(place, At(i), e)
        BY <1>4, <3>2
      <4>2. page'.answer.hasPrev
        BY <1>3, <3>2
      <4> QED BY <1>1, <1>3, <1>6, <2>2, <2>4, <3>2, <4>1, <4>2 DEF BackOf
    <3> QED BY <2>4, <3>1, <3>2
  <2> QED BY <2>3, <2>4 DEF B
<1> QED BY <1>1, <1>7, <1>9 DEF BackWalk

\* More of the first documents hold fewer of them, and none are the first none.
LEMMA FirstOfGrows ==
    ASSUME NEW where, NEW S, Documents(S), NEW m \in Nat, NEW n \in Nat, m <= n
    PROVE  FirstOf(where, S, m) \subseteq FirstOf(where, S, n) /\ FirstOf(where, S, 0) = {}
<1>1. ASSUME NEW d \in S PROVE Cardinality({e \in S : Precedes(where, e, d)}) \in Nat
  <2>1. {e \in S : Precedes(where, e, d)} \in SUBSET S
    OBVIOUS
  <2>2. IsFiniteSet({e \in S : Precedes(where, e, d)})
    BY <2>1, FS_Subset DEF Documents
  <2> QED BY <2>2, FS_CardinalityType
<1> QED BY <1>1 DEF FirstOf

\* The next page by its number shows the next documents of the order.
LEMMA ReadNumbered ==
    ASSUME Readable, PagingTypes, ShownTypes, NEW q, Read(q), q.kind = "page", q.at \in Nat \ {0},
           touched = {},
           \A i \in Stable : seen[i] = IF At(i) \in FirstOf(place, Selected(place), (q.at - 1) * Limit)
                                       THEN 1 ELSE 0,
           seen' = Shown(page'.answer.items), walk' = "forward",
           UNCHANGED <<db, place, asked, mode, touched, counter>>
    PROVE  PagingTypes' /\ ShownTypes' /\ PageWalk'
<1> DEFINE S == Selected(place)
           skip == (q.at - 1) * Limit
           F(n) == FirstOf(place, S, n)
<1>1. /\ PagingTypes' /\ ShownTypes' /\ page'.answer = Page(place, q) /\ page'.query = q
      /\ Selected(place)' = S /\ \A i : At(i)' = At(i)
      /\ \A i \in Ids : db[i] # Absent /\ Selects(place, db[i]) =>
             seen'[i] = IF At(i) \in page'.answer.items THEN seen[i] + 1 ELSE seen[i]
    BY ReadTypes
<1>2. page'.answer = OffsetPage(place, q)
    BY <1>1 DEF Page
<1>3. Documents(S) /\ Limit \in Nat
    BY SelectedFacts, PagingBounds DEF PagingTypes
<1>4. skip \in Nat /\ skip + Limit = q.at * Limit
  <2>1. q.at - 1 \in Nat /\ q.at \in Nat
    OBVIOUS
  <2> QED BY <1>3, <2>1
<1>5. page'.answer.items = F(skip + Limit) \ F(skip)
      /\ (page'.answer.hasNext <=> Cardinality(S) > skip + Limit)
    BY <1>2, OffsetFacts DEF PagingTypes
<1>6. F(skip) \subseteq F(skip + Limit)
  <2>1. skip \in Nat /\ skip + Limit \in Nat /\ skip <= skip + Limit
    <3> HIDE DEF skip
    <3> QED BY <1>3, <1>4
  <2> HIDE DEF skip, S
  <2> QED BY <1>3, <2>1, FirstOfGrows
<1>7. Stable' = Stable
    BY OrderKept DEF Stable
<1>8. FirstOf(place, Selected(place), page.query.at * Limit)' = F(skip + Limit)
  <2>1. /\ \A a, b \in S : Precedes(place, a, b) <=> Before(place, a, b)
    BY <1>3, PrecedesIs DEF Documents, Readable
  <2>2. \A a, b \in S : Precedes(place, a, b)' <=> Precedes(place, a, b)
    BY <1>1 DEF Precedes, SmallerValue, IdAscends, ClientIdAscends, ServerIdAscends, SqlIdAscends, IdBelow, Indexed
  <2>3. FirstOf(place, Selected(place), page.query.at * Limit)' = FirstOf(place, S, q.at * Limit)
    BY <1>1, <2>2 DEF FirstOf
  <2> QED BY <1>4, <2>3
<1> HIDE DEF S, F, skip
<1>9. ASSUME NEW i \in Stable
      PROVE  seen'[i] = IF At(i) \in F(skip + Limit) THEN 1 ELSE 0
  <2>1. i \in Ids /\ db[i] # Absent /\ Selects(place, db[i]) /\ seen[i] = IF At(i) \in F(skip) THEN 1 ELSE 0
    BY StableSelected DEF F, S, skip
  <2>2. seen'[i] = IF At(i) \in page'.answer.items THEN seen[i] + 1 ELSE seen[i]
    BY <1>1, <2>1
  <2>3. At(i) \in page'.answer.items <=> At(i) \in F(skip + Limit) /\ At(i) \notin F(skip)
    BY <1>5
  <2>4. At(i) \in F(skip) => At(i) \in F(skip + Limit)
    BY <1>6
  <2> QED BY <2>1, <2>2, <2>3, <2>4
<1>10. page'.query.at \in Nat \ {0} /\ page'.query.kind = "page" /\ touched' = {}
    BY <1>1
<1>11. page'.answer.hasNext <=> Cardinality(Selected(place)') > page'.query.at * Limit
    BY <1>1, <1>4, <1>5 DEF S
<1>12. \A i \in Stable' : seen'[i] = IF At(i)' \in FirstOf(place, Selected(place), page.query.at * Limit)'
                                     THEN 1 ELSE 0
    BY <1>1, <1>7, <1>8, <1>9
<1>13. PageWalk'
    BY <1>10, <1>11, <1>12 DEF PageWalk
<1> QED BY <1>1, <1>13

\* The queries of a walk by cursors.
LEMMA FirstQuery ==
    /\ CursorQuery([kind |-> "first", at |-> 0, index |-> 0])
    /\ \A where : Beyond(where, [kind |-> "first", at |-> 0, index |-> 0]) = Selected(where)
BY DEF CursorQuery, Beyond


LEMMA StepFirst ==
    ASSUME Readable, PagingInv, FirstPage PROVE PagingInv'
<1>0. PagingTypes /\ ShownTypes /\ walk = "start" /\ walk' = "forward"
      /\ seen' = Shown(page'.answer.items) /\ UNCHANGED <<db, place, asked, mode, touched, counter>>
    BY DEF PagingInv, FirstPage
<1>1. touched = {} /\ \A i \in Ids : seen[i] = 0
    BY <1>0 DEF PagingInv, StartWalk
<1>2. CASE mode = "cursor"
  <2> DEFINE q == [kind |-> "first", at |-> 0, index |-> 0]
  <2>1. Read(q)
    BY <1>2 DEF FirstPage
  <2>2. q.kind = "first"
    OBVIOUS
  <2>3. CursorQuery(q) /\ Beyond(place, q) = Selected(place)
    BY FirstQuery
  <2> HIDE DEF q
  <2>4. \A i \in Stable : seen[i] = 0 /\ At(i) \in Beyond(place, q)
    BY <1>0, <1>1, <2>3, StableSelected
  <2>5. PagingTypes' /\ ShownTypes' /\ ForwardWalk'
    BY <1>0, <2>1, <2>2, <2>3, <2>4, ReadForward
  <2> QED BY <1>0, <1>2, <2>5 DEF PagingInv, StartWalk, EndWalk, BackWalk, PageWalk
<1>3. CASE mode = "page"
  <2> DEFINE q == [kind |-> "page", at |-> 1, index |-> 0]
  <2>1. Read(q)
    BY <1>3 DEF FirstPage
  <2>2. q.kind = "page" /\ q.at = 1 /\ (q.at - 1) * Limit = 0
    BY PagingBounds
  <2> HIDE DEF q
  <2>3. FirstOf(place, Selected(place), 0) = {}
    BY <1>0, SelectedFacts, FirstOfGrows DEF PagingTypes
  <2>4. \A i \in Stable : seen[i] = IF At(i) \in FirstOf(place, Selected(place), (q.at - 1) * Limit) THEN 1 ELSE 0
    BY <1>1, <2>2, <2>3 DEF Stable
  <2>5. PagingTypes' /\ ShownTypes' /\ PageWalk'
    BY <1>0, <1>1, <2>1, <2>2, <2>4, ReadNumbered
  <2> QED BY <1>0, <1>3, <2>5 DEF PagingInv, StartWalk, EndWalk, ForwardWalk, BackWalk
<1> QED BY <1>0, <1>2, <1>3 DEF PagingTypes

LEMMA StepNext ==
    ASSUME Readable, PagingInv, NextPage PROVE PagingInv'
<1>0. /\ PagingTypes /\ ShownTypes /\ walk = "forward" /\ walk' = "forward" /\ page.answer.hasNext
      /\ seen' = Shown(page'.answer.items) /\ UNCHANGED <<db, place, asked, mode, touched, counter>>
    BY DEF PagingInv, NextPage
<1>1. CASE mode = "cursor"
  <2> DEFINE items == page.answer.items
             q == [kind |-> "after", at |-> Last(place, items),
                   index |-> page.answer.first + Cardinality(items) - 1]
  <2>1. Read(q)
    BY <1>1 DEF NextPage
  <2>2. q.kind = "after" /\ q.at = Last(place, items)
    OBVIOUS
  <2> HIDE DEF q
  <2>3. items # {} /\ \A i \in Stable : ForwardOf(i)
    BY <1>0, <1>1 DEF PagingInv, ForwardWalk
  <2>4. Documents(items) /\ items \subseteq Position
    BY <1>0 DEF ShownTypes, Documents
  <2>5. q.at \in items /\ \A e \in items \ {q.at} : Before(place, e, q.at)
    BY <2>2, <2>3, <2>4, CursorsAre DEF Readable
  <2>6. CursorQuery(q) /\ Beyond(place, q) = {d \in Selected(place) : Before(place, q.at, d)}
    BY <2>2, <2>4, <2>5 DEF CursorQuery, Beyond
  <2>7. ASSUME NEW i \in Stable
        PROVE  \/ /\ q.kind = "after" /\ seen[i] = 1
                  /\ At(i) = q.at \/ Before(place, At(i), q.at)
               \/ seen[i] = 0 /\ At(i) \in Beyond(place, q)
    <3>1. At(i) \in Selected(place)
      BY <1>0, StableSelected
    <3>2. ForwardOf(i)
      BY <2>3
    <3> QED BY <2>2, <2>5, <2>6, <3>1, <3>2 DEF ForwardOf
  <2>8. PagingTypes' /\ ShownTypes' /\ ForwardWalk'
    BY <1>0, <2>1, <2>2, <2>5, <2>6, <2>7, ReadForward
  <2> QED BY <1>0, <1>1, <2>8 DEF PagingInv, StartWalk, EndWalk, BackWalk, PageWalk
<1>2. CASE mode = "page"
  <2> DEFINE q == [kind |-> "page", at |-> page.query.at + 1, index |-> 0]
  <2>1. Read(q)
    BY <1>2 DEF NextPage
  <2>2. /\ touched = {} /\ page.query.at \in Nat \ {0}
        /\ \A i \in Stable : seen[i] = IF At(i) \in FirstOf(place, Selected(place), page.query.at * Limit) THEN 1 ELSE 0
    BY <1>0, <1>2 DEF PagingInv, PageWalk
  <2>3. q.kind = "page" /\ q.at \in Nat \ {0} /\ q.at - 1 = page.query.at
    BY <2>2
  <2> HIDE DEF q
  <2>4. PagingTypes' /\ ShownTypes' /\ PageWalk'
    BY <1>0, <2>1, <2>2, <2>3, ReadNumbered
  <2> QED BY <1>0, <1>2, <2>4 DEF PagingInv, StartWalk, EndWalk, ForwardWalk, BackWalk
<1> QED BY <1>0, <1>1, <1>2 DEF PagingTypes

LEMMA StepPrev ==
    ASSUME Readable, PagingInv, PrevPage PROVE PagingInv'
<1>0. /\ PagingTypes /\ ShownTypes /\ walk = "back" /\ walk' = "back" /\ page.answer.items # {}
      /\ seen' = Shown(page'.answer.items) /\ UNCHANGED <<db, place, asked, mode, touched, counter>>
    BY DEF PagingInv, PrevPage
<1>1. mode = "cursor" /\ place \in Turning /\ \A i \in Stable : BackOf(i)
    BY <1>0 DEF PagingInv, BackWalk
<1> DEFINE items == page.answer.items
           q == [kind |-> "before", at |-> Head(place, items), index |-> page.answer.first]
<1>2. Read(q)
    BY DEF PrevPage
<1>3. q.kind = "before" /\ q.at = Head(place, items)
    OBVIOUS
<1> HIDE DEF q
<1>4. Documents(items) /\ items \subseteq Position
    BY <1>0 DEF ShownTypes, Documents
<1>5. q.at \in items /\ \A e \in items \ {q.at} : Before(place, q.at, e)
    BY <1>0, <1>3, <1>4, CursorsAre DEF Readable
<1>6. CursorQuery(q) /\ Beyond(place, q) = {d \in Selected(place) : Before(place, d, q.at)}
    BY <1>3, <1>4, <1>5 DEF CursorQuery, Beyond
<1>7. ASSUME NEW i \in Stable
      PROVE  \/ /\ seen[i] = 1
                /\ At(i) = q.at \/ Before(place, q.at, At(i))
             \/ seen[i] = 0 /\ At(i) \in Beyond(place, q)
  <2>1. At(i) \in Selected(place)
    BY <1>0, StableSelected
  <2>2. BackOf(i)
    BY <1>1
  <2> QED BY <1>5, <1>6, <2>1, <2>2 DEF BackOf
<1>8. PagingTypes' /\ ShownTypes' /\ BackWalk'
    BY <1>0, <1>1, <1>2, <1>3, <1>5, <1>6, <1>7, ReadBackward
<1> QED BY <1>0, <1>1, <1>8 DEF PagingInv, StartWalk, EndWalk, ForwardWalk, PageWalk

LEMMA StepTurn ==
    ASSUME Readable, PagingInv, Turn PROVE PagingInv'
<1>0. /\ PagingTypes /\ ShownTypes /\ walk = "forward" /\ ~page.answer.hasNext
      /\ walk' = IF page.answer.hasPrev /\ mode = "cursor" /\ place \in Turning THEN "back" ELSE "end"
      /\ seen' = [i \in Ids |-> IF \E d \in page.answer.items : d.id = i THEN 1 ELSE 0]
      /\ UNCHANGED <<db, place, asked, mode, page, touched, counter>>
    BY DEF PagingInv, Turn
<1>1. Selected(place)' = Selected(place) /\ \A i : At(i)' = At(i)
    BY <1>0, SelectedKept
<1>2. Stable' = Stable /\ \A a, b : Before(place, a, b)' <=> Before(place, a, b)
    BY <1>0, OrderKept DEF Stable
<1>3. PagingTypes' /\ ShownTypes'
  <2>1. seen' \in [Ids -> Nat] /\ walk' \in {"back", "end"}
    BY <1>0
  <2>2. PagingTypes'
    BY <1>0, <2>1 DEF PagingTypes, DbType
  <2>3. ShownTypes'
    BY <1>0, <1>1 DEF ShownTypes, Documents
  <2> QED BY <2>2, <2>3
<1>4. ASSUME walk' = "back", NEW i \in Stable PROVE BackOf(i)'
  <2>1. page.answer.hasPrev /\ mode = "cursor"
    BY <1>0, <1>4
  <2>2. ForwardOf(i)
    BY <1>0, <2>1 DEF PagingInv, ForwardWalk
  <2>3. i \in Ids /\ i \notin touched /\ At(i).id = i
    BY <1>0, StableSelected
  <2>4. seen'[i] = IF At(i) \in page.answer.items THEN 1 ELSE 0
    <3>1. \A d \in page.answer.items : d.id = i => d \in Selected(place)
      BY <1>0, <2>3 DEF ShownTypes
    <3>2. \A d \in page.answer.items : d.id = i => d = At(i)
      BY <1>0, <3>1, SelectedFacts DEF PagingTypes
    <3> QED BY <1>0, <2>3, <3>2
  <2>5. CASE At(i) \in page.answer.items
    BY <1>0, <1>1, <2>4, <2>5 DEF BackOf
  <2>6. CASE At(i) \notin page.answer.items
    <3>1. \A e \in page.answer.items : Before(place, At(i), e)
      BY <1>0, <2>2, <2>6 DEF ForwardOf
    <3> QED BY <1>0, <1>1, <1>2, <2>1, <2>4, <2>6, <3>1 DEF BackOf
  <2> QED BY <2>5, <2>6
<1>5. BackWalk'
    BY <1>0, <1>2, <1>4 DEF BackWalk
<1>6. EndWalk'
    BY <1>0 DEF EndWalk
<1> QED BY <1>0, <1>3, <1>5, <1>6 DEF PagingInv, StartWalk, ForwardWalk, PageWalk

\* Whatever others write, the documents they left alone stand where they stood.
LEMMA WrittenElsewhere ==
    ASSUME Readable, PagingInv, NEW W \in SUBSET Ids,
           mode = "cursor", walk \in {"forward", "back"},
           db' \in [Ids -> Values \cup {Null, Absent}],
           place \notin Lacking => \A i \in Ids : db'[i] # Null,
           \A i \in Ids \ W : db'[i] = db[i],
           touched' = touched \cup W, page' = [page EXCEPT !.fresh = FALSE], counter' \in Int,
           UNCHANGED <<place, asked, mode, walk, seen>>
    PROVE  PagingInv'
<1>0. PagingTypes /\ ShownTypes
    BY DEF PagingInv
<1>1. page'.answer = page.answer /\ page' = [answer |-> page'.answer, query |-> page'.query, fresh |-> page'.fresh]
    BY <1>0 DEF PagingTypes
<1>2. PagingTypes'
    BY <1>0, <1>1 DEF PagingTypes, DbType
<1>3. \A a, b : Before(place, a, b)' <=> Before(place, a, b)
    BY OrderKept
<1>4. \A v : Selects(place, v)' <=> Selects(place, v)
    BY OrderKept
<1>5. ASSUME NEW i \in Stable' PROVE i \in Stable /\ At(i)' = At(i)
  <2>1. i \in Ids /\ i \notin touched /\ i \notin W /\ db'[i] # Absent /\ Selects(place, db[i])'
    BY <1>5 DEF Stable
  <2>2. db'[i] = db[i]
    BY <2>1
  <2>3. Selects(place, db[i])
    BY <1>4, <2>1, <2>2
  <2> QED BY <2>1, <2>2, <2>3 DEF Stable, At
<1>6. ShownTypes'
  <2>1. ASSUME NEW d \in page'.answer.items, d.id \notin touched' PROVE d \in Selected(place)'
    <3>1. d \in Selected(place) /\ d.id \notin W
      BY <1>0, <1>1, <2>1 DEF ShownTypes
    <3>2. d \in Position /\ d.id \in Ids /\ db[d.id] = d.v /\ Selects(place, d.v)
      BY <3>1, PositionType DEF Selected
    <3>3. db'[d.id] = d.v
      BY <3>1, <3>2
    <3> QED BY <1>4, <3>2, <3>3 DEF Selected
  <2> QED BY <1>0, <1>1, <2>1 DEF ShownTypes, Documents
<1>7. ForwardWalk'
  <2>1. ASSUME walk = "forward", NEW i \in Stable' PROVE ForwardOf(i)'
    <3>1. ForwardOf(i)
      BY <1>5, <2>1 DEF PagingInv, ForwardWalk
    <3> QED BY <1>1, <1>3, <1>5, <2>1, <3>1 DEF ForwardOf
  <2> QED BY <1>1, <2>1 DEF ForwardWalk, PagingInv
<1>8. BackWalk'
  <2>1. ASSUME walk = "back", NEW i \in Stable' PROVE BackOf(i)'
    <3>1. BackOf(i)
      BY <1>5, <2>1 DEF PagingInv, BackWalk
    <3> QED BY <1>1, <1>3, <1>5, <2>1, <3>1 DEF BackOf
  <2> QED BY <2>1 DEF BackWalk, PagingInv
<1> QED BY <1>2, <1>6, <1>7, <1>8 DEF PagingInv, StartWalk, EndWalk, PageWalk

\* The stored count stays a number.
LEMMA CountedType ==
    ASSUME counter \in Int, NEW was \in BOOLEAN, NEW is \in BOOLEAN
    PROVE  Counted(was, is) \in Int
BY DEF Counted, Monus

LEMMA StepWrite ==
    ASSUME Readable, PagingInv, NEW i \in Ids, NEW v \in Values \cup {Absent}, Write(i, v)
    PROVE  PagingInv'
<1>0. PagingTypes
    BY DEF PagingInv
<1>1. /\ mode = "cursor" /\ walk \in {"forward", "back"}
      /\ db' = [db EXCEPT ![i] = v] /\ touched' = touched \cup {i}
      /\ page' = [page EXCEPT !.fresh = FALSE]
      /\ UNCHANGED <<place, asked, mode, walk, seen>>
    BY DEF Write
<1>2. v # Null /\ v \in Values \cup {Null, Absent}
    BY ValuesAssumption DEF Null, Absent
<1>3. /\ db' \in [Ids -> Values \cup {Null, Absent}]
      /\ place \notin Lacking => \A j \in Ids : db'[j] # Null
      /\ \A j \in Ids \ {i} : db'[j] = db[j]
    BY <1>0, <1>1, <1>2 DEF PagingTypes, DbType
<1>4. counter' \in Int
    BY <1>0, CountedType DEF Write, PagingTypes
<1> DEFINE W == {i}
<1>5. W \in SUBSET Ids /\ touched' = touched \cup W /\ \A j \in Ids \ W : db'[j] = db[j]
    BY <1>1, <1>3
<1> HIDE DEF W
<1> QED BY <1>1, <1>3, <1>4, <1>5, WrittenElsewhere

LEMMA StepRename ==
    ASSUME Readable, PagingInv, NEW i \in Ids, NEW j \in Ids, Rename(i, j)
    PROVE  PagingInv'
<1>0. PagingTypes
    BY DEF PagingInv
<1>1. /\ place = "indexeddb" /\ walk \in {"forward", "back"}
      /\ db' = [db EXCEPT ![j] = db[i], ![i] = Absent] /\ touched' = touched \cup {i, j}
      /\ page' = [page EXCEPT !.fresh = FALSE] /\ counter' = counter
      /\ UNCHANGED <<place, asked, mode, walk, seen>>
    BY DEF Rename
<1>2. mode = "cursor"
    BY <1>0, <1>1 DEF PagingTypes
<1>3. Null # Absent
    BY DEF Null, Absent
<1>4. /\ db' \in [Ids -> Values \cup {Null, Absent}]
      /\ place \notin Lacking => \A k \in Ids : db'[k] # Null
      /\ \A k \in Ids \ {i, j} : db'[k] = db[k]
    BY <1>0, <1>1, <1>3 DEF PagingTypes, DbType
<1>5. counter' \in Int
    BY <1>0, <1>1 DEF PagingTypes
<1> DEFINE W == {i, j}
<1>6. W \in SUBSET Ids /\ touched' = touched \cup W /\ \A k \in Ids \ W : db'[k] = db[k]
    BY <1>1, <1>4
<1> HIDE DEF W
<1> QED BY <1>1, <1>2, <1>4, <1>5, <1>6, WrittenElsewhere

\* Starting the index, and doing nothing, changes nothing that the walk sees.
LEMMA StepUnseen ==
    ASSUME Readable, PagingInv, counter' \in Int,
           UNCHANGED <<db, place, asked, mode, page, walk, seen, touched>>,
           counter' = counter \/ place = "indexeddb"
    PROVE  PagingInv'
<1>1. Selected(place)' = Selected(place) /\ \A i : At(i)' = At(i)
    BY SelectedKept
<1>2. \A a, b : Before(place, a, b)' <=> Before(place, a, b)
    BY OrderKept
<1>3. Stable' = Stable
    BY OrderKept DEF Stable
<1>4. PagingTypes' /\ ShownTypes'
    BY <1>1 DEF PagingInv, PagingTypes, ShownTypes, DbType, Documents
<1>5. ForwardWalk'
  <2>1. \A i \in Stable : ForwardOf(i) => ForwardOf(i)'
    BY <1>1, <1>2 DEF ForwardOf
  <2> QED BY <1>3, <2>1 DEF PagingInv, ForwardWalk
<1>6. BackWalk'
  <2>1. \A i \in Stable : BackOf(i) => BackOf(i)'
    BY <1>1, <1>2 DEF BackOf
  <2> QED BY <1>3, <2>1 DEF PagingInv, BackWalk
<1>7. PageWalk'
  <2>1. CASE mode # "page"
    BY <2>1 DEF PageWalk
  <2>2. CASE mode = "page"
    <3>1. counter' = counter
      BY <2>2 DEF PagingInv, PagingTypes
    <3>2. FirstOf(place, Selected(place), page.query.at * Limit)'
          = FirstOf(place, Selected(place), page.query.at * Limit)
      <4>1. \A a, b : Precedes(place, a, b)' <=> Precedes(place, a, b)
        BY <3>1 DEF Precedes, SmallerValue, IdAscends, ClientIdAscends, ServerIdAscends, SqlIdAscends,
                    IdBelow, Indexed
      <4> QED BY <1>1, <4>1 DEF FirstOf
    <3> QED BY <1>1, <1>3, <2>2, <3>2 DEF PagingInv, PageWalk
  <2> QED BY <2>1, <2>2
<1> QED BY <1>4, <1>5, <1>6, <1>7 DEF PagingInv, StartWalk, EndWalk

LEMMA StepIndex ==
    ASSUME Readable, PagingInv, StartIndex PROVE PagingInv'
<1>1. {i \in Ids : db[i] # Absent} \in SUBSET Ids
    OBVIOUS
<1>2. Cardinality({i \in Ids : db[i] # Absent}) \in Nat
    BY <1>1, IdsAssumption, FS_Subset, FS_CardinalityType
<1>3. counter' \in Int /\ place = "indexeddb"
      /\ UNCHANGED <<db, place, asked, mode, page, walk, seen, touched>>
    BY <1>2 DEF StartIndex
<1> QED BY <1>3, StepUnseen

\* Every step of a walk, and of those who write meanwhile, keeps its account.
LEMMA WalkStep ==
    ASSUME Readable, PagingInv, [PagingNext]_pagingVars PROVE PagingInv'
<1>1. CASE UNCHANGED pagingVars
    BY <1>1, StepUnseen DEF pagingVars, PagingInv, PagingTypes
<1>2. CASE FirstPage
    BY <1>2, StepFirst
<1>3. CASE NextPage
    BY <1>3, StepNext
<1>4. CASE Turn
    BY <1>4, StepTurn
<1>5. CASE PrevPage
    BY <1>5, StepPrev
<1>6. CASE \E i \in Ids, v \in Values \cup {Absent} : Write(i, v)
    BY <1>6, StepWrite
<1>7. CASE StartIndex
    BY <1>7, StepIndex
<1>8. CASE \E i, j \in Ids : Rename(i, j)
    BY <1>8, StepRename
<1> QED BY <1>1, <1>2, <1>3, <1>4, <1>5, <1>6, <1>7, <1>8 DEF PagingNext

\* The account of a walk holds in every reachable state, whoever answers and whatever
\* is written meanwhile.
THEOREM WalkInvariance ==
    ASSUME Readable PROVE PagingSpec => []PagingInv
<1>1. PagingInit => PagingInv
    BY WalkInit
<1>2. PagingInv /\ [PagingNext]_pagingVars => PagingInv'
    BY WalkStep
<1> QED BY <1>1, <1>2, PTL DEF PagingSpec

\* No document that nobody wrote to is shown twice on the way to the end, nor on the
\* way back, whatever is written between the pages: what the cursors of paging.next
\* and paging.prev promise.
THEOREM ShownOnce ==
    ASSUME Readable PROVE PagingSpec => []NothingTwice
<1>1. PagingInv => NothingTwice
  <2>1. SUFFICES ASSUME PagingInv, NEW i \in Stable PROVE seen[i] <= 1
    BY DEF NothingTwice
  <2>2. PagingTypes /\ i \in Ids
    BY <2>1, StableSelected DEF PagingInv
  <2>3. seen[i] \in {0, 1}
    BY <2>1, <2>2 DEF PagingInv, PagingTypes, StartWalk, EndWalk, ForwardWalk, BackWalk, PageWalk, ForwardOf, BackOf
  <2> QED BY <2>3
<1>2. PagingSpec => []PagingInv
    BY WalkInvariance
<1> QED BY <1>1, <1>2, PTL

\* When nothing follows on the way to the end, or on the way back, every document
\* that nobody wrote to has been shown.
THEOREM ShownAll ==
    ASSUME Readable PROVE PagingSpec => []NothingLeftOut
<1>1. PagingInv => NothingLeftOut
  <2>1. SUFFICES ASSUME PagingInv, NEW i \in Stable
                 PROVE  /\ walk = "forward" /\ ~page.answer.hasNext => seen[i] = 1
                        /\ walk = "back" /\ ~page.answer.hasPrev => seen[i] = 1
    BY DEF NothingLeftOut
  <2>2. PagingTypes /\ At(i) \in Selected(place)
    BY <2>1, StableSelected DEF PagingInv
  <2>3. ASSUME walk = "back", ~page.answer.hasPrev PROVE seen[i] = 1
    BY <2>1, <2>3 DEF PagingInv, BackWalk, BackOf
  <2>4. ASSUME walk = "forward", ~page.answer.hasNext PROVE seen[i] = 1
    <3>1. CASE mode = "cursor"
      BY <2>1, <2>4, <3>1 DEF PagingInv, ForwardWalk, ForwardOf
    <3>2. CASE mode = "page"
      <4> DEFINE n == page.query.at * Limit
                 S == Selected(place)
      <4>1. /\ page.query.at \in Nat \ {0} /\ ~(Cardinality(S) > n)
            /\ seen[i] = IF At(i) \in FirstOf(place, S, n) THEN 1 ELSE 0
        BY <2>1, <2>4, <3>2 DEF PagingInv, PageWalk
      <4>2. n \in Nat
        BY <4>1, PagingBounds
      <4>3. Documents(S)
        BY <2>2, SelectedFacts DEF PagingTypes
      <4> HIDE DEF n, S
      <4>4. Cardinality(S) \in Nat /\ (FirstOf(place, S, n) = S <=> Cardinality(S) <= n)
        BY <4>2, <4>3, FirstOfFacts DEF Readable
      <4> QED BY <2>2, <4>1, <4>2, <4>4 DEF S
    <3> QED BY <2>2, <3>1, <3>2 DEF PagingTypes
  <2> QED BY <2>3, <2>4
<1>2. PagingSpec => []PagingInv
    BY WalkInvariance
<1> QED BY <1>1, <1>2, PTL

-----------------------------------------------------------------------------
(* Counts *)

\* What the counts rest on as well: no update takes the id of another row, and the
\* places that count both sides of a page are not Mongo and D1.
Countable ==
    /\ Readable
    /\ Overwriting = FALSE
    /\ Counting \subseteq {"client", "indexeddb", "postgres"}

\* The documents on both sides of a page.
EarlierThan(C) == {d \in Selected(place) : \A e \in C : Before(place, d, e)}
LaterThan(C) == {d \in Selected(place) : \A e \in C : Before(place, e, d)}

\* The sides of an answer are there, and its numbers are theirs.
SidesThere(answer) ==
    /\ answer.hasPrev = (EarlierThan(answer.items) # {})
    /\ answer.hasNext = (LaterThan(answer.items) # {})
NumbersTrue(answer) ==
    /\ answer.prev = Cardinality(EarlierThan(answer.items))
    /\ answer.next = Cardinality(LaterThan(answer.items))

\* They are the sides in the order that an index may have changed.
LEMMA SidesAre ==
    ASSUME TextInOrder, DbType, NEW C \in SUBSET Position
    PROVE  /\ {d \in Selected(place) : \A e \in C : Precedes(place, d, e)} = EarlierThan(C)
           /\ {d \in Selected(place) : \A e \in C : Precedes(place, e, d)} = LaterThan(C)
<1>1. Selected(place) \subseteq Position
    BY SelectedFacts DEF Documents
<1> QED BY <1>1, PrecedesIs DEF EarlierThan, LaterThan

\* A finite set is a part of it and the rest.
LEMMA TwoParts ==
    ASSUME NEW S, IsFiniteSet(S), NEW T \in SUBSET S
    PROVE  /\ Cardinality(S) \in Nat /\ Cardinality(T) \in Nat /\ Cardinality(S \ T) \in Nat
           /\ IsFiniteSet(T)
           /\ Cardinality(S) = Cardinality(T) + Cardinality(S \ T)
<1>1. IsFiniteSet(T) /\ IsFiniteSet(S \ T) /\ S \cap T = T
    BY FS_Subset
<1>2. Cardinality(S) \in Nat /\ Cardinality(T) \in Nat /\ Cardinality(S \ T) \in Nat
    BY <1>1, FS_CardinalityType
<1>3. Cardinality(S \ T) = Cardinality(S) - Cardinality(T)
    BY <1>1, FS_Difference
<1> QED BY <1>1, <1>2, <1>3

\* A part of a finite set is finite, and not empty if it counts something.
LEMMA PartCount ==
    ASSUME NEW S, IsFiniteSet(S), NEW T \in SUBSET S
    PROVE  IsFiniteSet(T) /\ Cardinality(T) \in Nat /\ (T # {} <=> Cardinality(T) > 0)
BY FS_Subset, FS_CardinalityType, FS_EmptySet

\* On the way to the end, what lies before a page is what does not lie beyond the
\* cursor.
LEMMA EarlierForward ==
    ASSUME TextInOrder, DbType, NEW q, CursorQuery(q), q.kind # "before",
           q.kind = "after" => \A d \in Selected(place) : d.id = q.at.id => d = q.at,
           Cut(place, q) # {}
    PROVE  /\ EarlierThan(Cut(place, q)) = Selected(place) \ Beyond(place, q)
           /\ LaterThan(Cut(place, q)) = Beyond(place, q) \ Cut(place, q)
<1> DEFINE S == Selected(place)
           B == Beyond(place, q)
           C == Cut(place, q)
<1>1. /\ B \in SUBSET S /\ C \in SUBSET B
      /\ \A d \in C, e \in B \ C : Before(place, d, e)
      /\ {d \in S : \A e \in C : Precedes(place, e, d)} = B \ C
    BY CutForward
<1>2. S \subseteq Position
    BY SelectedFacts DEF Documents
<1>3. LaterThan(C) = B \ C
    BY <1>1, <1>2, SidesAre
<1>4. ASSUME NEW d \in S \ B, NEW e \in C PROVE Before(place, d, e)
  <2>1. q.kind = "after" /\ q.at \in Position /\ B = {f \in S : Before(place, q.at, f)}
    BY <1>4 DEF CursorQuery, Beyond
  <2>2. Before(place, q.at, e) /\ ~Before(place, q.at, d)
    BY <1>1, <1>4, <2>1
  <2>3. d = q.at \/ Before(place, d, q.at)
    BY <1>2, <2>1, <2>2, BeforeOrders
  <2> QED BY <1>1, <1>2, <2>1, <2>2, <2>3, BeforeOrders
<1>5. ASSUME NEW d \in B PROVE \E e \in C : ~Before(place, d, e)
  <2>1. CASE d \in C
    BY <1>1, <1>2, <2>1, BeforeOrders
  <2>2. CASE d \in B \ C
    <3>1. PICK e \in C : TRUE
      OBVIOUS
    <3>2. Before(place, e, d)
      BY <1>1, <2>2
    <3> QED BY <1>1, <1>2, <3>2, BeforeOrders
  <2> QED BY <2>1, <2>2
<1>6. EarlierThan(C) = S \ B
    BY <1>1, <1>4, <1>5 DEF EarlierThan
<1> QED BY <1>3, <1>6

\* On the way back, what lies before a page is what is left before the cursor, and
\* what does not lie before the cursor comes after the page.
LEMMA EarlierBackward ==
    ASSUME TextInOrder, DbType, NEW q, CursorQuery(q), q.kind = "before",
           \A d \in Selected(place) : d.id = q.at.id => d = q.at,
           Cut(place, q) # {}
    PROVE  /\ EarlierThan(Cut(place, q)) = Beyond(place, q) \ Cut(place, q)
           /\ LaterThan(Cut(place, q)) = Selected(place) \ Beyond(place, q)
<1> DEFINE S == Selected(place)
           B == Beyond(place, q)
           C == Cut(place, q)
<1>1. /\ B \in SUBSET S /\ C \in SUBSET B
      /\ \A d \in C, e \in B \ C : Before(place, e, d)
      /\ {d \in S : \A e \in C : Precedes(place, d, e)} = B \ C
    BY CutBackward
<1>2. S \subseteq Position
    BY SelectedFacts DEF Documents
<1>3. EarlierThan(C) = B \ C
    BY <1>1, <1>2, SidesAre
<1>4. ASSUME NEW d \in S \ B, NEW e \in C PROVE Before(place, e, d)
  <2>1. q.at \in Position /\ B = {f \in S : Before(place, f, q.at)}
    BY DEF CursorQuery, Beyond
  <2>2. Before(place, e, q.at) /\ ~Before(place, d, q.at)
    BY <1>1, <1>4, <2>1
  <2>3. d = q.at \/ Before(place, q.at, d)
    BY <1>2, <2>1, <2>2, BeforeOrders
  <2> QED BY <1>1, <1>2, <2>1, <2>2, <2>3, BeforeOrders
<1>5. ASSUME NEW d \in B PROVE \E e \in C : ~Before(place, e, d)
  <2>1. CASE d \in C
    BY <1>1, <1>2, <2>1, BeforeOrders
  <2>2. CASE d \in B \ C
    <3>1. PICK e \in C : TRUE
      OBVIOUS
    <3>2. Before(place, d, e)
      BY <1>1, <2>2
    <3> QED BY <1>1, <1>2, <3>2, BeforeOrders
  <2> QED BY <2>1, <2>2
<1>6. LaterThan(C) = S \ B
    BY <1>1, <1>4, <1>5 DEF LaterThan
<1> QED BY <1>3, <1>6

\* A page that was scanned says what lies on both sides of it.
LEMMA SidesFromParts ==
    ASSUME NEW answer, NEW C,
           answer = Answer(C, Cardinality(EarlierThan(C)), Cardinality(LaterThan(C)),
                           EarlierThan(C) # {}, LaterThan(C) # {})
    PROVE  /\ answer.items = C /\ SidesThere(answer) /\ NumbersTrue(answer)
           /\ answer.first = Cardinality(EarlierThan(C))
<1> DEFINE prev == EarlierThan(C)
           next == LaterThan(C)
           p == prev # {}
           n == next # {}
<1>1. p \in BOOLEAN /\ n \in BOOLEAN /\ answer = Answer(C, Cardinality(prev), Cardinality(next), p, n)
    OBVIOUS
<1> HIDE DEF p, n
<1>2. /\ answer.items = C /\ answer.prev = Cardinality(prev) /\ answer.next = Cardinality(next)
      /\ answer.hasPrev = p /\ answer.hasNext = n /\ answer.first = Cardinality(prev)
    BY <1>1, AnswerFields
<1> QED BY <1>2 DEF SidesThere, NumbersTrue, p, n

LEMMA ClientCounts ==
    ASSUME TextInOrder, DbType, place \in {"client", "indexeddb"}, NEW q, CursorQuery(q),
           ClientPage(q).items # {}
    PROVE  /\ SidesThere(ClientPage(q)) /\ NumbersTrue(ClientPage(q))
           /\ ClientPage(q).first = Cardinality(EarlierThan(ClientPage(q).items))
<1> DEFINE C == Cut("client", q)
           prev == {d \in Selected("client") : \A e \in C : Precedes("client", d, e)}
           next == {d \in Selected("client") : \A e \in C : Precedes("client", e, d)}
<1>1. /\ ClientPage(q) = IF C = {} THEN Answer({}, 0, 0, FALSE, FALSE)
                         ELSE Answer(C, Cardinality(prev), Cardinality(next), prev # {}, next # {})
      /\ ClientPage(q).items = C
    BY ClientPages DEF IsPage
<1>2. Selected("client") = Selected(place) /\ \A a, b : Before("client", a, b) <=> Before(place, a, b)
  <2>1. \A v : Selects("client", v) <=> Selects(place, v)
    <3>1. \A v, c : Matches("client", v, c) <=> Matches(place, v, c)
      BY DEF Matches
    <3> QED BY <3>1 DEF Selects, AllMatch
  <2>2. \A a, b : Before("client", a, b) <=> Before(place, a, b)
    BY DEF Before, ValueFirst, IdFirst, IdAscends, SmallerValue
  <2> QED BY <2>1, <2>2 DEF Selected
<1>3. C \in SUBSET Position /\ Selected(place) \subseteq Position
    BY <1>2, CutForward, CutBackward, SelectedFacts DEF Documents
<1>4. prev = {d \in Selected(place) : \A e \in C : Precedes(place, d, e)}
      /\ next = {d \in Selected(place) : \A e \in C : Precedes(place, e, d)}
  <2>1. \A d \in Selected(place), e \in C :
            /\ Precedes("client", d, e) <=> Precedes(place, d, e)
            /\ Precedes("client", e, d) <=> Precedes(place, e, d)
    BY <1>2, <1>3, PrecedesIs
  <2> QED BY <1>2, <2>1
<1>5. ClientPage(q) = Answer(C, Cardinality(prev), Cardinality(next), prev # {}, next # {})
    BY <1>1
<1> DEFINE answer == ClientPage(q)
<1> HIDE DEF C, prev, next, answer
<1>6. answer = Answer(C, Cardinality(prev), Cardinality(next), prev # {}, next # {})
    BY <1>5 DEF answer
<1>7. prev = EarlierThan(C) /\ next = LaterThan(C)
    BY <1>3, <1>4, SidesAre
<1>8. /\ answer.items = C /\ SidesThere(answer) /\ NumbersTrue(answer)
      /\ answer.first = Cardinality(EarlierThan(C))
    BY <1>6, <1>7, SidesFromParts
<1> QED BY <1>8 DEF answer

LEMMA PostgresCounts ==
    ASSUME TextInOrder, DbType, asked \in Requests, place = "postgres", NEW q, CursorQuery(q),
           Comparable(place, q), PostgresPage(q).items # {}
    PROVE  SidesThere(PostgresPage(q)) /\ NumbersTrue(PostgresPage(q))
<1> DEFINE C == Cut("postgres", q)
           prev == {d \in Selected("postgres") : \A e \in C : Precedes("postgres", d, e)}
           next == {d \in Selected("postgres") : \A e \in C : Precedes("postgres", e, d)}
<1>1. /\ PostgresPage(q) = IF C = {} THEN Answer({}, 0, 0, FALSE, FALSE)
                           ELSE Answer(C, Cardinality(prev), Cardinality(next), prev # {}, next # {})
      /\ PostgresPage(q).items = C
    BY PostgresPages DEF IsPage
<1>2. C \in SUBSET Position
    BY CutForward, CutBackward, SelectedFacts DEF Documents
<1>3. prev = {d \in Selected(place) : \A e \in C : Precedes(place, d, e)}
      /\ next = {d \in Selected(place) : \A e \in C : Precedes(place, e, d)}
    OBVIOUS
<1>4. PostgresPage(q) = Answer(C, Cardinality(prev), Cardinality(next), prev # {}, next # {})
    BY <1>1
<1> DEFINE answer == PostgresPage(q)
<1> HIDE DEF C, prev, next, answer
<1>5. answer = Answer(C, Cardinality(prev), Cardinality(next), prev # {}, next # {})
    BY <1>4 DEF answer
<1>6. prev = EarlierThan(C) /\ next = LaterThan(C)
    BY <1>2, <1>3, SidesAre
<1>7. SidesThere(answer) /\ NumbersTrue(answer)
    BY <1>5, <1>6, SidesFromParts
<1> QED BY <1>7 DEF answer

\* The index in the cursor of a query is the place of its document.
IndexRight(q) ==
    /\ q.kind = "after" =>
          /\ \A d \in Selected(place) : d.id = q.at.id => d = q.at
          /\ q.index + 1 = Cardinality(Selected(place) \ Beyond(place, q))
    /\ q.kind = "before" =>
          /\ \A d \in Selected(place) : d.id = q.at.id => d = q.at
          /\ q.index = Cardinality(Beyond(place, q))

\* An indexed page says what lies on both sides; with the index of its cursor right
\* and the count true, its numbers are right.
LEMMA IndexedCounts ==
    ASSUME TextInOrder, DbType, place = "indexeddb", Indexed(place), asked \in Requests, NEW q, CursorQuery(q),
           IndexedPage(q).items # {}, TotalIsExact
    PROVE  /\ SidesThere(IndexedPage(q))
           /\ IndexRight(q) => /\ NumbersTrue(IndexedPage(q))
                               /\ IndexedPage(q).first = Cardinality(EarlierThan(IndexedPage(q).items))
<1> DEFINE S == Selected(place)
           B == Beyond(place, q)
           C == Cut(place, q)
           prev == {d \in S : \A e \in C : Precedes(place, d, e)}
           next == {d \in S : \A e \in C : Precedes(place, e, d)}
           first == IndexedFirst(q, C)
           p == prev # {}
           n == next # {}
           answer == IndexedPage(q)
<1>1. /\ answer = IF C = {} THEN Answer({}, 0, 0, FALSE, FALSE)
                  ELSE [Answer(C, AtLeast(prev # {}, first), AtLeast(next # {}, counter - first - Cardinality(C)),
                               prev # {}, next # {}) EXCEPT !.first = first]
      /\ answer.items = C
  <2>1. IsPage(answer, place, q)
    BY IndexedPages
  <2>2. answer = IF C = {} THEN Answer({}, 0, 0, FALSE, FALSE)
                 ELSE [Answer(C, AtLeast(prev # {}, first), AtLeast(next # {}, counter - first - Cardinality(C)),
                              prev # {}, next # {}) EXCEPT !.first = first]
    BY IndexedPages
  <2> QED BY <2>1, <2>2 DEF IsPage
<1>2. B \in SUBSET S /\ C \in SUBSET B /\ S \subseteq Position /\ IsFiniteSet(S) /\ C # {}
    BY <1>1, CutForward, CutBackward, SelectedFacts DEF Documents
<1>3. prev = EarlierThan(C) /\ next = LaterThan(C)
    BY <1>2, SidesAre
<1>4. answer = [Answer(C, AtLeast(p, first), AtLeast(n, counter - first - Cardinality(C)), p, n)
                EXCEPT !.first = first]
    BY <1>1, <1>2
<1>5. p \in BOOLEAN /\ n \in BOOLEAN
    OBVIOUS
<1>6. counter = Cardinality(S)
  <2>1. counter = Cardinality({i \in Ids : db[i] # Absent})
    BY DEF Indexed, TotalIsExact
  <2>2. \A i \in Ids : Selects(place, db[i])
    BY DEF Indexed, Selects, AllMatch
  <2> QED BY <2>1, <2>2, AllSelected
<1>7. ASSUME IndexRight(q), q.kind # "before"
      PROVE  prev = S \ B /\ next = B \ C /\ first = Cardinality(S \ B)
  <2>1. prev = S \ B /\ next = B \ C
    BY <1>2, <1>3, <1>7, EarlierForward DEF IndexRight
  <2>2. CASE q.kind = "after"
    BY <1>7, <2>1, <2>2 DEF IndexedFirst, IndexRight
  <2>3. CASE q.kind = "first"
    <3>1. S \ B = {} /\ first = 0
      BY <2>3 DEF Beyond, IndexedFirst
    <3> QED BY <2>1, <3>1, FS_EmptySet
  <2> QED BY <1>7, <2>2, <2>3 DEF CursorQuery
<1>8. ASSUME IndexRight(q), q.kind = "before"
      PROVE  prev = B \ C /\ next = S \ B /\ first = Cardinality(B \ C)
  <2>1. prev = B \ C /\ next = S \ B
    BY <1>2, <1>3, <1>8, EarlierBackward DEF IndexRight
  <2>2. first = Monus(Cardinality(B), Cardinality(C))
    BY <1>8 DEF IndexedFirst, IndexRight
  <2> HIDE DEF first, S, B, C
  <2>3. IsFiniteSet(B)
    BY <1>2, TwoParts
  <2>4. /\ Cardinality(B) = Cardinality(C) + Cardinality(B \ C)
        /\ Cardinality(C) \in Nat /\ Cardinality(B \ C) \in Nat
    BY <1>2, <2>3, TwoParts
  <2> QED BY <2>1, <2>2, <2>4 DEF Monus
<1> HIDE DEF S, B, C, prev, next, first, p, n, answer
<1>9. /\ answer.prev = AtLeast(p, first) /\ answer.next = AtLeast(n, counter - first - Cardinality(C))
      /\ answer.hasPrev = p /\ answer.hasNext = n /\ answer.first = first
    BY <1>4, <1>5 DEF Answer
<1>10. SidesThere(answer)
  <2>1. answer.items = C
    BY <1>1
  <2> QED BY <1>3, <1>9, <2>1 DEF SidesThere, p, n
<1>11. ASSUME IndexRight(q)
       PROVE  NumbersTrue(answer) /\ answer.first = Cardinality(EarlierThan(answer.items))
  <2>1. first = Cardinality(prev)
    BY <1>7, <1>8, <1>11
  <2>2. /\ Cardinality(S \ B) \in Nat /\ Cardinality(C) \in Nat
        /\ Cardinality(B \ C) \in Nat /\ Cardinality(B) \in Nat
        /\ Cardinality(B) = Cardinality(C) + Cardinality(B \ C)
        /\ Cardinality(S) = Cardinality(B) + Cardinality(S \ B)
    <3>1. /\ Cardinality(S \ B) \in Nat /\ Cardinality(B) \in Nat /\ IsFiniteSet(B)
          /\ Cardinality(S) = Cardinality(B) + Cardinality(S \ B)
      BY <1>2, TwoParts
    <3>2. /\ Cardinality(C) \in Nat /\ Cardinality(B \ C) \in Nat
          /\ Cardinality(B) = Cardinality(C) + Cardinality(B \ C)
      BY <1>2, <3>1, TwoParts
    <3> QED BY <3>1, <3>2
  <2>3. /\ Cardinality(prev) \in Nat /\ Cardinality(next) \in Nat
        /\ Cardinality(S) = Cardinality(prev) + Cardinality(C) + Cardinality(next)
    <3>1. CASE q.kind = "before"
      <4>1. Cardinality(prev) = Cardinality(B \ C) /\ Cardinality(next) = Cardinality(S \ B)
        BY <1>8, <1>11, <3>1
      <4> QED BY <2>2, <4>1
    <3>2. CASE q.kind # "before"
      <4>1. Cardinality(prev) = Cardinality(S \ B) /\ Cardinality(next) = Cardinality(B \ C)
        BY <1>7, <1>11, <3>2
      <4> QED BY <2>2, <4>1
    <3> QED BY <3>1, <3>2
  <2>4. (p <=> Cardinality(prev) > 0) /\ (n <=> Cardinality(next) > 0)
    <3>1. prev \in SUBSET S /\ next \in SUBSET S
      BY DEF prev, next
    <3> QED BY <1>2, <3>1, PartCount DEF p, n
  <2>5. counter - first - Cardinality(C) = Cardinality(next)
    BY <1>6, <2>1, <2>2, <2>3 DEF S
  <2>6. AtLeast(p, first) = Cardinality(prev)
    BY <2>1, <2>3, <2>4 DEF AtLeast
  <2>7. AtLeast(n, counter - first - Cardinality(C)) = Cardinality(next)
    BY <2>3, <2>4, <2>5 DEF AtLeast
  <2> QED BY <1>1, <1>3, <1>9, <2>1, <2>6, <2>7 DEF NumbersTrue
<1> QED BY <1>10, <1>11 DEF answer

\* The numbers of a page by its number: those of the documents on both sides.
LEMMA OffsetCounts ==
    ASSUME TextInOrder, DbType, NEW q, q.at \in Nat \ {0}, OffsetPage(place, q).items # {}
    PROVE  SidesThere(OffsetPage(place, q)) /\ NumbersTrue(OffsetPage(place, q))
<1> DEFINE S == Selected(place)
           skip == (q.at - 1) * Limit
           upto == skip + Limit
           D == FirstOf(place, S, skip)
           E == FirstOf(place, S, upto)
           answer == OffsetPage(place, q)
<1>1. skip \in Nat /\ upto \in Nat /\ skip <= upto
  <2>1. q.at - 1 \in Nat /\ Limit \in Nat
    BY PagingBounds
  <2>2. skip \in Nat
    BY <2>1
  <2> HIDE DEF skip
  <2> QED BY <2>1, <2>2
<1>2. /\ answer.items = E \ D
      /\ answer.hasPrev <=> skip > 0
      /\ answer.hasNext <=> Cardinality(S) > upto
      /\ answer.prev = skip /\ answer.next = Monus(Cardinality(S), upto)
    BY OffsetFacts
<1>3. Documents(S) /\ S \subseteq Position /\ IsFiniteSet(S)
    BY SelectedFacts DEF Documents
<1>4. /\ answer.hasPrev \in BOOLEAN /\ answer.hasNext \in BOOLEAN
  <2> DEFINE p == (q.at - 1) * Limit > 0
             n == Cardinality(Selected(place)) > (q.at - 1) * Limit + Limit
  <2>1. PICK items, a, b : OffsetPage(place, q) = Answer(items, a, b, p, n)
    BY DEF OffsetPage
  <2>2. p \in BOOLEAN /\ n \in BOOLEAN
    OBVIOUS
  <2> HIDE DEF p, n
  <2>3. OffsetPage(place, q).hasPrev = p /\ OffsetPage(place, q).hasNext = n
    BY <2>1, <2>2, AnswerFields
  <2> QED BY <2>2, <2>3
<1> HIDE DEF S, skip, upto, D, E, answer
<1>5. /\ D \in SUBSET S /\ \A d \in D, e \in S \ D : Before(place, d, e)
      /\ Cardinality(S) \in Nat
      /\ Cardinality(D) = IF skip <= Cardinality(S) THEN skip ELSE Cardinality(S)
      /\ (D = S <=> Cardinality(S) <= skip)
    BY <1>1, <1>3, FirstOfFacts DEF D
<1>6. /\ E \in SUBSET S /\ \A d \in E, e \in S \ E : Before(place, d, e)
      /\ Cardinality(E) = IF upto <= Cardinality(S) THEN upto ELSE Cardinality(S)
    BY <1>1, <1>3, FirstOfFacts DEF E
<1>7. D \subseteq E
    BY <1>1, <1>3, FirstOfGrows DEF D, E
<1>8. answer.items # {}
    BY DEF answer
<1>9. \A d \in S : ~Before(place, d, d)
    BY <1>3, BeforeOrders
<1>10. \A d, e \in S : ~(Before(place, d, e) /\ Before(place, e, d))
    BY <1>3, <1>9, BeforeOrders
<1>11. EarlierThan(E \ D) = D
  <2>1. \A d \in D : \A e \in E \ D : Before(place, d, e)
    BY <1>5, <1>6
  <2>2. \A d \in S \ D : \E e \in E \ D : ~Before(place, d, e)
    BY <1>2, <1>6, <1>8, <1>9, <1>10
  <2> QED BY <1>5, <2>1, <2>2 DEF EarlierThan, S
<1>12. LaterThan(E \ D) = S \ E
  <2>1. \A d \in S \ E : \A e \in E \ D : Before(place, e, d)
    BY <1>5, <1>6
  <2>2. \A d \in E : \E e \in E \ D : ~Before(place, e, d)
    BY <1>2, <1>5, <1>6, <1>8, <1>9, <1>10
  <2> QED BY <1>6, <2>1, <2>2 DEF LaterThan, S
<1>13. Cardinality(D) = skip
  <2>1. D # S
    BY <1>2, <1>6, <1>8
  <2> QED BY <1>1, <1>5, <2>1
<1>14. Cardinality(S \ E) = Monus(Cardinality(S), upto)
  <2>1. Cardinality(S) = Cardinality(E) + Cardinality(S \ E) /\ Cardinality(S \ E) \in Nat /\ Cardinality(E) \in Nat
    BY <1>3, <1>6, TwoParts
  <2> QED BY <1>1, <1>5, <1>6, <2>1 DEF Monus
<1>15. NumbersTrue(answer)
    BY <1>2, <1>11, <1>12, <1>13, <1>14 DEF NumbersTrue
<1>16. (answer.hasPrev <=> D # {}) /\ (answer.hasNext <=> S \ E # {})
  <2>1. D # {} <=> Cardinality(D) > 0
    BY <1>3, <1>5, PartCount
  <2>2. S \ E \in SUBSET S
    OBVIOUS
  <2>3. S \ E # {} <=> Cardinality(S \ E) > 0
    BY <1>3, <2>2, PartCount
  <2>4. Cardinality(S \ E) > 0 <=> Cardinality(S) > upto
    BY <1>1, <1>5, <1>14 DEF Monus
  <2> QED BY <1>2, <1>13, <2>1, <2>3, <2>4
<1>17. SidesThere(answer)
    BY <1>2, <1>4, <1>11, <1>12, <1>16 DEF SidesThere
<1> QED BY <1>15, <1>17 DEF answer

\* What is known of counts: the stored one is that of the rows, an answer that is as
\* fresh as the documents tells its sides, and the index of its first document is
\* right while nobody has written.
FreshCounts ==
    page.fresh /\ page.answer.items # {} /\ (place \in Counting \/ page.query.kind = "page") =>
        /\ SidesThere(page.answer)
        /\ (place = "indexeddb" /\ touched # {}) \/ NumbersTrue(page.answer)
FirstTrue ==
    place = "indexeddb" /\ touched = {} /\ page.answer.items # {} =>
        page.answer.first = Cardinality(EarlierThan(page.answer.items))
CountInv ==
    /\ TotalIsExact /\ (counter # Uncounted => place = "indexeddb")
    /\ FreshCounts /\ FirstTrue

LEMMA CountInit ==
    ASSUME PagingInit PROVE CountInv
<1>1. page.answer.items = {} /\ page.fresh = FALSE /\ counter = Uncounted
    BY DEF PagingInit, NoPage, Answer
<1> QED BY <1>1 DEF CountInv, TotalIsExact, FreshCounts, FirstTrue

\* The sides of a page stay where they are while nothing is written.
LEMMA SidesKept ==
    ASSUME UNCHANGED <<place, asked, db>>
    PROVE  /\ \A C : EarlierThan(C)' = EarlierThan(C) /\ LaterThan(C)' = LaterThan(C)
           /\ \A answer : /\ SidesThere(answer) => SidesThere(answer)'
                          /\ NumbersTrue(answer) => NumbersTrue(answer)'
<1>1. Selected(place)' = Selected(place)
    BY SelectedKept
<1>2. \A a, b : Before(place, a, b)' <=> Before(place, a, b)
    BY OrderKept
<1>3. \A C : EarlierThan(C)' = EarlierThan(C) /\ LaterThan(C)' = LaterThan(C)
    BY <1>1, <1>2 DEF EarlierThan, LaterThan
<1>4. ASSUME NEW answer
      PROVE  /\ SidesThere(answer) => SidesThere(answer)'
             /\ NumbersTrue(answer) => NumbersTrue(answer)'
    BY <1>3 DEF SidesThere, NumbersTrue
<1> QED BY <1>3, <1>4

\* A page by a cursor, counted where both sides are.
LEMMA ReadCounts ==
    ASSUME Countable, PagingTypes, ShownTypes, CountInv, NEW q, Read(q), CursorQuery(q),
           q.kind # "first" => q.at \in page.answer.items,
           q.kind = "before" => place \in Turning,
           place = "indexeddb" /\ touched = {} => IndexRight(q),
           UNCHANGED <<db, place, asked, touched, counter>>
    PROVE  CountInv'
<1>0. PICK answer : answer = Page(place, q)
    OBVIOUS
<1>1. page'.answer = answer /\ page'.query = q /\ page'.fresh = TRUE /\ q.kind # "page"
    BY <1>0 DEF Read, CursorQuery
<1>2. TotalIsExact' /\ (counter # Uncounted => place = "indexeddb")'
    BY DEF CountInv, TotalIsExact
<1>3. Readable /\ TextInOrder /\ DbType /\ asked \in Requests /\ place \in {"client", "indexeddb", "mongo", "postgres", "d1"}
    BY PlacesAssumption DEF Countable, Readable, PagingTypes
<1>4. ASSUME answer.items # {}, place \in Counting \/ place = "indexeddb"
      PROVE  /\ SidesThere(answer)
             /\ (place = "indexeddb" /\ touched # {}) \/ NumbersTrue(answer)
             /\ place = "indexeddb" /\ touched = {} =>
                    answer.first = Cardinality(EarlierThan(answer.items))
  <2>1. CASE Indexed(place)
    <3>1. place = "indexeddb" /\ answer = IndexedPage(q)
      BY <1>0, <1>1, <2>1 DEF Indexed, Page
    <3> QED BY <1>3, <1>4, <2>1, <3>1, IndexedCounts DEF CountInv
  <2>2. CASE place \in {"client", "indexeddb"} /\ ~Indexed(place)
    <3>1. answer = ClientPage(q)
      BY <1>0, <1>1, <2>2 DEF Page
    <3> QED BY <1>3, <1>4, <2>2, <3>1, ClientCounts
  <2>3. CASE place = "postgres"
    <3>1. answer = PostgresPage(q)
      BY <1>0, <1>1, <2>3 DEF Page, Indexed
    <3>2. Comparable(place, q)
      BY <1>3, WalkCompares
    <3> QED BY <1>3, <1>4, <2>3, <3>1, <3>2, PostgresCounts
  <2>4. place \in {"client", "indexeddb", "postgres"}
    BY <1>4 DEF Countable
  <2> QED BY <2>1, <2>2, <2>3, <2>4
<1>5. FreshCounts'
  <2>1. SUFFICES ASSUME answer.items # {}, place \in Counting
                 PROVE  SidesThere(answer)' /\ ((place = "indexeddb" /\ touched # {}) \/ NumbersTrue(answer)')
    BY <1>1 DEF FreshCounts, SidesThere, NumbersTrue, EarlierThan, LaterThan
  <2> QED BY <1>4, <2>1, SidesKept
<1>6. FirstTrue'
  <2>1. EarlierThan(answer.items)' = EarlierThan(answer.items)
    BY SidesKept
  <2>2. place = "indexeddb" /\ touched = {} /\ answer.items # {} =>
            answer.first = Cardinality(EarlierThan(answer.items))
    BY <1>4
  <2> QED BY <1>1, <2>1, <2>2 DEF FirstTrue, EarlierThan
<1> QED BY <1>2, <1>5, <1>6 DEF CountInv

\* A page by its number, counted.
LEMMA ReadCountsByNumber ==
    ASSUME Countable, PagingTypes, CountInv, mode = "page", NEW q, Read(q), q.kind = "page",
           q.at \in Nat \ {0}, UNCHANGED <<db, place, asked, touched, counter>>
    PROVE  CountInv'
<1>0. PICK answer : answer = Page(place, q)
    OBVIOUS
<1>1. page'.answer = answer /\ page'.query = q /\ page'.fresh = TRUE /\ answer = OffsetPage(place, q)
    BY <1>0 DEF Read, Page
<1>2. place # "indexeddb" /\ TextInOrder /\ DbType
    BY DEF Countable, Readable, PagingTypes
<1>3. answer.items # {} => SidesThere(answer) /\ NumbersTrue(answer)
    BY <1>1, <1>2, OffsetCounts
<1>4. answer.items # {} => SidesThere(answer)' /\ NumbersTrue(answer)'
    BY <1>3, SidesKept
<1>5. FreshCounts'
    BY <1>1, <1>4 DEF FreshCounts, SidesThere, NumbersTrue, EarlierThan, LaterThan
<1>6. FirstTrue'
    BY <1>2 DEF FirstTrue
<1> QED BY <1>5, <1>6 DEF CountInv, TotalIsExact

LEMMA CountFirst ==
    ASSUME Countable, PagingInv, CountInv, FirstPage PROVE CountInv'
<1>0. PagingTypes /\ ShownTypes /\ UNCHANGED <<db, place, asked, mode, touched, counter>>
    BY DEF PagingInv, FirstPage
<1>1. CASE mode = "cursor"
  <2> DEFINE q == [kind |-> "first", at |-> 0, index |-> 0]
  <2>1. Read(q) /\ CursorQuery(q) /\ q.kind = "first"
    BY <1>1, FirstQuery DEF FirstPage
  <2> HIDE DEF q
  <2>2. IndexRight(q)
    BY <2>1 DEF IndexRight
  <2> QED BY <1>0, <2>1, <2>2, ReadCounts
<1>2. CASE mode = "page"
  <2> DEFINE q == [kind |-> "page", at |-> 1, index |-> 0]
  <2>1. Read(q) /\ q.kind = "page" /\ q.at \in Nat \ {0}
    BY <1>2 DEF FirstPage
  <2> HIDE DEF q
  <2> QED BY <1>0, <1>2, <2>1, ReadCountsByNumber
<1> QED BY <1>0, <1>1, <1>2 DEF PagingTypes

\* While nobody has written, every selected document is one of the walk's.
LEMMA AllStable ==
    ASSUME PagingTypes, touched = {}
    PROVE  \A d \in Selected(place) : d.id \in Stable /\ At(d.id) = d
BY SelectedFacts DEF PagingTypes, Stable

\* The cursor of a page on the way to the end carries the place of its document.
LEMMA IndexOfLast ==
    ASSUME Readable, PagingInv, CountInv, walk = "forward", mode = "cursor",
           place = "indexeddb", touched = {}, page.answer.items # {},
           NEW q, q.kind = "after", q.at = Last(place, page.answer.items),
           q.index = page.answer.first + Cardinality(page.answer.items) - 1
    PROVE  IndexRight(q)
<1> DEFINE items == page.answer.items
           S == Selected(place)
           X == S \ Beyond(place, q)
<1>0. PagingTypes /\ Documents(items) /\ items \subseteq S /\ S \subseteq Position /\ Documents(S)
    BY SelectedFacts DEF PagingInv, PagingTypes, ShownTypes, Documents
<1>1. q.at \in items /\ \A e \in items \ {q.at} : Before(place, e, q.at)
    BY <1>0, CursorsAre DEF Readable
<1>2. \A d \in S : d.id = q.at.id => d = q.at
    BY <1>0, <1>1 DEF Documents
<1>3. Beyond(place, q) = {d \in S : Before(place, q.at, d)}
    BY DEF Beyond
<1>4. \A d \in S : d \in items \/ (\A e \in items : Before(place, d, e)) \/ Before(place, q.at, d)
  <2>1. TAKE d \in S
  <2>2. d.id \in Stable /\ At(d.id) = d
    BY <1>0, AllStable
  <2>3. ForwardOf(d.id)
    BY <2>2 DEF PagingInv, ForwardWalk
  <2> QED BY <1>1, <2>2, <2>3 DEF ForwardOf
<1>5. \A d, e \in S : /\ ~Before(place, d, d)
                      /\ ~(Before(place, d, e) /\ Before(place, e, d))
    BY <1>0, BeforeOrders
<1>6. items \subseteq X
    BY <1>0, <1>1, <1>3, <1>5
<1>7. EarlierThan(items) = X \ items
    BY <1>0, <1>1, <1>3, <1>4, <1>5 DEF EarlierThan
<1>8. page.answer.first = Cardinality(EarlierThan(items))
    BY DEF CountInv, FirstTrue
<1>9. IsFiniteSet(X)
    BY <1>0, FS_Subset DEF Documents
<1> HIDE DEF items, X
<1>10. /\ Cardinality(X) \in Nat /\ Cardinality(items) \in Nat /\ Cardinality(X \ items) \in Nat
       /\ Cardinality(X) = Cardinality(items) + Cardinality(X \ items)
    BY <1>6, <1>9, TwoParts
<1>11. q.index = Cardinality(X \ items) + Cardinality(items) - 1
    BY <1>7, <1>8 DEF items
<1>12. q.index + 1 = Cardinality(X)
    BY <1>10, <1>11
<1> QED BY <1>2, <1>12 DEF IndexRight, X

LEMMA CountNext ==
    ASSUME Countable, PagingInv, CountInv, NextPage PROVE CountInv'
<1>0. /\ PagingTypes /\ ShownTypes /\ walk = "forward" /\ page.answer.hasNext
      /\ UNCHANGED <<db, place, asked, mode, touched, counter>> /\ Readable
    BY DEF PagingInv, NextPage, Countable
<1>1. CASE mode = "cursor"
  <2> DEFINE items == page.answer.items
             q == [kind |-> "after", at |-> Last(place, items),
                   index |-> page.answer.first + Cardinality(items) - 1]
  <2>1. Read(q)
    BY <1>1 DEF NextPage
  <2>2. q.kind = "after" /\ q.at = Last(place, items) /\ q.index = page.answer.first + Cardinality(items) - 1
    OBVIOUS
  <2> HIDE DEF q
  <2>3. items # {} /\ Documents(items) /\ items \subseteq Position
    BY <1>0, <1>1 DEF PagingInv, ForwardWalk, ShownTypes, Documents
  <2>4. q.at \in items
    BY <1>0, <2>2, <2>3, CursorsAre DEF Readable
  <2>5. CursorQuery(q)
    BY <2>2, <2>3, <2>4 DEF CursorQuery
  <2>6. place = "indexeddb" /\ touched = {} => IndexRight(q)
    BY <1>0, <1>1, <2>2, <2>3, IndexOfLast
  <2> QED BY <1>0, <2>1, <2>2, <2>4, <2>5, <2>6, ReadCounts
<1>2. CASE mode = "page"
  <2> DEFINE q == [kind |-> "page", at |-> page.query.at + 1, index |-> 0]
  <2>1. page.query.at \in Nat
    BY <1>0, <1>2 DEF PagingInv, PageWalk
  <2>2. Read(q) /\ q.kind = "page" /\ q.at \in Nat \ {0}
    BY <1>2, <2>1 DEF NextPage
  <2> HIDE DEF q
  <2> QED BY <1>0, <1>2, <2>2, ReadCountsByNumber
<1> QED BY <1>0, <1>1, <1>2 DEF PagingTypes

LEMMA CountPrev ==
    ASSUME Countable, PagingInv, CountInv, PrevPage PROVE CountInv'
<1>0. /\ PagingTypes /\ ShownTypes /\ walk = "back" /\ page.answer.items # {}
      /\ UNCHANGED <<db, place, asked, mode, touched, counter>> /\ Readable
    BY DEF PagingInv, PrevPage, Countable
<1> DEFINE items == page.answer.items
           q == [kind |-> "before", at |-> Head(place, items), index |-> page.answer.first]
<1>1. Read(q) /\ place \in Turning
    BY <1>0 DEF PrevPage, PagingInv, BackWalk
<1>2. q.kind = "before" /\ q.at = Head(place, items) /\ q.index = page.answer.first
    OBVIOUS
<1> HIDE DEF q
<1>3. Documents(items) /\ items \subseteq Position
    BY <1>0 DEF ShownTypes, Documents
<1>4. q.at \in items
    BY <1>0, <1>2, <1>3, CursorsAre DEF Readable
<1>5. CursorQuery(q)
    BY <1>2, <1>3, <1>4 DEF CursorQuery
<1>6. ASSUME place = "indexeddb", touched = {} PROVE IndexRight(q)
  <2>1. items \in SUBSET Selected(place) /\ Documents(Selected(place))
    BY <1>0, <1>6, SelectedFacts DEF ShownTypes, PagingTypes
  <2>2. \A d \in Selected(place) : d.id = q.at.id => d = q.at
    BY <1>4, <2>1 DEF Documents
  <2>3. Beyond(place, q) = EarlierThan(items)
    <3>1. Beyond(place, q) = {d \in Selected(place) : Before(place, d, Head(place, items))}
      BY <1>2 DEF Beyond
    <3>2. {d \in Selected(place) : Before(place, d, Head(place, items))}
          = {d \in Selected(place) : \A e \in items : Precedes(place, d, e)}
      BY <1>0, <2>1, BeyondEnds DEF Readable, PagingTypes
    <3> QED BY <1>0, <1>3, <3>1, <3>2, SidesAre DEF Readable, PagingTypes
  <2>4. q.index = Cardinality(EarlierThan(items))
    BY <1>0, <1>2, <1>6 DEF CountInv, FirstTrue
  <2> QED BY <1>2, <2>2, <2>3, <2>4 DEF IndexRight
<1> QED BY <1>0, <1>1, <1>2, <1>4, <1>5, <1>6, ReadCounts

\* Turning, and starting the index, leave the page and the documents as they are.
LEMMA CountUnseen ==
    ASSUME CountInv, UNCHANGED <<db, place, asked, page, touched>>, TotalIsExact',
           (counter # Uncounted => place = "indexeddb")'
    PROVE  CountInv'
<1>1. FreshCounts'
    BY SidesKept DEF CountInv, FreshCounts, SidesThere, NumbersTrue
<1>2. FirstTrue'
    BY SidesKept DEF CountInv, FirstTrue
<1> QED BY <1>1, <1>2 DEF CountInv

LEMMA CountTurn ==
    ASSUME CountInv, Turn PROVE CountInv'
BY CountUnseen DEF Turn, CountInv, TotalIsExact

LEMMA CountIndex ==
    ASSUME CountInv, StartIndex PROVE CountInv'
BY CountUnseen DEF StartIndex, TotalIsExact

\* What was read before a write is not said to be fresh after it.
LEMMA CountWritten ==
    ASSUME PagingTypes, page' = [page EXCEPT !.fresh = FALSE], touched' # {},
           TotalIsExact', (counter # Uncounted => place = "indexeddb")'
    PROVE  CountInv'
<1>1. page'.fresh = FALSE
    BY DEF PagingTypes
<1>2. FreshCounts' /\ FirstTrue'
    BY <1>1 DEF FreshCounts, FirstTrue
<1> QED BY <1>2 DEF CountInv

\* add() of a new key and delete() of one that is there keep the count right.
LEMMA CountWrite ==
    ASSUME PagingTypes, CountInv, NEW i \in Ids, NEW v \in Values \cup {Absent}, Write(i, v)
    PROVE  CountInv'
<1> DEFINE P == {j \in Ids : db[j] # Absent}
           Q == {j \in Ids : db'[j] # Absent}
<1>1. /\ db' = [db EXCEPT ![i] = v] /\ touched' = touched \cup {i}
      /\ page' = [page EXCEPT !.fresh = FALSE] /\ place' = place
      /\ counter' = Counted(db[i] # Absent, v # Absent)
    BY DEF Write
<1>2. \A j \in Ids : db'[j] = IF j = i THEN v ELSE db[j]
    BY <1>1 DEF PagingTypes, DbType
<1>3. P \in SUBSET Ids /\ IsFiniteSet(P) /\ Cardinality(P) \in Nat
    BY IdsAssumption, FS_Subset, FS_CardinalityType
<1>4. counter # Uncounted => counter = Cardinality(P) /\ place = "indexeddb"
    BY DEF CountInv, TotalIsExact
<1>5. ASSUME counter # Uncounted PROVE counter' = Cardinality(Q)
  <2>1. CASE (db[i] # Absent) = (v # Absent)
    <3>1. Q = P
      BY <1>2, <2>1
    <3>2. counter' = counter
      BY <1>1, <2>1 DEF Counted
    <3> QED BY <1>4, <1>5, <3>1, <3>2
  <2>2. CASE db[i] = Absent /\ v # Absent
    <3>1. Q = P \cup {i} /\ i \notin P
      BY <1>2, <2>2
    <3>2. Cardinality(Q) = Cardinality(P) + 1
      <4> HIDE DEF P, Q
      <4> QED BY <1>3, <3>1, FS_AddElement
    <3>3. counter' = counter + 1
      BY <1>1, <1>5, <2>2 DEF Counted
    <3> QED BY <1>4, <1>5, <3>2, <3>3
  <2>3. CASE db[i] # Absent /\ v = Absent
    <3>1. Q = P \ {i} /\ i \in P
      BY <1>2, <2>3
    <3>2. Cardinality(Q) = Cardinality(P) - 1
      <4> HIDE DEF P, Q
      <4> QED BY <1>3, <3>1, FS_RemoveElement
    <3>3. P # {}
      BY <3>1
    <3>4. Cardinality(P) # 0
      BY <1>3, <3>3, FS_EmptySet
    <3>5. counter' = Monus(counter, 1)
      BY <1>1, <1>5, <2>3 DEF Counted
    <3> HIDE DEF P, Q
    <3> QED BY <1>3, <1>4, <1>5, <3>2, <3>4, <3>5 DEF Monus
  <2> QED BY <2>1, <2>2, <2>3
<1>6. counter = Uncounted => counter' = Uncounted
    BY <1>1 DEF Counted
<1>7. TotalIsExact'
    BY <1>5, <1>6 DEF TotalIsExact
<1> QED BY <1>1, <1>4, <1>6, <1>7, CountWritten

\* A row that moves to an id of its own leaves the count as it is.
LEMMA CountRename ==
    ASSUME Overwriting = FALSE, PagingTypes, CountInv, NEW i \in Ids, NEW j \in Ids, Rename(i, j)
    PROVE  CountInv'
<1> DEFINE P == {k \in Ids : db[k] # Absent}
           Q == {k \in Ids : db'[k] # Absent}
<1>1. /\ db' = [db EXCEPT ![j] = db[i], ![i] = Absent] /\ touched' = touched \cup {i, j}
      /\ page' = [page EXCEPT !.fresh = FALSE] /\ counter' = counter /\ place' = place
      /\ db[i] # Absent /\ db[j] = Absent /\ i # j
    BY DEF Rename
<1>2. \A k \in Ids : db'[k] = IF k = i THEN Absent ELSE IF k = j THEN db[i] ELSE db[k]
    BY <1>1 DEF PagingTypes, DbType
<1>3. P \in SUBSET Ids /\ IsFiniteSet(P) /\ Cardinality(P) \in Nat
    BY IdsAssumption, FS_Subset, FS_CardinalityType
<1>4. i \in P /\ j \notin P \ {i}
    BY <1>1
<1>10. \A k : k \in Q <=> k \in (P \ {i}) \cup {j}
  <2>1. TAKE k
  <2>2. CASE k = i
    BY <1>1, <1>2, <2>2
  <2>3. CASE k = j
    BY <1>1, <1>2, <2>3
  <2>4. CASE k # i /\ k # j
    BY <1>2, <2>4
  <2> QED BY <2>2, <2>3, <2>4
<1> HIDE DEF P, Q
<1>11. Q = (P \ {i}) \cup {j}
    BY <1>10
<1>5. IsFiniteSet(P \ {i}) /\ Cardinality(P \ {i}) = Cardinality(P) - 1
    BY <1>3, <1>4, FS_RemoveElement, FS_Subset
<1>6. Cardinality(Q) = Cardinality(P \ {i}) + 1
    BY <1>4, <1>5, <1>11, FS_AddElement
<1>7. Cardinality(Q) = Cardinality(P)
    BY <1>3, <1>5, <1>6
<1>8. counter # Uncounted => counter = Cardinality(P)
    BY DEF CountInv, TotalIsExact, P
<1>9. TotalIsExact'
    BY <1>1, <1>7, <1>8 DEF TotalIsExact, Q
<1> QED BY <1>1, <1>9, CountWritten DEF CountInv

LEMMA CountStep ==
    ASSUME Countable, PagingInv, CountInv, [PagingNext]_pagingVars PROVE CountInv'
<1>1. CASE UNCHANGED pagingVars
    BY <1>1, CountUnseen DEF pagingVars, CountInv, TotalIsExact
<1>2. CASE FirstPage
    BY <1>2, CountFirst
<1>3. CASE NextPage
    BY <1>3, CountNext
<1>4. CASE Turn
    BY <1>4, CountTurn
<1>5. CASE PrevPage
    BY <1>5, CountPrev
<1>6. ASSUME NEW i \in Ids, NEW v \in Values \cup {Absent}, Write(i, v) PROVE CountInv'
    BY <1>6, CountWrite DEF PagingInv
<1>7. CASE StartIndex
    BY <1>7, CountIndex
<1>8. ASSUME NEW i \in Ids, NEW j \in Ids, Rename(i, j) PROVE CountInv'
    BY <1>8, CountRename DEF PagingInv, Countable
<1> QED BY <1>1, <1>2, <1>3, <1>4, <1>5, <1>6, <1>7, <1>8 DEF PagingNext

\* The account of the walk and that of the counts, together.
THEOREM CountInvariance ==
    ASSUME Countable PROVE PagingSpec => [](PagingInv /\ CountInv)
<1>0. Readable
    BY DEF Countable
<1>1. PagingInit => PagingInv /\ CountInv
    BY <1>0, WalkInit, CountInit
<1>2. PagingInv /\ CountInv /\ [PagingNext]_pagingVars => (PagingInv /\ CountInv)'
    BY <1>0, WalkStep, CountStep
<1> QED BY <1>1, <1>2, PTL DEF PagingSpec

\* What an answer says of both sides of its page is so for the documents it was read
\* from, and its numbers are right, those of an index while nobody has written; the
\* stored count is that of the rows through every add, delete and move.
THEOREM CountsTold ==
    ASSUME Countable PROVE PagingSpec => []CountsHold
<1>1. PagingInv /\ CountInv => CountsHold
  <2>1. SUFFICES ASSUME PagingInv, CountInv PROVE CountsAreTrue
    BY DEF CountsHold, CountInv
  <2> DEFINE items == page.answer.items
             before == {d \in Selected(place) : \A e \in items : Precedes(place, d, e)}
             after == {d \in Selected(place) : \A e \in items : Precedes(place, e, d)}
  <2>2. items \in SUBSET Position /\ TextInOrder /\ DbType
    BY <2>1 DEF PagingInv, PagingTypes, ShownTypes, Documents, Countable, Readable
  <2>3. before = EarlierThan(items) /\ after = LaterThan(items)
    BY <2>2, SidesAre
  <2>4. page.fresh /\ items # {} /\ (place \in Counting \/ page.query.kind = "page") =>
            /\ page.answer.hasPrev = (before # {}) /\ page.answer.hasNext = (after # {})
            /\ \/ place = "indexeddb" /\ touched # {}
               \/ page.answer.prev = Cardinality(before) /\ page.answer.next = Cardinality(after)
    BY <2>1, <2>3 DEF CountInv, FreshCounts, SidesThere, NumbersTrue
  <2> HIDE DEF before, after
  <2> QED BY <2>4 DEF CountsAreTrue, before, after
<1>2. PagingSpec => [](PagingInv /\ CountInv)
    BY CountInvariance
<1> QED BY <1>1, <1>2, PTL

-----------------------------------------------------------------------------
(* The same page everywhere *)

\* What makes the places agree: besides what the walk rests on, no request sorts by
\* the field upwards without a word on the id, where the client's ids ascend and the
\* server's descend, and a `:not` holds a single condition, since Mongo denies any of
\* them and Postgres all of them together.
Alike ==
    /\ Readable
    /\ \A r \in Requests : /\ ~(r.by = "v" /\ r.dir = "asc" /\ r.idDir = "unset")
                           /\ r.mode = "none" => \E c : r.conditions = {c}

\* A field that is there is compared in the same way everywhere.
LEMMA MatchesAlike ==
    ASSUME NEW where \in {"client", "indexeddb", "mongo", "postgres", "d1"}, NEW v, v # Null, NEW c
    PROVE  Matches(where, v, c) <=> ClientMatches(v, c)
BY DEF Matches, MongoMatches, PostgresMatches, D1Matches

\* So the filter selects the same documents, a group only where it is read.
LEMMA SelectsAlike ==
    ASSUME Alike, asked \in Requests, NEW v, v # Null,
           NEW here \in {"client", "indexeddb", "mongo", "postgres", "d1"},
           NEW there \in {"client", "indexeddb", "mongo", "postgres", "d1"},
           asked.mode = "all" \/ {here, there} \subseteq {"mongo", "postgres"}
    PROVE  Selects(here, v) <=> Selects(there, v)
<1>1. \A where \in {"client", "indexeddb", "mongo", "postgres", "d1"} :
          /\ AllMatch(where, v) <=> \A c \in asked.conditions : ClientMatches(v, c)
          /\ SomeMatch(where, v) <=> \E c \in asked.conditions : ClientMatches(v, c)
    BY MatchesAlike DEF AllMatch, SomeMatch
<1>2. asked.mode \in {"all", "any", "none"}
    BY RequestsAssumption
<1>3. CASE asked.mode = "all"
    BY <1>1, <1>3 DEF Selects, MongoSelects, PostgresSelects
<1>4. CASE asked.mode = "any"
    BY <1>1, <1>4 DEF Selects, MongoSelects, PostgresSelects
<1>5. CASE asked.mode = "none"
  <2>1. PICK c : asked.conditions = {c}
    BY <1>5 DEF Alike
  <2>2. SomeMatch("mongo", v) <=> AllMatch("postgres", v)
    BY <1>1, <2>1
  <2> QED BY <1>5, <2>2 DEF Selects, MongoSelects, PostgresSelects
<1> QED BY <1>2, <1>3, <1>4, <1>5

\* The documents that have the field are ordered in the same way, too.
LEMMA BeforeAlike ==
    ASSUME Alike, asked \in Requests, NEW a, NEW b, a.v # Null, b.v # Null,
           NEW here \in {"client", "indexeddb", "mongo", "postgres", "d1"},
           NEW there \in {"client", "indexeddb", "mongo", "postgres", "d1"}
    PROVE  Before(here, a, b) <=> Before(there, a, b)
<1>1. /\ asked.by \in {"id", "v"} /\ asked.dir \in {"asc", "desc"}
      /\ asked.idDir \in {"unset", "asc", "desc"}
      /\ ~(asked.by = "v" /\ asked.dir = "asc" /\ asked.idDir = "unset")
    BY RequestsAssumption DEF Alike
<1>2. \A where \in {"client", "indexeddb", "mongo", "postgres", "d1"} :
          IdAscends(where) <=> asked.idDir = "asc"
    BY <1>1 DEF IdAscends, ClientIdAscends, ServerIdAscends, SqlIdAscends
<1>3. IdFirst(here, a, b) <=> IdFirst(there, a, b)
    BY <1>2 DEF IdFirst
<1>4. ValueFirst(here, a, b) <=> ValueFirst(there, a, b)
    BY DEF ValueFirst, SmallerValue
<1> QED BY <1>3, <1>4 DEF Before

LEMMA CutAlike ==
    ASSUME Alike, DbType, asked \in Requests, NEW q, CursorQuery(q), \A i \in Ids : db[i] # Null,
           q.kind # "first" => q.at.v # Null,
           NEW here \in {"client", "indexeddb", "mongo", "postgres", "d1"},
           NEW there \in {"client", "indexeddb", "mongo", "postgres", "d1"},
           asked.mode = "all" \/ {here, there} \subseteq {"mongo", "postgres"}
    PROVE  Cut(here, q) = Cut(there, q)
<1>1. \A d \in Selected(here) : d.v # Null
    BY DEF Selected, Position
<1>2. Selected(here) = Selected(there)
  <2>1. ASSUME NEW d \in Position, db[d.id] = d.v
        PROVE  Selects(here, d.v) <=> Selects(there, d.v)
    <3>1. d.v # Null
      BY <2>1, PositionType
    <3> QED BY <3>1, SelectsAlike
  <2> QED BY <2>1 DEF Selected
<1>3. \A a, b \in Selected(here) \cup (IF q.kind = "first" THEN {} ELSE {q.at}) :
          Before(here, a, b) <=> Before(there, a, b)
    BY <1>1, BeforeAlike
<1> QED BY <1>2, <1>3, SameCut DEF Alike, Readable

\* An answer as fresh as the documents is the page that they make.
FreshPage ==
    page.fresh /\ page.query.kind \in {"first", "after"} =>
        CursorQuery(page.query) /\ page.answer.items = Cut(place, page.query)

\* The page that a query cuts stays the same while nothing is written, also when an
\* index takes over.
LEMMA CutKept ==
    ASSUME TextInOrder, DbType, NEW q, CursorQuery(q), UNCHANGED <<place, asked, db>>
    PROVE  Cut(place, q)' = Cut(place, q)
<1> DEFINE S == Selected(place)
<1>0. PICK B : B = Beyond(place, q)
    OBVIOUS
<1>1. Selected(place)' = S /\ S \subseteq Position
    BY SelectedKept, SelectedFacts DEF Documents
<1>2. \A a, b \in Position : Precedes(place, a, b)' <=> Precedes(place, a, b)
  <2>1. TAKE a, b \in Position
  <2>2. Precedes(place, a, b) <=> Before(place, a, b)
    BY PrecedesIs
  <2>3. Precedes(place, a, b)' <=> Before(place, a, b)'
    <3>1. a.id \in Ids /\ b.id \in Ids
      BY PositionType
    <3>2. IdBelow(place, a, b)' <=> a.id < b.id
      BY <3>1 DEF IdBelow, TextInOrder
    <3>3. IdBelow(place, b, a)' <=> b.id < a.id
      BY <3>1 DEF IdBelow, TextInOrder
    <3> QED BY <3>2, <3>3 DEF Precedes, Before, ValueFirst, IdFirst
  <2>4. Before(place, a, b)' <=> Before(place, a, b)
    BY OrderKept
  <2> QED BY <2>2, <2>3, <2>4
<1>3. \A a, b : Before(place, a, b)' <=> Before(place, a, b)
    BY OrderKept
<1>4. Beyond(place, q)' = B /\ B \subseteq Position
    BY <1>0, <1>1, <1>3 DEF Beyond, CursorQuery
<1>5. /\ FirstOf(place, B, Limit)' = FirstOf(place, B, Limit)
      /\ LastOf(place, B, Limit)' = LastOf(place, B, Limit)
  <2>1. \A d \in B : /\ {e \in B : Precedes(place, e, d)'} = {e \in B : Precedes(place, e, d)}
                     /\ {e \in B : Precedes(place, d, e)'} = {e \in B : Precedes(place, d, e)}
    BY <1>2, <1>4
  <2> QED BY <2>1 DEF FirstOf, LastOf
<1> QED BY <1>0, <1>4, <1>5 DEF Cut

LEMMA FreshRead ==
    ASSUME Readable, PagingTypes, ShownTypes, NEW q, Read(q),
           q.kind = "page" \/ (/\ CursorQuery(q)
                               /\ q.kind # "first" => q.at \in page.answer.items
                               /\ q.kind = "before" => place \in Turning),
           UNCHANGED <<place, asked, db>>
    PROVE  FreshPage'
<1>0. PICK answer : answer = Page(place, q)
    OBVIOUS
<1>1. page'.answer = answer /\ page'.query = q
    BY <1>0 DEF Read
<1>2. CASE q.kind = "page"
    BY <1>1, <1>2 DEF FreshPage
<1>3. CASE q.kind # "page"
  <2>1. CursorQuery(q) /\ TextInOrder /\ DbType /\ asked \in Requests
    BY <1>3 DEF Readable, PagingTypes
  <2>2. answer.items = Cut(place, q)
    BY <1>0, <1>3, <2>1, WalkCompares, Pages DEF IsPage
  <2>3. Cut(place, q)' = Cut(place, q)
    BY <2>1, CutKept
  <2>4. page'.answer.items = Cut(place, q)'
    BY <1>1, <2>2, <2>3
  <2> QED BY <1>1, <2>1, <2>4 DEF FreshPage, CursorQuery
<1> QED BY <1>2, <1>3

\* Turning, and starting the index, leave the answer as true as it was.
LEMMA FreshKept ==
    ASSUME TextInOrder, DbType, FreshPage, UNCHANGED <<place, asked, db, page>>
    PROVE  FreshPage'
<1>1. PICK q : q = page.query
    OBVIOUS
<1>2. CASE page.fresh /\ q.kind \in {"first", "after"}
  <2>1. CursorQuery(q) /\ page.answer.items = Cut(place, q)
    BY <1>1, <1>2 DEF FreshPage
  <2>2. Cut(place, q)' = Cut(place, q)
    BY <2>1, CutKept
  <2>3. page'.query = q /\ page'.answer.items = Cut(place, q)'
    BY <1>1, <2>1, <2>2
  <2> QED BY <2>1, <2>3 DEF FreshPage, CursorQuery
<1>3. CASE ~(page.fresh /\ q.kind \in {"first", "after"})
    BY <1>1, <1>3 DEF FreshPage
<1> QED BY <1>2, <1>3

LEMMA FreshStep ==
    ASSUME Readable, PagingInv, FreshPage, [PagingNext]_pagingVars PROVE FreshPage'
<1>0. PagingTypes /\ ShownTypes /\ TextInOrder /\ DbType
    BY DEF PagingInv, PagingTypes, Readable
<1>1. CASE UNCHANGED pagingVars
    BY <1>0, <1>1, FreshKept DEF pagingVars
<1>2. CASE FirstPage
  <2>1. UNCHANGED <<place, asked, db>> /\ mode \in {"cursor", "page"}
    BY <1>0, <1>2 DEF FirstPage, PagingTypes
  <2>2. CASE mode = "cursor"
    <3> DEFINE q == [kind |-> "first", at |-> 0, index |-> 0]
    <3>1. Read(q) /\ CursorQuery(q) /\ q.kind = "first"
      BY <1>2, <2>2, FirstQuery DEF FirstPage
    <3> HIDE DEF q
    <3> QED BY <1>0, <2>1, <3>1, FreshRead
  <2>3. CASE mode = "page"
    <3> DEFINE q == [kind |-> "page", at |-> 1, index |-> 0]
    <3>1. Read(q) /\ q.kind = "page"
      BY <1>2, <2>3 DEF FirstPage
    <3> HIDE DEF q
    <3> QED BY <1>0, <2>1, <3>1, FreshRead
  <2> QED BY <2>1, <2>2, <2>3
<1>3. CASE NextPage
  <2>1. UNCHANGED <<place, asked, db>> /\ mode \in {"cursor", "page"}
    BY <1>0, <1>3 DEF NextPage, PagingTypes
  <2>2. CASE mode = "cursor"
    <3> DEFINE items == page.answer.items
               q == [kind |-> "after", at |-> Last(place, items),
                     index |-> page.answer.first + Cardinality(items) - 1]
    <3>1. Read(q)
      BY <1>3, <2>2 DEF NextPage
    <3>2. q.kind = "after" /\ q.at = Last(place, items)
      OBVIOUS
    <3> HIDE DEF q
    <3>3. items # {} /\ Documents(items) /\ items \subseteq Position
      BY <1>0, <1>3, <2>2 DEF PagingInv, ForwardWalk, ShownTypes, Documents, NextPage
    <3>4. q.at \in items
      BY <1>0, <3>2, <3>3, CursorsAre
    <3>5. CursorQuery(q)
      BY <3>2, <3>3, <3>4 DEF CursorQuery
    <3> QED BY <1>0, <2>1, <3>1, <3>2, <3>4, <3>5, FreshRead
  <2>3. CASE mode = "page"
    <3> DEFINE q == [kind |-> "page", at |-> page.query.at + 1, index |-> 0]
    <3>1. Read(q) /\ q.kind = "page"
      BY <1>3, <2>3 DEF NextPage
    <3> HIDE DEF q
    <3> QED BY <1>0, <2>1, <3>1, FreshRead
  <2> QED BY <2>1, <2>2, <2>3
<1>4. CASE Turn
    BY <1>0, <1>4, FreshKept DEF Turn
<1>5. CASE PrevPage
  <2> DEFINE q == [kind |-> "before", at |-> Head(place, page.answer.items), index |-> page.answer.first]
  <2>1. page'.query = q
    BY <1>5 DEF PrevPage, Read
  <2> QED BY <2>1 DEF FreshPage
<1>6. ASSUME NEW i \in Ids, NEW v \in Values \cup {Absent}, Write(i, v) PROVE FreshPage'
    BY <1>0, <1>6 DEF Write, FreshPage, PagingTypes
<1>7. CASE StartIndex
    BY <1>0, <1>7, FreshKept DEF StartIndex
<1>8. ASSUME NEW i \in Ids, NEW j \in Ids, Rename(i, j) PROVE FreshPage'
    BY <1>0, <1>8 DEF Rename, FreshPage, PagingTypes
<1> QED BY <1>1, <1>2, <1>3, <1>4, <1>5, <1>6, <1>7, <1>8 DEF PagingNext

\* The first page, and the page after a cursor, hold the same documents wherever they
\* are read, once every document has the field: a window of the newest that the client
\* cuts from its own documents is the one that the server's cursor skips.
THEOREM SamePages ==
    ASSUME Alike PROVE PagingSpec => []SamePageEverywhere
<1>0. Readable
    BY DEF Alike
<1>1. PagingInit => PagingInv /\ FreshPage
  <2>1. PagingInit => page.fresh = FALSE
    BY DEF PagingInit, NoPage
  <2> QED BY <1>0, <2>1, WalkInit DEF FreshPage
<1>2. PagingInv /\ FreshPage /\ [PagingNext]_pagingVars => (PagingInv /\ FreshPage)'
    BY <1>0, WalkStep, FreshStep
<1>3. PagingInv /\ FreshPage => SamePageEverywhere
  <2> DEFINE q == page.query
  <2>1. SUFFICES ASSUME PagingInv, FreshPage, page.fresh, q.kind \in {"first", "after"},
                        \A i \in Ids : db[i] # Null, q.kind = "after" => q.at.v # Null,
                        NEW where \in Places,
                        asked.mode = "all" \/ {where, place} \subseteq {"mongo", "postgres"}
                 PROVE  Page(where, q).items = page.answer.items
    BY DEF SamePageEverywhere
  <2>2. CursorQuery(q) /\ page.answer.items = Cut(place, q)
    BY <2>1 DEF FreshPage
  <2> HIDE DEF q
  <2>3. /\ TextInOrder /\ DbType /\ asked \in Requests
        /\ place \in {"client", "indexeddb", "mongo", "postgres", "d1"}
        /\ where \in {"client", "indexeddb", "mongo", "postgres", "d1"}
    BY <1>0, <2>1, PlacesAssumption DEF PagingInv, PagingTypes, Readable
  <2>4. Comparable(where, q)
    BY <2>1, <2>3 DEF Comparable
  <2>5. Page(where, q).items = Cut(where, q)
    BY <2>2, <2>3, <2>4, Pages DEF IsPage
  <2>6. Cut(where, q) = Cut(place, q)
    BY <2>1, <2>2, <2>3, CutAlike
  <2> QED BY <2>2, <2>5, <2>6
<1> QED BY <1>1, <1>2, <1>3, PTL DEF PagingSpec
=============================================================================
