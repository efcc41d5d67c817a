------------------------------- MODULE Paging -------------------------------
(***************************************************************************)
(* Reading a collection page by page, as each place that answers a         *)
(* query does it: the client over its own documents (packages/client/src/  *)
(* helpers: queryDocs, filterDocs, sortDocs, paginateDocs), the same over  *)
(* IndexedDB, where an index answers what it can and a scan the rest       *)
(* (LivequeryIndexedDBStorage), and the servers' MongoQuery, PostgresQuery *)
(* and D1Query.                                                            *)
(*                                                                         *)
(* A document is its id and the value of one field, which it may lack. A   *)
(* reader asks for a page, follows `paging.next` to the end and then       *)
(* `paging.prev` back, while others write. Summaries, projections, text    *)
(* search and `:around` are left out; ids are compared as numbers, values  *)
(* are of one type.                                                        *)
(***************************************************************************)
EXTENDS Integers, FiniteSets

CONSTANTS
    Ids,        \* numbers, in the order of the ids
    Uuids,      \* those that are UUIDs: Mongo sorts them before its ObjectIds
    Values,     \* values of the field
    Limit,      \* `:limit`
    Places,     \* who answers, of {"client", "indexeddb", "mongo", "postgres", "d1"}
    TextRank,   \* where the id of a document stands in the order of plain strings
    Overwriting, \* whether a document may take the id of another one
    Lacking,    \* the places where documents may lack the field
    Turning,    \* the places whose `paging.prev` the reader follows
    Counting,   \* the places that count both sides of any page
    Requests,   \* the sorts and filters asked for
    MaxWrites,  \* writes by others during a walk
    MaxPages    \* pages read in a behaviour

Null == 0     \* the document lacks the field
Absent == -1  \* there is no such document

ASSUME IdsAssumption == Ids \subseteq Nat /\ IsFiniteSet(Ids) /\ Uuids \subseteq Ids
ASSUME UuidsFirst == \A i \in Uuids, j \in Ids \ Uuids : i < j
ASSUME ValuesAssumption == Values \subseteq Nat \ {Null} /\ IsFiniteSet(Values)
ASSUME PagingBounds == Limit \in Nat \ {0} /\ MaxWrites \in Nat /\ MaxPages \in Nat
ASSUME PlacesAssumption == Places \subseteq {"client", "indexeddb", "mongo", "postgres", "d1"}
ASSUME RequestsAssumption ==
    \A r \in Requests : /\ r.by \in {"id", "v"} /\ r.dir \in {"asc", "desc"}
                       /\ r.idDir \in {"unset", "asc", "desc"}
                       /\ r.mode \in {"all", "any", "none"}
ASSUME TextRankAssumption == TextRank \in [Ids -> Nat] /\ Overwriting \in BOOLEAN

VARIABLES
    db,       \* the field of each document
    place,    \* who answers
    asked,    \* the request: by, dir, idDir, mode and conditions
    mode,     \* "cursor", or "page" for `:page`
    page,     \* the last answer, with the query it answered
    walk,     \* "start", "forward", "back" or "end"
    seen,     \* history: how often the walk showed each document
    touched,  \* history: documents written to since the walk began
    counter,  \* IndexedDB: the stored count of the collection, or Uncounted
    writes, pages

pagingVars == <<db, place, asked, mode, page, walk, seen, touched, counter, writes, pages>>

Uncounted == -1  \* no count is stored, and no index exists

Position == [id : Ids, v : Values \cup {Null}]

-----------------------------------------------------------------------------
(* Filters. A condition compares the field with a value; `in` and `nin` take *)
(* a set. Conditions stand side by side ("all") or in an `:or` ("any") or a  *)
(* `:not` ("none") group.                                                    *)

\* matchByOperator: plain JavaScript comparisons, in which null is 0.
ClientMatches(v, c) ==
    CASE c.op = "eq"  -> v = c.value
      [] c.op = "ne"  -> v # c.value
      [] c.op = "gt"  -> v > c.value
      [] c.op = "gte" -> v >= c.value
      [] c.op = "lt"  -> v < c.value
      [] c.op = "lte" -> v <= c.value
      [] c.op = "in"  -> v \in c.value
      [] c.op = "nin" -> v \notin c.value

\* Mutant of MongoMatches: `lte` becomes `$lt`.
MongoMatchesPresent(v, c) ==
    IF c.op = "lte" THEN ClientMatches(v, [c EXCEPT !.op = "lt"]) ELSE v # Null /\ ClientMatches(v, c)

\* #operator_clause: Mongo compares values of one type, and only `ne` and `nin`
\* match a document that lacks the field.
MongoMatches(v, c) ==
    IF c.op \in {"ne", "nin"} THEN ClientMatches(v, c) ELSE v # Null /\ ClientMatches(v, c)

\* #operator of Postgres: IS DISTINCT FROM, and `<> ALL (...) OR IS NULL`.
PostgresMatches(v, c) ==
    \/ v = Null /\ c.op \in {"ne", "nin"}
    \/ v # Null /\ ClientMatches(v, c)

\* #buildWhere: `!=` and NOT IN of a NULL are not true.
D1Matches(v, c) == v # Null /\ ClientMatches(v, c)

Matches(where, v, c) ==
    CASE where \in {"client", "indexeddb"} -> ClientMatches(v, c)
      [] where = "mongo"    -> MongoMatches(v, c)
      [] where = "postgres" -> PostgresMatches(v, c)
      [] where = "d1"       -> D1Matches(v, c)

AllMatch(where, v)  == \A c \in asked.conditions : Matches(where, v, c)
SomeMatch(where, v) == \E c \in asked.conditions : Matches(where, v, c)

\* #build_match and #branches: `:not` is a $nor of the conditions of its group ...
MongoSelects(v) ==
    CASE asked.mode = "all"  -> AllMatch("mongo", v)
      [] asked.mode = "any"  -> SomeMatch("mongo", v)
      [] asked.mode = "none" -> ~SomeMatch("mongo", v)

\* ... and #build_group negates their conjunction.
PostgresSelects(v) ==
    CASE asked.mode = "all"  -> AllMatch("postgres", v)
      [] asked.mode = "any"  -> SomeMatch("postgres", v)
      [] asked.mode = "none" -> ~AllMatch("postgres", v)

\* The client and D1 skip every key that begins with a colon.
Selects(where, v) ==
    CASE where = "mongo"    -> MongoSelects(v)
      [] where = "postgres" -> PostgresSelects(v)
      [] OTHER -> asked.mode = "all" => AllMatch(where, v)

\* The documents of the collection that the filter selects.
Selected(where) ==
    {d \in Position : db[d.id] = d.v /\ Selects(where, d.v)}

-----------------------------------------------------------------------------
(* Order *)

\* compareDocs: the id follows the last sorter's direction.
ClientIdAscends ==
    IF asked.idDir # "unset" THEN asked.idDir = "asc"
    ELSE asked.by = "v" /\ asked.dir = "asc"

\* #get_sorter of Mongo and #sort of Postgres (#getSorts of D1 is the same): the
\* id descends unless `id:sort` says otherwise.
ServerIdAscends == asked.idDir = "asc"
SqlIdAscends    == asked.idDir = "asc"

IdAscends(where) ==
    CASE where \in {"client", "indexeddb"} -> ClientIdAscends
      [] where = "mongo"  -> ServerIdAscends
      [] OTHER            -> SqlIdAscends

\* planOf: an index answers a page sorted by one field or by the id alone, with
\* nothing to filter, once it and the count exist.
Indexed(where) ==
    /\ where = "indexeddb" /\ counter # Uncounted
    /\ asked.conditions = {} /\ (asked.by = "v" => asked.idDir = "unset")

\* indexFields: `id:sort` reads the index of the field `id`, whose keys are plain
\* strings (sortKey); every other order ends in the id as Mongo orders it (idKey).
IdBelow(where, a, b) ==
    IF Indexed(where) /\ asked.by = "id" /\ asked.idDir # "unset"
    THEN TextRank[a.id] < TextRank[b.id]
    ELSE a.id < b.id

\* A document without the field stands last in Postgres and first elsewhere.
SmallerValue(where, a, b) ==
    IF where = "postgres" THEN a.v # Null /\ (b.v = Null \/ a.v < b.v) ELSE a.v < b.v

\* a comes before b in the order asked for.
Precedes(where, a, b) ==
    \/ /\ asked.by = "v" /\ a.v # b.v
       /\ IF asked.dir = "asc" THEN SmallerValue(where, a, b) ELSE SmallerValue(where, b, a)
    \/ /\ asked.by = "v" => a.v = b.v
       /\ IF IdAscends(where) THEN IdBelow(where, a, b) ELSE IdBelow(where, b, a)

\* The first and the last n documents of a set.
FirstOf(where, set, n) ==
    {d \in set : Cardinality({e \in set : Precedes(where, e, d)}) < n}
LastOf(where, set, n) ==
    {d \in set : Cardinality({e \in set : Precedes(where, d, e)}) < n}

\* The documents whose cursors an answer carries.
Head(where, set) == CHOOSE d \in set : \A e \in set \ {d} : Precedes(where, d, e)
Last(where, set) == CHOOSE d \in set : \A e \in set \ {d} : Precedes(where, e, d)

Monus(a, b) == IF a > b THEN a - b ELSE 0

-----------------------------------------------------------------------------
(* Pages. A query is [kind, at, index]: the "first" page, one "after" or     *)
(* "before" a cursor, which may carry the index of its document, or "page"   *)
(* number at. An answer is the items and, for each side, whether more is     *)
(* there and how many.                                                       *)

Answer(items, prev, next, hasPrev, hasNext) ==
    [items |-> items, prev |-> prev, next |-> next, hasPrev |-> hasPrev, hasNext |-> hasNext,
     first |-> prev]

\* Mutant of ClientFrom: the page begins with the document of the cursor.
ClientFromCursor(q) ==
    {d \in Selected("client") : q.kind = "after" => ~Precedes("client", d, q.at)}

\* Where paginateDocs begins: behind the cursor, whether its document is there
\* or not.
ClientFrom(q) ==
    {d \in Selected("client") : q.kind = "after" => Precedes("client", q.at, d)}

\* paginateDocs.
ClientPage(q) ==
    LET sorted == Selected("client")
        upto   == {d \in sorted : Precedes("client", d, q.at)}
        items  == IF q.kind = "before" THEN LastOf("client", upto, Limit)
                  ELSE FirstOf("client", ClientFrom(q), Limit)
        prev   == {d \in sorted : \A e \in items : Precedes("client", d, e)}
        next   == {d \in sorted : \A e \in items : Precedes("client", e, d)}
    IN  IF items = {} THEN Answer({}, 0, 0, FALSE, FALSE)
        ELSE Answer(items, Cardinality(prev), Cardinality(next), prev # {}, next # {})

\* Mutant of OtherTypeBeyond: a page ends where the type of the ids changes.
NoTypeBeyond(at, d, down) == FALSE

\* #idTypesBeyond: `$lt` and `$gt` only see ids of the cursor's type; the other
\* type joins when it lies in the direction of travel.
OtherTypeBeyond(at, d, down) ==
    IF down THEN at.id \notin Uuids /\ d.id \in Uuids ELSE at.id \in Uuids /\ d.id \notin Uuids

\* #build_cursor_query: one branch per sort key; a value that is neither a
\* string nor a number gives the branch {}, which selects every document.
MongoSide(q, reverse) ==
    LET incl  == reverse
        value == IF q.at.v = Null THEN Selected("mongo")
                 ELSE {d \in Selected("mongo") : d.v # Null /\
                         \/ incl /\ d.v = q.at.v
                         \/ IF (asked.dir = "desc") # reverse THEN d.v < q.at.v ELSE d.v > q.at.v}
        down  == IdAscends("mongo") = reverse
        same(d) == (d.id \in Uuids) = (q.at.id \in Uuids)
        id    == {d \in Selected("mongo") :
                    /\ asked.by = "v" => d.v = q.at.v
                    /\ \/ incl /\ d.id = q.at.id
                       \/ same(d) /\ IF down THEN d.id < q.at.id ELSE d.id > q.at.id
                       \/ OtherTypeBeyond(q.at, d, down)}
    IN  IF q.kind = "first" THEN IF reverse THEN {} ELSE Selected("mongo")
        ELSE IF asked.by = "v" THEN value \cup id ELSE id

\* #build_cursor_paging.
MongoPage(q) ==
    LET prev == MongoSide(q, TRUE)
        next == MongoSide(q, FALSE)
        shown == IF q.kind = "before" THEN LastOf("mongo", prev, Limit)
                 ELSE FirstOf("mongo", next, Limit)
    IN  Answer(shown, Cardinality(prev), Monus(Cardinality(next), Limit),
               prev # {}, Cardinality(next) > Limit)

\* A comparison in SQL with a NULL is not true.
SqlBeyond(where, d, at, after) ==
    LET up == (asked.dir = "asc") = after
        idUp == IdAscends(where) = after
        byId == IF idUp THEN d.id > at.id ELSE d.id < at.id
    IN  IF asked.by = "id" THEN byId
        ELSE /\ d.v # Null /\ at.v # Null
             /\ \/ IF up THEN d.v > at.v ELSE d.v < at.v
                \/ d.v = at.v /\ byId

\* #keyset of Postgres.
PostgresKeyset(at, after) == {d \in Selected("postgres") : SqlBeyond("postgres", d, at, after)}

\* Mutant of OffsetPage: a full last page says that more follows.
OffsetPageOneMore(where, q) ==
    LET skip  == (q.at - 1) * Limit
        total == Cardinality(Selected(where))
    IN  Answer(FirstOf(where, Selected(where), skip + Limit) \ FirstOf(where, Selected(where), skip),
               skip, Monus(total, skip + Limit), skip > 0, total >= skip + Limit)

\* #build_offset_paging of Mongo; Postgres and D1 compute the same.
OffsetPage(where, q) ==
    LET skip  == (q.at - 1) * Limit
        total == Cardinality(Selected(where))
    IN  Answer(FirstOf(where, Selected(where), skip + Limit) \ FirstOf(where, Selected(where), skip),
               skip, Monus(total, skip + Limit), skip > 0, total > skip + Limit)

\* PostgresQuery.query: the counts are taken at the ends of the page.
PostgresPage(q) ==
    LET items == CASE q.kind = "first" -> FirstOf("postgres", Selected("postgres"), Limit)
                   [] q.kind = "after" -> FirstOf("postgres", PostgresKeyset(q.at, TRUE), Limit)
                   [] q.kind = "before" -> LastOf("postgres", PostgresKeyset(q.at, FALSE), Limit)
        prev == PostgresKeyset(Head("postgres", items), FALSE)
        next == PostgresKeyset(Last("postgres", items), TRUE)
    IN  IF items = {} THEN Answer({}, 0, 0, FALSE, FALSE)
        ELSE Answer(items, Cardinality(prev), Cardinality(next), prev # {}, next # {})

\* #buildCursorCondition of D1: as in Postgres, except that a cursor value that
\* is NULL leaves its branch out; what is left compares with the NULL.
D1Keyset(at, after) == {d \in Selected("d1") : SqlBeyond("d1", d, at, after)}

\* #buildQueryPlan: the documents on both sides of the cursor.
D1Plan(q) ==
    IF q.kind = "first" THEN [after |-> Selected("d1"), before |-> {}]
    ELSE [after |-> D1Keyset(q.at, TRUE), before |-> D1Keyset(q.at, FALSE)]

\* queryCollection: one row more than the page is read, both sides are counted.
D1Page(q) ==
    LET plan == D1Plan(q)
        n == Cardinality(plan.after)
        p == Cardinality(plan.before)
    IN  IF q.kind = "before"
        THEN Answer(LastOf("d1", plan.before, Limit), Monus(p, Limit), n, p > Limit, n > 0)
        ELSE Answer(FirstOf("d1", plan.after, Limit), p, Monus(n, Limit), p > 0, n > Limit)

\* Mutant of IndexedFirst: a page before the cursor begins where the cursor is.
IndexedFirstAtCursor(q, items) ==
    CASE q.kind = "first" -> 0
      [] q.kind = "after" -> q.index + 1
      [] q.kind = "before" -> q.index

\* Where the page starts: from the cursor's index.
IndexedFirst(q, items) ==
    CASE q.kind = "first" -> 0
      [] q.kind = "after" -> q.index + 1
      [] q.kind = "before" -> Monus(q.index, Cardinality(items))

\* #indexedPage: one document more than the page is walked from the cursor, one
\* key tells whether anything lies on the other side, and the numbers come from
\* the stored count and the index in the cursor.
IndexedPage(q) ==
    LET all    == Selected("indexeddb")
        beyond == CASE q.kind = "first"  -> all
                    [] q.kind = "after"  -> {d \in all : Precedes("indexeddb", q.at, d)}
                    [] q.kind = "before" -> {d \in all : Precedes("indexeddb", d, q.at)}
        items  == IF q.kind = "before" THEN LastOf("indexeddb", beyond, Limit)
                  ELSE FirstOf("indexeddb", beyond, Limit)
        prev   == {d \in all : \A e \in items : Precedes("indexeddb", d, e)}
        next   == {d \in all : \A e \in items : Precedes("indexeddb", e, d)}
        first  == IndexedFirst(q, items)
        count(there, n) == IF ~there THEN 0 ELSE IF n > 1 THEN n ELSE 1
    IN  IF items = {} THEN Answer({}, 0, 0, FALSE, FALSE)
        ELSE [Answer(items, count(prev # {}, first),
                     count(next # {}, counter - first - Cardinality(items)),
                     prev # {}, next # {}) EXCEPT !.first = first]

Page(where, q) ==
    IF q.kind = "page" THEN OffsetPage(where, q)
    ELSE IF Indexed(where) THEN IndexedPage(q)
    ELSE CASE where \in {"client", "indexeddb"} -> ClientPage(q)
           [] where = "mongo"    -> MongoPage(q)
           [] where = "postgres" -> PostgresPage(q)
           [] where = "d1"       -> D1Page(q)

-----------------------------------------------------------------------------
(* A walk *)

NoQuery == [kind |-> "none", at |-> 0, index |-> 0]
NoPage == [answer |-> Answer({}, 0, 0, FALSE, FALSE), query |-> NoQuery, fresh |-> FALSE]

PagingInit ==
    /\ place \in Places
    /\ asked \in Requests
    /\ mode \in IF place \in {"client", "indexeddb"} THEN {"cursor"} ELSE {"cursor", "page"}
    /\ db \in [Ids -> Values \cup {Absent} \cup (IF place \in Lacking THEN {Null} ELSE {})]
    /\ page = NoPage /\ walk = "start"
    /\ seen = [i \in Ids |-> 0] /\ touched = {} /\ writes = 0 /\ pages = 0
    /\ counter = Uncounted

Read(q) ==
    /\ pages < MaxPages
    /\ pages' = pages + 1
    /\ page' = [answer |-> Page(place, q), query |-> q, fresh |-> TRUE]

Shown(items) == [i \in Ids |-> IF \E d \in items : d.id = i THEN seen[i] + 1 ELSE seen[i]]

FirstPage ==
    /\ walk = "start"
    /\ Read(IF mode = "page" THEN [kind |-> "page", at |-> 1, index |-> 0]
            ELSE [kind |-> "first", at |-> 0, index |-> 0])
    /\ seen' = Shown(page'.answer.items)
    /\ walk' = "forward"
    /\ UNCHANGED <<db, place, asked, mode, touched, counter, writes>>

\* The reader follows `paging.next`, which holds the cursor of the last item.
NextPage ==
    /\ walk = "forward" /\ page.answer.hasNext
    /\ Read(IF mode = "page" THEN [kind |-> "page", at |-> page.query.at + 1, index |-> 0]
            ELSE [kind |-> "after", at |-> Last(place, page.answer.items),
                  index |-> page.answer.first + Cardinality(page.answer.items) - 1])
    /\ seen' = Shown(page'.answer.items)
    /\ UNCHANGED <<db, place, asked, mode, walk, touched, counter, writes>>

\* At the end it may turn and follow `paging.prev`, the cursor of the first item.
Turn ==
    /\ walk = "forward" /\ ~page.answer.hasNext
    /\ walk' = IF page.answer.hasPrev /\ mode = "cursor" /\ place \in Turning THEN "back" ELSE "end"
    /\ seen' = [i \in Ids |-> IF \E d \in page.answer.items : d.id = i THEN 1 ELSE 0]
    /\ UNCHANGED <<db, place, asked, mode, page, touched, counter, writes, pages>>

PrevPage ==
    /\ walk = "back" /\ page.answer.hasPrev /\ page.answer.items # {}
    /\ Read([kind |-> "before", at |-> Head(place, page.answer.items), index |-> page.answer.first])
    /\ seen' = Shown(page'.answer.items)
    /\ UNCHANGED <<db, place, asked, mode, walk, touched, counter, writes>>

\* Mutant of Counted: add() counts a document that was there.
CountedAgain(was, is) ==
    IF counter = Uncounted THEN counter
    ELSE IF is THEN counter + 1 ELSE IF was THEN Monus(counter, 1) ELSE counter

\* #count: add() of a new key and delete() of one that is there keep the count,
\* once there is one.
Counted(was, is) ==
    IF counter = Uncounted \/ was = is THEN counter
    ELSE IF is THEN counter + 1 ELSE Monus(counter, 1)

\* Others write. A walk by page numbers is only said to be right if nobody does.
Write(i, v) ==
    /\ mode = "cursor" /\ walk \in {"forward", "back"} /\ writes < MaxWrites
    /\ v # db[i]
    /\ db' = [db EXCEPT ![i] = v]
    /\ touched' = touched \cup {i}
    /\ writes' = writes + 1
    /\ page' = [page EXCEPT !.fresh = FALSE]
    /\ counter' = Counted(db[i] # Absent, v # Absent)
    /\ UNCHANGED <<place, asked, mode, walk, seen, pages>>

\* An IndexedDB storage that scanned the collection counts it, in one transaction,
\* and creates the index; the pages after that come from there (#startCounting,
\* #createIndex).
StartIndex ==
    /\ place = "indexeddb" /\ counter = Uncounted /\ walk # "start"
    /\ counter' = Cardinality({i \in Ids : db[i] # Absent})
    /\ UNCHANGED <<db, place, asked, mode, page, walk, seen, touched, writes, pages>>

\* update() with another id: the row moves and the count stays (a confirmation
\* gives a document the server's id).
Rename(i, j) ==
    /\ place = "indexeddb" /\ walk \in {"forward", "back"} /\ writes < MaxWrites
    /\ db[i] # Absent /\ i # j /\ (db[j] # Absent => Overwriting)
    /\ db' = [db EXCEPT ![j] = db[i], ![i] = Absent]
    /\ touched' = touched \cup {i, j}
    /\ writes' = writes + 1
    /\ page' = [page EXCEPT !.fresh = FALSE]
    /\ UNCHANGED <<place, asked, mode, walk, seen, counter, pages>>

PagingNext ==
    \/ FirstPage \/ NextPage \/ Turn \/ PrevPage
    \/ \E i \in Ids, v \in Values \cup {Absent} : Write(i, v)
    \/ StartIndex \/ \E i, j \in Ids : Rename(i, j)

PagingSpec == PagingInit /\ [][PagingNext]_pagingVars

-----------------------------------------------------------------------------
(* Properties *)

Stable == {i \in Ids \ touched : db[i] # Absent /\ Selects(place, db[i])}

\* "A document inserted before the cursor never shifts the next page, unlike an
\* offset": no document that nobody wrote to is shown twice, whatever is written
\* between the pages, on the way to the end and on the way back ...
NothingTwice == \A i \in Stable : seen[i] <= 1

\* ... and none is left out: when nothing follows, all of them have been shown.
NothingLeftOut ==
    /\ walk = "forward" /\ ~page.answer.hasNext => \A i \in Stable : seen[i] = 1
    /\ walk = "back" /\ ~page.answer.hasPrev => \A i \in Stable : seen[i] = 1

\* What an answer says lies on either side of its page is there; the numbers of an
\* index, "exact unless documents were added or removed before the page since",
\* while nobody wrote during the walk.
CountsAreTrue ==
    page.fresh /\ page.answer.items # {} /\ (place \in Counting \/ page.query.kind = "page") =>
        LET before == {d \in Selected(place) : \A e \in page.answer.items : Precedes(place, d, e)}
            after  == {d \in Selected(place) : \A e \in page.answer.items : Precedes(place, e, d)}
        IN  /\ page.answer.hasPrev = (before # {}) /\ page.answer.hasNext = (after # {})
            /\ \/ place = "indexeddb" /\ touched # {}
               \/ page.answer.prev = Cardinality(before) /\ page.answer.next = Cardinality(after)

\* "`total` is exact (kept per collection on every write)": the count beside the
\* rows is that of the rows, through adds, deletes, moves and its own start.
TotalIsExact == counter # Uncounted => counter = Cardinality({i \in Ids : db[i] # Absent})

\* The counts beside a page, and the one that an index is kept with.
CountsHold == CountsAreTrue /\ TotalIsExact

\* "A local page must order documents exactly like the server, or a window of 'the
\* newest N' holds different documents than the server's cursor skips": the page
\* that is first or after a cursor is the same wherever it is read, for documents
\* that have the field, the one of the cursor too (groups are only known to Mongo
\* and Postgres).
SamePageEverywhere ==
    /\ page.fresh /\ page.query.kind \in {"first", "after"}
    /\ \A i \in Ids : db[i] # Null
    /\ page.query.kind = "after" => page.query.at.v # Null
    =>  \A where \in Places :
            asked.mode = "all" \/ {where, place} \subseteq {"mongo", "postgres"} =>
                Page(where, page.query).items = page.answer.items
=============================================================================
