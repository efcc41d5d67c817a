----------------------------- MODULE Collection -----------------------------
(***************************************************************************)
(* A local-first list on the screen: packages/client/src                   *)
(* LivequeryCollection.ts, with what LivequeryClient.ts gives it (watch,   *)
(* query, the pages of the storage, the filtered broadcasts, the delay of  *)
(* AddLock) and the sync of its scope as the list sees it.                 *)
(*                                                                         *)
(* A page is read and committed in one step: a storage answers its calls   *)
(* in order, and a broadcast takes longer than the way back of a query.    *)
(* What interleaves are queries, pages that the server must extend, writes *)
(* of the user and of the server, and their broadcasts.                    *)
(*                                                                         *)
(* One list, a sort by `rank` and a filter by `tag`. A list is a set: its  *)
(* order is that of the positions (the sort field, then the id).           *)
(***************************************************************************)
EXTENDS Naturals, Sequences, FiniteSets, FiniteSetsExt

CONSTANTS
    N,           \* documents, 1..N, which are also the ranks
    Tags,        \* values of the filtered field
    Asked,       \* the filters the application asks for
    None,        \* nothing in the storage, no load, no error, no tag
    Limit,       \* `:limit`
    Held,        \* TRUE: the scope is loaded when the list is mounted
    Meets,       \* which of Hard the behaviours contain
    MaxQueries, MaxMore, MaxWrites, MaxFails

\* "unheld": a change to a document that is not on the screen comes as `modified`
\* "delta":  a document that left the filter comes as `added`, as reads bring them
\* "locked": a document changes again while AddLock holds its `added` back
\* "requery": a new query while another call is not answered
\* "sort":   sort() after loadMore()
Hard == {"unheld", "delta", "locked", "requery", "sort"}

ASSUME CollectionBoundsAssumption ==
    /\ N \in Nat \ {0} /\ Limit \in Nat \ {0} /\ Asked \subseteq Tags
    /\ {MaxQueries, MaxMore, MaxWrites, MaxFails} \subseteq Nat
ASSUME CollectionNoneAssumption == None \notin Tags /\ None \notin Nat
ASSUME CollectionMeetsAssumption == Held \in BOOLEAN /\ Meets \subseteq Hard

VARIABLES
    view,      \* the list: what LivequeryCollection publishes and remembers
    calls,     \* the queries that wait for their page
    store,     \* the storage: a rank and a tag per document
    remote,    \* the documents that only the server has
    scope,     \* the sync: "unknown", "loading", "loaded" (a page came), "partial", "complete"
    casts,     \* broadcasts on their way
    delayed,   \* `added` held back by AddLock
    locked,    \* is an add in flight
    holed,     \* history: the list lost its place in the storage (Past, Overtaken)
    left       \* what remains of each bound

collectionVars == <<view, calls, store, remote, scope, casts, delayed, locked, holed, left>>
deviceVars == <<store, remote, scope>>
lockVars == <<delayed, locked>>

-----------------------------------------------------------------------------
(* Positions and pages *)

Ids == 1..N
Data == [rank : Ids, tag : Tags]
Absent == [rank |-> 0, tag |-> None]
Item(d, data) == [id |-> d, rank |-> data.rank, tag |-> data.tag]
Position(i) == i.rank * (N + 1) + i.id

\* The first n of a set of items, by position.
FirstItems(n, S) == {i \in S : Cardinality({j \in S : Position(j) < Position(i)}) < n}
End(S) == Max({Position(i) : i \in S})

\* What the storage holds for a filter.
Matching(f) == {Item(d, store[d]) : d \in {e \in Ids : store[e].tag = f}}
Beyond(f, after) == {i \in Matching(f) : Position(i) > after}

\* sync.completeness()
Completeness == IF scope \in {"partial", "complete"} THEN scope ELSE "unknown"

\* #localPage: a page of the storage, with a cursor while the server may have more.
Page(f, after) == FirstItems(Limit, Beyond(f, after))
NextOf(f, after) ==
    LET page == Page(f, after)
    IN  IF page # {} /\ (page # Beyond(f, after) \/ Completeness # "complete") THEN End(page)
        ELSE IF page = {} /\ after # 0 /\ Completeness # "complete" THEN after
        ELSE 0

\* A short page past what the device holds: the server is asked for older documents.
Short(c) == /\ c.after # 0 /\ Cardinality(Beyond(c.filter, c.after)) < Limit
            /\ Completeness # "complete"

-----------------------------------------------------------------------------
(* What an emission does to the list. v is the view before it. *)

\* #settle
Settled(v) ==
    [v EXCEPT !.status = IF v.error THEN "error"
                         ELSE IF v.answered /\ v.loading = None THEN "ready"
                         ELSE IF v.asked THEN "loading" ELSE "idle"]

\* Mutants of Clipped: the rest has no cursor; everything is shown.
ClippedAway(v, items) == [v EXCEPT !.items = FirstItems(v.window, items)]
ClippedNever(v, items) == [v EXCEPT !.items = items]

\* #clip: what does not fit the pages asked for stays in the storage.
Clipped(v, items) ==
    IF Cardinality(items) <= v.window THEN [v EXCEPT !.items = items]
    ELSE LET kept == FirstItems(v.window, items)
         IN  [v EXCEPT !.items = kept, !.next = End(kept)]

On(v, d) == \E i \in v.items : i.id = d

\* `added` and `modified` of what is held.
Updated(v, changed) == {IF \E c \in changed : c.id = i.id THEN CHOOSE c \in changed : c.id = i.id ELSE i : i \in v.items}

\* #applyChanges: updates, additions and removals, sorted and clipped.
Applied(v, added, modified, removed) ==
    IF added \cup modified = {} /\ removed = {} THEN v
    ELSE Clipped(v, {i \in Updated(v, added \cup modified) \cup {a \in added : ~On(v, a.id)} : i.id \notin removed})

\* A query's result, or a load that just finished.
Answers(v, e) == e.from = "query" /\ e.idle /\ (e.changes \/ v.loading # None)

\* The tap of watch(): completeness, error, loading and the answer.
Tapped(v, e) ==
    LET told == [v EXCEPT !.known = IF e.known = None THEN @ ELSE e.known]
        held == v.unloaded /\ e.known \notin {None, "unknown"}
    IN  IF e.error THEN [told EXCEPT !.loading = None, !.error = TRUE]
        ELSE [told EXCEPT !.answered = @ \/ Answers(v, e) \/ held,
                          !.loading = IF e.idle THEN None ELSE IF e.load = None THEN @ ELSE e.load]

Emission == [from |-> "query", changes |-> FALSE, idle |-> FALSE, load |-> None, known |-> None, error |-> FALSE]

\* An emission of the sync's status$, and one with the changes of a broadcast.
Told(v, e) == Settled(Tapped(v, e))
Received(v, from, added, modified, removed) ==
    Settled(Applied(Tapped(v, [Emission EXCEPT !.from = from, !.changes = TRUE, !.idle = from = "query"]),
                    added, modified, removed))

\* A list that is shorter than its window takes a document from past its next page:
\* there is a hole between that page and the document.
Past == view.next # 0 /\ \E i \in view'.items : Position(i) > view.next

\* A page that was asked for is not the next page of the list any more.
Overtaken == \E k \in DOMAIN calls' : ~calls'[k].flush /\ calls'[k].after # view'.next

-----------------------------------------------------------------------------
(* Queries *)

Spend(what) == left[what] > 0 /\ left' = [left EXCEPT ![what] = @ - 1]

\* Mutant of WindowOf: a new query adds to the window.
WindowKept(flush) == view.window + Limit

\* How many documents the pages asked for hold.
WindowOf(flush) == IF flush THEN Limit ELSE view.window + Limit

\* #query up to its await: a first page empties the list.
Asks(f, after, flush) ==
    /\ calls' = Append(calls, [flush |-> flush, filter |-> f, after |-> after, phase |-> "asked"])
    /\ LET clear == [view EXCEPT !.error = FALSE, !.window = WindowOf(flush), !.filter = f, !.after = after]
       IN  view' = IF ~flush THEN clear
                   ELSE [Settled([clear EXCEPT !.asked = TRUE, !.answered = FALSE, !.unloaded = FALSE])
                            EXCEPT !.items = {}]

\* query(), by the timer of initialize() or by the application.
Query(f) ==
    /\ calls = <<>> \/ "requery" \in Meets
    /\ Spend("queries")
    /\ Asks(f, 0, TRUE)
    /\ holed' = FALSE
    /\ UNCHANGED <<deviceVars, casts, lockVars>>

\* sort() keeps the other filters, the cursor of loadMore() among them.
Sort ==
    /\ view.asked
    /\ calls = <<>> \/ "requery" \in Meets
    /\ view.after = 0 \/ "sort" \in Meets
    /\ Spend("queries")
    /\ Asks(view.filter, view.after, TRUE)
    /\ holed' = FALSE
    /\ UNCHANGED <<deviceVars, casts, lockVars>>

LoadMore ==
    /\ view.next # 0
    /\ Spend("more")
    /\ Asks(view.filter, view.next, FALSE)
    /\ UNCHANGED <<deviceVars, casts, lockVars, holed>>

\* Mutant of Unloaded: no empty page is an answer.
UnloadedAlways(v, page) == page = {}

\* On a scope that was never loaded an empty page is not an answer.
Unloaded(v, page) == page = {} /\ v.known = "unknown"

\* #query after its await: a first page is committed, a later one is applied as
\* `added`, whatever the list shows by then.
Answered(c, v) ==
    LET page == Page(c.filter, c.after)
        paged == [v EXCEPT !.next = NextOf(c.filter, c.after)]
        empty == Unloaded(v, page)
    IN  IF c.flush
        THEN Settled([paged EXCEPT !.items = page, !.unloaded = empty, !.answered = @ \/ ~empty])
        ELSE Settled(Applied(paged, page, {}, {}))

CallsWithout(k) == SubSeq(calls, 1, k - 1) \o SubSeq(calls, k + 1, Len(calls))

\* The storage has the page, or as much of it as there is.
Answer(k) ==
    /\ LET c == calls[k]
       IN  \/ c.phase = "asked" /\ ~Short(c) /\ view' = Answered(c, view)
           \/ c.phase = "extended"
              /\ view' = Answered(c, Told(view, [Emission EXCEPT !.idle = TRUE, !.known = Completeness]))
    /\ calls' = CallsWithout(k)
    /\ holed' = ((holed /\ ~calls[k].flush) \/ Overtaken)
    /\ UNCHANGED <<deviceVars, casts, lockVars, left>>

\* sync.extend() is asked for the next older page.
AskServer(k) ==
    /\ calls[k].phase = "asked" /\ Short(calls[k])
    /\ view' = Told(view, [Emission EXCEPT !.load = "next"])
    /\ calls' = [calls EXCEPT ![k].phase = "extending"]
    /\ UNCHANGED <<deviceVars, casts, lockVars, holed, left>>

-----------------------------------------------------------------------------
(* The sync *)

\* The documents of the server come by rank, which is their number.
Older(n) == {d \in remote : Cardinality({e \in remote : e < d}) < n}
Arrive(docs, f) ==
    /\ store' = [d \in Ids |-> IF d \in docs THEN [rank |-> d, tag |-> f[d]] ELSE store[d]]
    /\ remote' = remote \ docs
    /\ casts' = IF docs = {} THEN casts
                ELSE Append(casts, [from |-> "query", added |-> {Item(d, [rank |-> d, tag |-> f[d]]) : d \in docs},
                                    modified |-> {}, removed |-> {}])

\* extend(): the next page, or none while the scope is not loaded.
Extend(k) ==
    /\ calls[k].phase = "extending"
    /\ calls' = [calls EXCEPT ![k].phase = "extended"]
    /\ IF scope # "partial"
       THEN UNCHANGED <<view, deviceVars, casts>>
       ELSE /\ \E f \in [Older(Limit) -> Tags] : Arrive(Older(Limit), f)
            /\ scope' = IF remote' = {} THEN "complete" ELSE "partial"
            /\ view' = Told(view, [Emission EXCEPT !.idle = TRUE, !.known = IF remote' = {} THEN "complete" ELSE "partial"])
    /\ UNCHANGED <<lockVars, holed, left>>

\* It fails: the error is told, and the status of the sync, which idles again.
ExtendFails(k) ==
    /\ calls[k].phase = "extending" /\ scope = "partial"
    /\ Spend("fails")
    /\ calls' = [calls EXCEPT ![k].phase = "extended"]
    /\ view' = Told(Told(view, [Emission EXCEPT !.idle = TRUE, !.known = Completeness]), [Emission EXCEPT !.error = TRUE])
    /\ UNCHANGED <<deviceVars, casts, lockVars, holed>>

\* #catchUp of a scope that was never loaded: it starts, ...
LoadStarts ==
    /\ scope = "unknown"
    /\ scope' = "loading"
    /\ view' = Told(view, [Emission EXCEPT !.load = "all", !.known = "unknown"])
    /\ UNCHANGED <<calls, store, remote, casts, lockVars, holed, left>>

\* ... brings its page ...
LoadBrings ==
    /\ scope = "loading"
    /\ scope' = "loaded"
    /\ \E f \in [Older(Limit) -> Tags] : Arrive(Older(Limit), f)
    /\ UNCHANGED <<view, calls, lockVars, holed, left>>

\* ... and ends once that is broadcast; or fails, until a reconnect.
LoadEnds ==
    /\ scope = "loaded" /\ \A k \in DOMAIN casts : casts[k].from # "query"
    /\ scope' = IF remote = {} THEN "complete" ELSE "partial"
    /\ view' = Told(view, [Emission EXCEPT !.idle = TRUE, !.known = IF remote = {} THEN "complete" ELSE "partial"])
    /\ UNCHANGED <<calls, store, remote, casts, lockVars, holed, left>>

LoadFails ==
    /\ scope = "loading"
    /\ Spend("fails")
    /\ scope' = "unknown"
    /\ view' = Told(view, [Emission EXCEPT !.error = TRUE, !.known = "unknown"])
    /\ UNCHANGED <<calls, store, remote, casts, lockVars, holed>>

-----------------------------------------------------------------------------
(* Writes, by the user or by realtime, and their broadcasts *)

Cast(added, modified, removed) ==
    [from |-> "realtime", added |-> added, modified |-> modified, removed |-> removed]
Pending(d) == \E k \in DOMAIN casts : \E i \in casts[k].added \cup casts[k].modified : i.id = d
OneField(d, data) == data # store[d] /\ (data.rank = store[d].rank \/ data.tag = store[d].tag)
Delayed(d) == \E k \in DOMAIN delayed : delayed[k].id = d
Steady(d) == ~Delayed(d) \/ "locked" \in Meets

\* A document is created, or a read brings one that is held again: `added`. While an
\* add is in flight what the server reports waits for its end.
Add(d, data) ==
    /\ Spend("writes")
    /\ d \notin remote /\ Steady(d)
    /\ data.tag = view.filter \/ "delta" \in Meets \/ store[d] = Absent \/ store[d].tag # view.filter
    /\ IF store[d] = Absent THEN data.rank = d ELSE ~Pending(d) /\ OneField(d, data)
    /\ store' = [store EXCEPT ![d] = data]
    /\ IF locked
       THEN delayed' = Append(delayed, Item(d, data)) /\ casts' = casts
       ELSE delayed' = delayed /\ casts' = Append(casts, Cast({Item(d, data)}, {}, {}))
    /\ UNCHANGED <<view, calls, remote, scope, locked, holed>>

\* A document changes: `modified`.
Change(d, data) ==
    /\ Spend("writes")
    /\ store[d] # Absent /\ OneField(d, data) /\ Steady(d)
    /\ "unheld" \in Meets \/ (On(view, d) /\ casts = <<>>)
    /\ store' = [store EXCEPT ![d] = data]
    /\ casts' = Append(casts, Cast({}, {Item(d, data)}, {}))
    /\ UNCHANGED <<view, calls, remote, scope, lockVars, holed>>

Remove(d) ==
    /\ Spend("writes")
    /\ store[d] # Absent /\ Steady(d)
    /\ store' = [store EXCEPT ![d] = Absent]
    /\ casts' = Append(casts, Cast({}, {}, {d}))
    /\ UNCHANGED <<view, calls, remote, scope, lockVars, holed>>

\* AddLock: an add of the user is sent, and confirmed.
Lock ==
    /\ ~locked
    /\ Spend("writes")
    /\ locked' = TRUE
    /\ UNCHANGED <<view, calls, deviceVars, casts, delayed, holed>>
Unlock ==
    /\ locked
    /\ locked' = FALSE /\ delayed' = <<>>
    /\ casts' = casts \o [k \in DOMAIN delayed |-> Cast({delayed[k]}, {}, {})]
    /\ UNCHANGED <<view, calls, deviceVars, holed, left>>

\* Mutant of Leaving: what left the filter stays.
LeavingNone(modified) == {}

\* #filterLocalEvents: a `modified` is what the storage holds now, and a removal when
\* that does not match; an `added` that does not match is dropped.
Leaving(modified) == {i.id : i \in {j \in modified : store[j.id].tag # view.filter}}

\* #broadcast reaches the list.
Deliver ==
    /\ casts # <<>>
    /\ LET cast == Head(casts)
           leaving == Leaving(cast.modified)
       IN  view' = Received(view, cast.from, {i \in cast.added : i.tag = view.filter},
                            {i \in cast.modified : i.id \notin leaving}, cast.removed \cup leaving)
    /\ casts' = Tail(casts)
    /\ UNCHANGED <<calls, deviceVars, lockVars, left>>
    /\ holed' = (holed \/ Past \/ Overtaken)

-----------------------------------------------------------------------------
Blank == [items |-> {}, filter |-> None, window |-> Limit, after |-> 0, next |-> 0, loading |-> None,
          error |-> FALSE, asked |-> FALSE, answered |-> FALSE, unloaded |-> FALSE,
          known |-> "unknown", status |-> "idle"]

CollectionInit ==
    /\ view = Blank
    /\ calls = <<>>
    /\ store = [d \in Ids |-> Absent]
    /\ \E n \in 2..N : remote = IF Held THEN {} ELSE n..N
    /\ scope = IF Held THEN "complete" ELSE "unknown"
    /\ casts = <<>>
    /\ delayed = <<>> /\ locked = FALSE
    /\ holed = FALSE
    /\ left = [queries |-> MaxQueries, more |-> MaxMore, writes |-> MaxWrites, fails |-> MaxFails]

\* Pages that need no server come in the order they were asked for.
AnswerAny == \E k \in DOMAIN calls : (\A j \in 1..k - 1 : calls[j].phase # "asked") /\ Answer(k)

CollectionNext ==
    \/ Sort \/ \E f \in Asked : Query(f)
    \/ LoadMore \/ AnswerAny
    \/ \E k \in DOMAIN calls : AskServer(k) \/ Extend(k) \/ ExtendFails(k)
    \/ LoadStarts \/ LoadBrings \/ LoadEnds \/ LoadFails
    \/ \E d \in Ids : Remove(d) \/ (view.asked /\ \E data \in Data : Add(d, data) \/ Change(d, data))
    \/ Lock \/ Unlock \/ Deliver

\* Calls, broadcasts and loads go on while there are any: every one of them ends.
Works ==
    \/ AnswerAny \/ Deliver \/ LoadStarts \/ LoadBrings \/ LoadEnds
    \/ \E k \in DOMAIN calls : AskServer(k) \/ Extend(k)
CollectionFairness == WF_collectionVars(Works)

CollectionSpec == CollectionInit /\ [][CollectionNext]_collectionVars /\ CollectionFairness

-----------------------------------------------------------------------------
(* Properties *)

Items == [id : Ids, rank : Ids, tag : Tags]

CollectionTypeOK ==
    /\ view.items \subseteq Items /\ view.filter \in Tags \cup {None}
    /\ view.window \in {Limit * k : k \in 1..(MaxMore + 1)}
    /\ {view.next, view.after} \subseteq 0..Position([id |-> N, rank |-> N])
    /\ view.loading \in {None, "all", "next"} /\ view.known \in {"unknown", "partial", "complete"}
    /\ view.status \in {"idle", "loading", "ready", "error"}
    /\ store \in [Ids -> Data \cup {Absent}] /\ remote \subseteq Ids
    /\ scope \in {"unknown", "loading", "loaded", "partial", "complete"}
    /\ delayed \in Seq(Items)

\* Nothing is on its way to the list.
Quiet == calls = <<>> /\ casts = <<>> /\ delayed = <<>>

\* What the screen shows is what the device holds: no document that is gone, left the
\* filter or changed since, however queries, writes and broadcasts interleave.
ListIsTrue == Quiet => view.items \subseteq Matching(view.filter)

\* A document is listed once, and "what fits the pages loaded so far" is all there is.
ListFits ==
    /\ \A i, j \in view.items : i.id = j.id => i = j
    /\ Cardinality(view.items) <= view.window

\* The list is well formed, fits its pages, and shows what the device holds.
ListInv == CollectionTypeOK /\ ListFits /\ ListIsTrue

\* "The rest stays in storage for loadMore": whatever matches is on the screen or after
\* the cursor of the next page ...
InReach == \A i \in Matching(view.filter) : i \in view.items \/ (view.next # 0 /\ Position(i) > view.next)
ReachableAlways == Quiet /\ view.asked => InReach

\* ... unless the list had room for what lies past its next page.
Reachable == Quiet /\ view.asked /\ ~holed => InReach

\* `loading`: "a first page was asked for and nothing has answered it yet". It is
\* answered, or fails.
Settles == view.status = "loading" ~> view.status # "loading"

\* "An empty device is not an answer, the first sync is."
EmptyIsKnown == view.status = "ready" /\ view.items = {} => view.known # "unknown"
=============================================================================
