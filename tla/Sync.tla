-------------------------------- MODULE Sync --------------------------------
(***************************************************************************)
(* The sync of a local-first collection:                                   *)
(* packages/client/src/LivequerySync.ts, with the server it reads from     *)
(* (packages/mongodb/src/MongoDatasource.ts, withVersion.ts) and the       *)
(* subscription it listens to (packages/rest/src/RestTransporter.ts).      *)
(*                                                                         *)
(* One scope, one transporter, no children. A catch-up, or an extend(), is *)
(* a run: a chain of awaits whose steps interleave with realtime events,   *)
(* other runs, the holders of the scope, flushes and restarts. The content *)
(* of a document is the version of its last write; its place in the sort   *)
(* order is its name. Local writes are the module LocalFirst: here every   *)
(* stored document is one the server sent, and ingesting a change is one   *)
(* step. All documents carry versions, whether their route serves deltas   *)
(* or not. A realtime result still being ingested when realtime is closed  *)
(* goes on beside those of the next subscription; here it goes first.      *)
(* stop() does nothing that Restart does not do.                           *)
(***************************************************************************)
EXTENDS Naturals, Sequences, FiniteSets, SequencesExt

CONSTANTS
    Docs,       \* documents, numbered in the order of the scope's sort
    There,      \* those the server holds at first
    Modes,      \* what the scope may declare: [full, always]
    Holders,    \* collections that may hold the scope
    Window,     \* documents of a first load of a window
    PageSize,   \* PAGE
    Overlap,    \* how many versions a delta reaches back
    Slots,      \* CONCURRENT_READS
    EvictAfter, \* days without use after which a scope is dropped
    Ordered,    \* TRUE when versions become visible in the order they are given
    MaxVersion, \* the last version a write may be given
    MaxRuns,    \* runs in a behaviour
    MaxDays,    \* days in a behaviour
    MaxFaults   \* flushes, restarts, lost connections and redeployments

ASSUME DocsAssumption == Docs \subseteq Nat \ {0} /\ IsFiniteSet(Docs) /\ Docs # {}
ASSUME ThereAssumption == There \subseteq Docs \cap 1..MaxVersion /\ There # {}
ASSUME ModesAssumption == Modes \subseteq [full : BOOLEAN, always : BOOLEAN]
ASSUME OrderedAssumption == Ordered \in BOOLEAN
ASSUME SizesAssumption ==
    /\ Window \in Nat \ {0} /\ PageSize \in Nat \ {0} /\ Slots \in Nat \ {0}
    /\ EvictAfter \in Nat /\ Overlap \in Nat
    /\ MaxVersion \in Nat /\ MaxRuns \in Nat /\ MaxDays \in Nat /\ MaxFaults \in Nat

VARIABLES
    config,    \* what the scope declares: full or a window, kept always or not
    server,    \* what reads see: per document its version and whether it is live
    spent,     \* versions that were given to a write
    serves,    \* whether the route serves deltas and tombstones
    device,    \* documents in storage: their version, 0 when absent
    stored,    \* the persisted ScopeMeta: none or one
    meta,      \* scope.meta
    scope,     \* whether the Scope exists, and knows what an earlier session stored
    held,      \* scope.holders
    active,    \* scope.active
    timer,     \* scope.stop_timer is armed
    runs,      \* catch-ups and extends
    used,      \* number of runs so far
    last,      \* the run scope.catching_up stands for, 0 for the restore of the scope
    reads,     \* #reads
    waiting,   \* #waiting
    sub,       \* realtime: off, asked for, on, lost with the connection
    answer,    \* the first answer of the realtime query, due or on its way
    wire,      \* realtime events on their way
    first,     \* nothing came from this realtime query yet (index === 0)
    live,      \* scope.live
    rt,        \* the realtime change that is being ingested
    opening,   \* start(): not run, evicting, over
    evicting,  \* documents #evict still has to delete
    flushing,  \* the storage was emptied, cleared() did not run yet
    faults,    \* faults so far
    day        \* the date

serverVars == <<server, spent, serves>>
scopeVars == <<scope, held, active, timer>>
runVars == <<runs, used, last>>
slotVars == <<reads, waiting>>
realtimeVars == <<sub, answer, wire, first, live>>
sessionVars == <<opening, evicting, flushing, faults>>
syncVars == <<config, serverVars, device, stored, meta, scopeVars, runVars, slotVars, realtimeVars, rt,
              sessionVars, day>>

-----------------------------------------------------------------------------
(* Records *)

Runs == 1..MaxRuns

Persisted == "persisted"  \* the holder start() acquires a scope for

\* `at` is last_used_at; `used` is a history: the day a collection last acquired the scope.
EmptyMeta == [loaded |-> FALSE, complete |-> FALSE, next |-> 0, synced |-> 0, sync |-> FALSE,
              at |-> day, used |-> 0]

NoRun == [phase |-> "none", kind |-> "none", after |-> 0, since |-> 0, cursor |-> 0, count |-> 0,
          more |-> FALSE, says |-> FALSE, page |-> <<>>, seen |-> {},
          old |-> FALSE,        \* history: realtime was opened after it began
          dirty |-> {},         \* history: documents written, or on their way, while it ran
          disturbed |-> FALSE]  \* history: the device was emptied, or another run ran, meanwhile

Nothing == [doc |-> 0, version |-> 0, how |-> "nothing"]

Due == [doc |-> 0, version |-> 0, how |-> "due"]

Ended == {"none", "over"}

Begun == {"waiting", "reading", "answered", "ingesting", "ingested"}

\* Every run that began and is not over, with `f` set to TRUE.
Flag(rs, f) == [r \in Runs |-> IF rs[r].phase \in Begun THEN [rs[r] EXCEPT ![f] = TRUE] ELSE rs[r]]

-----------------------------------------------------------------------------
(* The server *)

\* How realtime tells of a write: a delete as a tombstone or as a removal.
Told(d, version, gone) ==
    {[doc |-> d, version |-> version, how |-> how] :
        how \in IF ~gone THEN {IF server[d].version = 0 THEN "added" ELSE "modified"}
                ELSE IF serves THEN {"removed", "tombstone"} ELSE {"removed"}}

\* A write is committed and published. Inside a transaction its version is the next one of the
\* collection; without, another write may have committed with a later version meanwhile (withVersion).
Write(d, version, gone) ==
    /\ version \notin spent
    /\ Ordered => \A v \in 1..MaxVersion : v \in spent <=> v < version
    /\ IF server[d].version = 0 THEN ~gone ELSE server[d].live
    /\ spent' = spent \cup {version}
    /\ server' = [server EXCEPT ![d] = [version |-> version, live |-> ~gone]]
    /\ runs' = [r \in Runs |-> IF runs[r].phase \in Begun
                               THEN [runs[r] EXCEPT !.dirty = @ \cup {d}] ELSE runs[r]]
    /\ IF sub = "on" THEN \E c \in Told(d, version, gone) : wire' = Append(wire, c) ELSE wire' = wire
    /\ UNCHANGED <<config, serves, device, stored, meta, scopeVars, used, last, slotVars, sub, answer,
                   first, live, rt, sessionVars, day>>

\* The route is deployed again without sync (or never served it, when that is the first step).
Redeploy ==
    /\ serves /\ faults < MaxFaults
    /\ serves' = FALSE
    /\ faults' = faults + 1
    /\ UNCHANGED <<config, server, spent, device, stored, meta, scopeVars, runVars, slotVars,
                   realtimeVars, rt, opening, evicting, flushing, day>>

-----------------------------------------------------------------------------
(* Ingesting a change *)

\* isOlder: a version below the one in storage. A removal has no version.
Ignored(c) == c.how # "removed" /\ c.version < device[c.doc]

\* #ingestRemoteChange, when the document has no local edits.
Stores(c) ==
    device' = [device EXCEPT ![c.doc] =
        IF Ignored(c) \/ (c.how = "modified" /\ @ = 0) THEN @
        ELSE IF c.how \in {"removed", "tombstone"} THEN 0 ELSE c.version]

\* `synced_at` moves to the newest version of what is ingested.
Advanced(m, changes) ==
    [m EXCEPT !.synced = Max({@} \cup {c.version : c \in {e \in Range(changes) : e.how # "removed"}})]

-----------------------------------------------------------------------------
(* Queueing runs, and their reads *)

\* A run is added; `after` is the run it waits for, 0 the restore of the scope, itself for none.
\* A catch-up becomes scope.catching_up, an extend() does not.
Queue(rs, kind, after) ==
    /\ used < MaxRuns
    /\ used' = used + 1
    /\ runs' = [rs EXCEPT ![used + 1] = [NoRun EXCEPT !.phase = "chained", !.kind = kind,
                                                     !.after = after]]
    /\ last' = IF kind = "extend" THEN last ELSE used + 1

\* A plausible bug: the limit is not looked at.
SlotForAnyone(r, run) ==
    /\ reads' = reads + 1 /\ waiting' = waiting
    /\ runs' = [runs EXCEPT ![r] = [run EXCEPT !.phase = "reading"]]

\* #slot: the read starts, or queues up.
SlotFor(r, run) ==
    IF reads < Slots
    THEN /\ reads' = reads + 1 /\ waiting' = waiting
         /\ runs' = [runs EXCEPT ![r] = [run EXCEPT !.phase = "reading"]]
    ELSE /\ reads' = reads /\ waiting' = Append(waiting, r)
         /\ runs' = [runs EXCEPT ![r] = [run EXCEPT !.phase = "waiting"]]

\* Plausible bugs: the woken read is not counted; or a slot is given back only when another waits.
SlotFromUncounted(r, run) ==
    /\ reads' = reads - 1
    /\ waiting' = IF waiting = <<>> THEN waiting ELSE Tail(waiting)
    /\ runs' = [q \in Runs |-> IF q = r THEN run
                              ELSE IF waiting # <<>> /\ q = Head(waiting)
                                   THEN [runs[q] EXCEPT !.phase = "reading"] ELSE runs[q]]

SlotFromLeaks(r, run) ==
    /\ reads' = reads
    /\ waiting' = IF waiting = <<>> THEN waiting ELSE Tail(waiting)
    /\ runs' = [q \in Runs |-> IF q = r THEN run
                              ELSE IF waiting # <<>> /\ q = Head(waiting)
                                   THEN [runs[q] EXCEPT !.phase = "reading"] ELSE runs[q]]

\* The end of #read: the slot is free, and goes to the one that waits longest.
SlotFrom(r, run) ==
    IF waiting = <<>>
    THEN /\ reads' = reads - 1 /\ waiting' = waiting
         /\ runs' = [runs EXCEPT ![r] = run]
    ELSE /\ reads' = reads /\ waiting' = Tail(waiting)
         /\ runs' = [runs EXCEPT ![r] = run, ![Head(waiting)].phase = "reading"]

-----------------------------------------------------------------------------
(* Runs *)

\* What is on its way to the device.
InFlight ==
    {c.doc : c \in {rt} \cup answer \cup Range(wire)
                   \cup UNION {Range(runs[r].page) : r \in Runs}}

\* Which kind of catch-up it is, and from where it reads.
KindOf(run) ==
    IF run.kind = "extend" THEN "extend"
    ELSE IF ~meta.loaded THEN "first"
    ELSE IF meta.sync /\ meta.synced # 0 THEN "delta" ELSE "refresh"

Starting(r) ==
    LET kind == KindOf(runs[r])
    IN  [runs[r] EXCEPT
            !.kind = kind,
            !.since = IF kind = "delta" /\ meta.synced > Overlap THEN meta.synced - Overlap ELSE 0,
            !.cursor = IF kind = "extend" THEN meta.next ELSE 0,
            !.dirty = InFlight,
            !.disturbed = \E o \in Runs \ {r} : runs[o].phase \in Begun /\ runs[o].kind # "extend"]

\* #catchUp and extend() start, when what they were chained to is over. An extend() may end at once.
Begin(r) ==
    LET run == runs[r]
    IN  /\ run.phase = "chained"
        /\ CASE run.after = r -> TRUE
             [] run.after = 0 -> scope = "ready"
             [] OTHER -> runs[run.after].phase \in Ended
        /\ IF run.kind = "extend" /\ (meta.complete \/ meta.next = 0)
           THEN /\ runs' = [runs EXCEPT ![r] = [NoRun EXCEPT !.phase = "over"]]
                /\ UNCHANGED slotVars
           ELSE SlotFor(r, Starting(r))
        /\ UNCHANGED <<config, serverVars, device, stored, meta, scopeVars, used, last, realtimeVars,
                       rt, sessionVars, day>>

\* The server registers a client that reads a scope, but not its further pages, for its events.
Registered == IF sub = "asked" THEN "on" ELSE sub

\* A plausible bug: tombstones are filtered out of the delta.
VisibleAlive(d, delta) == server[d].live

\* #query: a delta sees the tombstones too, when the route serves them.
Visible(d, delta) == server[d].live \/ (delta /\ serves /\ server[d].version # 0)

\* A plausible bug: off by one.
HasNextLate(matching, limit) == matching > limit + 1

\* MongoQuery reads one document more than the limit, to tell whether there is a next page.
HasNext(matching, limit) == matching > limit

\* A read is answered in the order of the sort, or of the versions for a delta.
Key(run, d) == IF run.kind = "delta" THEN server[d].version ELSE d

Matches(run, d) ==
    /\ Key(run, d) > run.cursor
    /\ Visible(d, run.kind = "delta")
    /\ run.kind = "delta" => server[d].version >= run.since

Sorted(run) ==
    LET docs == {d \in Docs : Matches(run, d)}
        place(d) == Cardinality({e \in docs : Key(run, e) <= Key(run, d)})
    IN  [i \in 1..Cardinality(docs) |-> CHOOSE d \in docs : place(d) = i]

Limit(run) ==
    IF run.kind = "first" /\ ~config.full /\ Window - run.count < PageSize
    THEN Window - run.count ELSE PageSize

PageOf(run) ==
    LET sorted == Sorted(run)
    IN  SubSeq(sorted, 1, IF Limit(run) < Len(sorted) THEN Limit(run) ELSE Len(sorted))

Change(d) == [doc |-> d, version |-> server[d].version,
              how |-> IF server[d].live THEN "added" ELSE "tombstone"]

\* The server answers a read.
ServerReads(r) ==
    LET run == runs[r]
        page == PageOf(run)
    IN  /\ run.phase = "reading"
        /\ runs' = [runs EXCEPT ![r] = [run EXCEPT
               !.phase = "answered",
               !.page = [i \in DOMAIN page |-> Change(page[i])],
               !.cursor = IF page = <<>> THEN @ ELSE Key(run, Last(page)),
               !.more = HasNext(Len(Sorted(run)), Limit(run)),
               !.says = serves,
               !.count = IF run.kind = "refresh" THEN @ + PageSize ELSE @ + Len(page)]]
        /\ sub' = IF run.cursor = 0 THEN Registered ELSE sub
        /\ UNCHANGED <<config, serverVars, device, stored, meta, scopeVars, used, last, slotVars,
                       answer, wire, first, live, rt, sessionVars, day>>

\* The answer arrives. It says whether the route serves sync; a delta needs that.
Arrives(r) ==
    LET run == runs[r]
        said == [meta EXCEPT !.sync = run.says]
    IN  /\ run.phase = "answered"
        /\ IF run.kind = "delta" /\ ~run.says
           THEN /\ meta' = said
                /\ SlotFrom(r, [run EXCEPT !.phase = "ingested", !.kind = "refresh", !.page = <<>>,
                                           !.cursor = 0, !.count = 0, !.more = TRUE])
           ELSE /\ meta' = IF run.kind = "extend" THEN said ELSE Advanced(said, run.page)
                /\ SlotFrom(r, [run EXCEPT
                       !.phase = IF run.page = <<>> THEN "ingested" ELSE "ingesting"])
        /\ UNCHANGED <<config, serverVars, device, stored, scopeVars, used, last, realtimeVars, rt,
                       sessionVars, day>>

\* No answer, or an error: the run fails.
ReadFails(r) ==
    /\ runs[r].phase \in {"reading", "answered"}
    /\ SlotFrom(r, [NoRun EXCEPT !.phase = "over"])
    /\ UNCHANGED <<config, serverVars, device, stored, meta, scopeVars, used, last, realtimeVars, rt,
                   sessionVars, day>>

\* One change of the page, or one document a re-read did not see, is written to storage.
Ingest(r) ==
    LET run == runs[r]
        c == Head(run.page)
    IN  /\ run.phase = "ingesting"
        /\ Stores(c)
        /\ runs' = [runs EXCEPT ![r] = [run EXCEPT
               !.page = Tail(@),
               !.seen = IF run.kind = "refresh" /\ ~Ignored(c) THEN @ \cup {c.doc} ELSE @,
               !.phase = IF Len(run.page) = 1 THEN "ingested" ELSE @]]
        /\ UNCHANGED <<config, serverVars, stored, meta, scopeVars, used, last, slotVars, realtimeVars,
                       rt, sessionVars, day>>

\* Whether the loop asks for another page.
Continues(run) ==
    /\ run.more
    /\ CASE run.kind \in {"first", "refresh"} -> config.full \/ run.count < Window
         [] OTHER -> run.kind = "delta"

NextPage(r) ==
    /\ runs[r].phase = "ingested" /\ Continues(runs[r])
    /\ SlotFor(r, runs[r])
    /\ UNCHANGED <<config, serverVars, device, stored, meta, scopeVars, used, last, realtimeVars, rt,
                   sessionVars, day>>

\* A complete re-read lists the stored documents it did not see, to delete them.
Prune(r) ==
    LET run == runs[r]
        gone == SetToSeq({d \in Docs : device[d] # 0 /\ d \notin run.seen})
    IN  /\ run.phase = "ingested" /\ run.kind = "refresh" /\ config.full /\ ~run.more
        /\ runs' = [runs EXCEPT ![r] = [run EXCEPT
               !.kind = "prune",
               !.phase = IF gone = <<>> THEN "ingested" ELSE "ingesting",
               !.page = [i \in DOMAIN gone |-> [doc |-> gone[i], version |-> 0, how |-> "removed"]]]]
        /\ UNCHANGED <<config, serverVars, device, stored, meta, scopeVars, used, last, slotVars,
                       realtimeVars, rt, sessionVars, day>>

\* The run ends: the meta is persisted; after a catch-up, events may move `synced_at`.
Finish(r) ==
    LET run == runs[r]
        ended == IF run.kind \in {"first", "extend"}
                 THEN [meta EXCEPT !.loaded = @ \/ run.kind = "first",
                                   !.next = IF run.more THEN run.cursor ELSE 0,
                                   !.complete = ~run.more]
                 ELSE meta
    IN  /\ run.phase = "ingested" /\ ~Continues(run)
        /\ ~(run.kind = "refresh" /\ config.full)
        /\ meta' = ended
        /\ stored' = {ended}
        /\ runs' = [runs EXCEPT ![r] = [NoRun EXCEPT !.phase = "over"]]
        /\ live' = IF run.kind = "extend" THEN live ELSE sub # "off"
        /\ UNCHANGED <<config, serverVars, device, scopeVars, used, last, slotVars, sub, answer, wire,
                       first, rt, sessionVars, day>>

-----------------------------------------------------------------------------
(* Realtime *)

\* #openRealtime.
Opened ==
    /\ sub' = "asked" /\ answer' = {Due} /\ wire' = <<>> /\ first' = TRUE /\ live' = FALSE

\* The query itself is answered: one document, none, or an error.
Answered ==
    /\ Due \in answer
    /\ LET docs == {d \in Docs : server[d].live}
       IN  \/ answer' = {} /\ first' = FALSE
           \/ \E d \in docs : /\ \A e \in docs : d <= e
                              /\ answer' = {[doc |-> d, version |-> server[d].version, how |-> "added"]}
                              /\ first' = first
    /\ sub' = Registered
    /\ UNCHANGED <<config, serverVars, device, stored, meta, scopeVars, runVars, slotVars, wire, live,
                   rt, sessionVars, day>>

\* A result of the realtime query starts to be ingested; concatMap takes one after the other.
RtTake ==
    /\ rt = Nothing
    /\ \E c \in (answer \ {Due}) \cup (IF wire = <<>> THEN {} ELSE {Head(wire)}) :
        /\ IF c \in answer THEN answer' = {} /\ wire' = wire ELSE answer' = answer /\ wire' = Tail(wire)
        /\ rt' = c
        /\ meta' = IF ~first /\ live THEN Advanced(meta, <<c>>) ELSE meta
    /\ first' = FALSE
    /\ UNCHANGED <<config, serverVars, device, stored, scopeVars, runVars, slotVars, sub, live,
                   sessionVars, day>>

\* It is stored, and the meta persisted.
RtStore ==
    /\ rt # Nothing
    /\ Stores(rt)
    /\ stored' = {meta}
    /\ rt' = Nothing
    /\ UNCHANGED <<config, serverVars, meta, scopeVars, runVars, slotVars, realtimeVars, sessionVars,
                   day>>

\* The connection is lost, and the events with it.
Drop ==
    /\ sub \in {"asked", "on"} /\ faults < MaxFaults
    /\ sub' = "lost"
    /\ wire' = <<>>
    /\ faults' = faults + 1
    /\ UNCHANGED <<config, serverVars, device, stored, meta, scopeVars, runVars, slotVars, answer, first,
                   live, rt, opening, evicting, flushing, day>>

\* reconnected(): realtime is opened again, and a catch-up queued.
Reconnected ==
    /\ sub = "lost"
    /\ Opened
    /\ Queue(Flag(runs, "old"), "catchup", last)
    /\ UNCHANGED <<config, serverVars, device, stored, meta, scopeVars, slotVars, rt, sessionVars, day>>

-----------------------------------------------------------------------------
(* The scope and its holders *)

\* A plausible bug: the timer of the last release is left running.
AcquiresLate(h) ==
    /\ scope' = IF scope = "none" THEN "restoring" ELSE scope
    /\ held' = held \cup {h}
    /\ meta' = IF h = Persisted THEN meta ELSE [meta EXCEPT !.at = day, !.used = day]
    /\ timer' = timer
    /\ active' = TRUE
    /\ IF active THEN UNCHANGED <<realtimeVars, runVars>>
       ELSE /\ Opened
            /\ Queue(Flag(runs, "old"), "catchup", last)

\* acquire() and #activate. Using a scope dates its meta, resuming it does not.
Acquires(h) ==
    /\ scope' = IF scope = "none" THEN "restoring" ELSE scope
    /\ held' = held \cup {h}
    /\ meta' = IF h = Persisted THEN meta ELSE [meta EXCEPT !.at = day, !.used = day]
    /\ timer' = FALSE
    /\ active' = TRUE
    /\ IF active THEN UNCHANGED <<realtimeVars, runVars>>
       ELSE /\ Opened
            /\ Queue(Flag(runs, "old"), "catchup", last)

Acquire(h) ==
    /\ h \notin held
    /\ Acquires(h)
    /\ UNCHANGED <<config, serverVars, device, stored, slotVars, rt, sessionVars, day>>

\* What storage.get returns for the scope takes the place of its meta.
FromStorage(m) == [m EXCEPT !.used = IF meta.used > @ THEN meta.used ELSE @]

Restored ==
    /\ scope = "restoring"
    /\ scope' = "ready"
    /\ meta' = IF stored = {} THEN meta ELSE FromStorage(CHOOSE m \in stored : TRUE)
    /\ UNCHANGED <<config, serverVars, device, stored, held, active, timer, runVars, slotVars,
                   realtimeVars, rt, sessionVars, day>>

\* The last holder leaves: a timer is armed, unless the scope is kept always.
Release(h) ==
    /\ h \in held \ {Persisted}
    /\ held' = held \ {h}
    /\ timer' = (held' = {} /\ ~config.always)
    /\ UNCHANGED <<config, serverVars, device, stored, meta, scope, active, runVars, slotVars,
                   realtimeVars, rt, sessionVars, day>>

\* The timer fires: #deactivate.
KeepEnds ==
    /\ timer
    /\ timer' = FALSE
    /\ IF held # {} THEN UNCHANGED <<active, sub, answer, wire>>
       ELSE active' = FALSE /\ sub' = "off" /\ answer' = {} /\ wire' = <<>>
    /\ UNCHANGED <<config, serverVars, device, stored, meta, scope, held, runVars, slotVars, first, live,
                   rt, sessionVars, day>>

\* A collection scrolled past what the device holds.
Extend ==
    /\ scope # "none"
    /\ Queue(runs, "extend", last)
    /\ UNCHANGED <<config, serverVars, device, stored, meta, scopeVars, slotVars, realtimeVars, rt,
                   sessionVars, day>>

-----------------------------------------------------------------------------
(* Sessions *)

\* start(): a scope of an earlier session is dropped when it is stale, resumed when kept always.
Start ==
    LET stale == \E m \in stored : day - m.at > EvictAfter
    IN  /\ opening = "no"
        /\ opening' = IF stale THEN "evicting" ELSE "over"
        /\ evicting' = IF stale THEN {d \in Docs : device[d] # 0} ELSE {}
        /\ IF stored # {} /\ ~stale /\ config.always THEN Acquires(Persisted)
           ELSE UNCHANGED <<meta, scopeVars, realtimeVars, runVars>>
        /\ UNCHANGED <<config, serverVars, device, stored, slotVars, rt, flushing, faults, day>>

\* #evict: the documents, then the meta.
Evict(d) ==
    /\ d \in evicting
    /\ evicting' = evicting \ {d}
    /\ device' = [device EXCEPT ![d] = 0]
    /\ runs' = Flag(runs, "disturbed")
    /\ UNCHANGED <<config, serverVars, stored, meta, scopeVars, used, last, slotVars, realtimeVars, rt,
                   opening, flushing, faults, day>>

Evicted ==
    /\ opening = "evicting" /\ evicting = {}
    /\ opening' = "over"
    /\ stored' = {}
    /\ UNCHANGED <<config, serverVars, device, meta, scopeVars, runVars, slotVars, realtimeVars, rt,
                   evicting, flushing, faults, day>>

\* LivequeryClient.flush() empties the storage, then calls cleared().
FlushStorage ==
    /\ ~flushing /\ faults < MaxFaults
    /\ flushing' = TRUE
    /\ faults' = faults + 1
    /\ device' = [d \in Docs |-> 0]
    /\ stored' = {}
    /\ runs' = Flag(runs, "disturbed")
    /\ UNCHANGED <<config, serverVars, meta, scopeVars, used, last, slotVars, realtimeVars, rt, opening,
                   evicting, day>>

Cleared ==
    /\ flushing
    /\ flushing' = FALSE
    /\ meta' = EmptyMeta
    /\ IF active THEN Queue(runs, "catchup", used + 1) ELSE UNCHANGED runVars
    /\ UNCHANGED <<config, serverVars, device, stored, scopeVars, slotVars, realtimeVars, rt, opening,
                   evicting, faults, day>>

\* The page is closed and opened again: storage is all that is left.
Restart ==
    /\ faults < MaxFaults
    /\ faults' = faults + 1
    /\ meta' = EmptyMeta
    /\ scope' = "none" /\ held' = {} /\ active' = FALSE /\ timer' = FALSE
    /\ runs' = [r \in Runs |-> NoRun] /\ used' = used /\ last' = 0
    /\ reads' = 0 /\ waiting' = <<>>
    /\ sub' = "off" /\ answer' = {} /\ wire' = <<>> /\ first' = FALSE /\ live' = FALSE
    /\ rt' = Nothing
    /\ opening' = "no" /\ evicting' = {} /\ flushing' = FALSE
    /\ UNCHANGED <<config, serverVars, device, stored, day>>

DayPasses ==
    /\ opening = "over" /\ day < MaxDays
    /\ day' = day + 1
    /\ UNCHANGED <<config, serverVars, device, stored, meta, scopeVars, runVars, slotVars, realtimeVars,
                   rt, sessionVars>>

-----------------------------------------------------------------------------
(* Specification *)

SyncInit ==
    /\ config \in Modes
    /\ day = 0
    /\ server = [d \in Docs |-> IF d \in There THEN [version |-> d, live |-> TRUE]
                                ELSE [version |-> 0, live |-> FALSE]]
    /\ spent = There
    /\ serves = TRUE
    /\ device = [d \in Docs |-> 0]
    /\ stored = {}
    /\ meta = EmptyMeta
    /\ scope = "none" /\ held = {} /\ active = FALSE /\ timer = FALSE
    /\ runs = [r \in Runs |-> NoRun] /\ used = 0 /\ last = 0
    /\ reads = 0 /\ waiting = <<>>
    /\ sub = "off" /\ answer = {} /\ wire = <<>> /\ first = FALSE /\ live = FALSE
    /\ rt = Nothing
    /\ opening = "no" /\ evicting = {} /\ flushing = FALSE
    /\ faults = 0

Step(r) ==
    \/ Begin(r) \/ ServerReads(r) \/ Arrives(r) \/ ReadFails(r)
    \/ Ingest(r) \/ NextPage(r) \/ Prune(r) \/ Finish(r)

SyncNext ==
    \/ \E d \in Docs, version \in 1..MaxVersion, gone \in BOOLEAN : Write(d, version, gone)
    \/ Redeploy
    \/ \E r \in Runs : Step(r)
    \/ Answered \/ RtTake \/ RtStore \/ Drop \/ Reconnected
    \/ \E h \in Holders : Acquire(h)
    \/ \E h \in Holders : Release(h)
    \/ Restored \/ KeepEnds \/ Extend
    \/ Start \/ \E d \in Docs : Evict(d)
    \/ Evicted \/ FlushStorage \/ Cleared \/ Restart \/ DayPasses

\* A read is answered or fails (RestTransporter aborts it after 30 s), and awaits go on.
SyncSpec ==
    /\ SyncInit /\ [][SyncNext]_syncVars
    /\ \A r \in Runs : WF_syncVars(Step(r))
    /\ WF_syncVars(Restored)

-----------------------------------------------------------------------------
(* Properties *)

\* The kind and the phase of every run, and what the meta and the slots count, are possible ones.
SyncTypeOK ==
    /\ server \in [Docs -> [version : 0..MaxVersion, live : BOOLEAN]]
    /\ device \in [Docs -> 0..MaxVersion]
    /\ meta \in [loaded : BOOLEAN, complete : BOOLEAN, next : Docs \cup {0}, synced : 0..MaxVersion,
                 sync : BOOLEAN, at : 0..MaxDays, used : 0..MaxDays]
    /\ stored = {} \/ \E m \in stored : stored = {m} /\ DOMAIN m = DOMAIN meta
    /\ scope \in {"none", "restoring", "ready"} /\ held \subseteq Holders \cup {Persisted}
    /\ active \in BOOLEAN /\ timer \in BOOLEAN
    /\ used \in 0..MaxRuns /\ last \in 0..used /\ faults \in 0..MaxFaults
    /\ \A r \in Runs : /\ runs[r].phase \in Ended \cup Begun \cup {"chained"}
                       /\ runs[r].kind \in {"none", "catchup", "extend", "first", "delta", "refresh",
                                            "prune"}
                       /\ runs[r].after \in 0..r
                       /\ r > used => runs[r] = NoRun
    /\ reads \in 0..Slots /\ waiting \in Seq(Runs)
    /\ sub \in {"off", "asked", "on", "lost"} /\ live \in BOOLEAN
    /\ opening \in {"no", "evicting", "over"} /\ evicting \subseteq Docs /\ flushing \in BOOLEAN

\* #slot and #read: as many reads as are counted, never more than CONCURRENT_READS; every queued run
\* waits for a slot, once, and none waits while a slot is free.
SlotsKept ==
    /\ reads = Cardinality({r \in Runs : runs[r].phase \in {"reading", "answered"}})
    /\ reads <= Slots
    /\ Range(waiting) = {r \in Runs : runs[r].phase = "waiting"}
    /\ IsInjective(waiting)
    /\ waiting # <<>> => reads = Slots

\* acquire(), #release and the timer: whoever holds a scope finds it active, and listening; a scope
\* nobody uses any more does not listen.
HeldIsActive ==
    /\ held # {} => active /\ ~timer
    /\ active <=> sub # "off"
    /\ active => held # {} \/ timer \/ config.always

\* A catch-up that succeeds did its work: of the documents nobody wrote to, or sent, while it ran, the
\* device holds the version of the server. A delta has every document from its start on, with the
\* deletes; a re-read of a full scope has them all; a first load, or a re-read of a window, has the live
\* ones it reached. (Unless the device was emptied, or another catch-up ran, meanwhile.)
CatchesUp ==
    [][\A r \in Runs :
        LET run == runs[r]
            reached(d) ==
                CASE run.kind = "delta" -> server[d].version >= run.since /\ server[d].version # 0
                  [] run.kind = "prune" -> TRUE
                  [] OTHER -> server[d].live /\ (~run.more \/ d <= run.cursor)
        IN  run.phase = "ingested" /\ runs'[r].phase = "over" /\ run.kind # "extend" /\ ~run.disturbed
            => \A d \in Docs \ run.dirty :
                  reached(d) => device'[d] = IF server[d].live THEN server[d].version ELSE 0
      ]_syncVars

\* completeness() and the window: from the first catch-up on, as long as nothing was flushed, lost or
\* restarted and realtime was not closed, every document up to where extend() goes on, or every one when the
\* scope is complete, is on the device, or an event on its way adds it.
HeldAsTold ==
    faults = 0 /\ last = 1 /\ sub = "on" /\ meta.loaded
    => \A d \in Docs : server[d].live /\ (meta.complete \/ d <= meta.next)
          => device[d] # 0 \/ \E c \in {rt} \cup answer \cup Range(wire) : c.doc = d /\ c.how = "added"

\* The scope is well formed, and what it says of itself is true of the device.
SyncInv == SyncTypeOK /\ HeldAsTold

\* A catch-up, or an extend(), that was asked for ends, however many wait for the slots.
EveryRunEnds ==
    \A r \in Runs : runs[r].phase = "chained" ~> runs[r].phase \in Ended

\* "Off from the moment realtime (re)opens until a catch-up completes" (LivequerySync.ts:84): events
\* may not move `synced_at` on account of a catch-up that began before.
LiveIsCaughtUp ==
    [][~live /\ live' => \E r \in Runs : runs[r].phase = "ingested" /\ runs'[r].phase = "over"
                                           /\ ~runs[r].old]_syncVars

\* The same of every later catch-up, once nothing is on its way and `live` says that one completed.
HeldSinceLive ==
    /\ faults = 0 /\ live /\ sub = "on" /\ meta.loaded
    /\ InFlight = {0} /\ \A r \in Runs : runs[r].phase \in Ended
    => \A d \in Docs : server[d].live /\ (meta.complete \/ d <= meta.next) => device[d] # 0

\* The next delta starts from `synced_at` less the overlap, because the device has all there was before:
\* when nothing is on its way, a full scope that listens misses no older change.
NothingSkipped ==
    /\ config.full /\ sub = "on" /\ meta.loaded /\ meta.sync /\ serves
    /\ InFlight = {0} /\ \A r \in Runs : runs[r].phase \in Ended
    /\ opening # "evicting" /\ ~flushing
    => \A d \in Docs : server[d].live /\ server[d].version + Overlap < meta.synced
                       => device[d] = server[d].version

\* "Scopes unused for `evict` lose their local copy" (LivequerySync.ts:139): one that a collection acquired
\* since then does not, provided that what the session knew was persisted.
UsedIsKept ==
    [][opening = "no" /\ opening' = "evicting" => \A m \in stored : day - m.used > EvictAfter]_syncVars
=============================================================================
