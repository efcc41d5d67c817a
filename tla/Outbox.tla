------------------------------- MODULE Outbox -------------------------------
(***************************************************************************)
(* The durable write queue of a local-first client:                        *)
(* packages/client/src/LivequeryOutbox.ts.                                 *)
(*                                                                         *)
(* JavaScript runs one callback at a time, so a step here is the code      *)
(* between two awaits, and everything else may happen between two steps.   *)
(* Three kinds of activity interleave:                                     *)
(*   - calls of enqueue(), one member of Calls each;                       *)
(*   - the drain loop, of which at most one runs;                          *)
(*   - the environment: start(), stop(), trigger(), timers, the flush of   *)
(*     the storage, another browser context on the same storage, a crash.  *)
(* What an entry does when it is sent (#execute of LivequeryClient) is a   *)
(* free choice of outcome here; LocalFirst.tla says what it is.            *)
(***************************************************************************)
EXTENDS Naturals, Sequences, FiniteSets

CONSTANTS
    Calls,         \* calls of enqueue() made during a behaviour
    Docs,          \* what #coalesce compares: (transporter, collection, document)
    Confirm,       \* the serialized job that removes a sent entry
    Shared,        \* TRUE when other contexts (tabs) use the same storage
    MaxAttempts,   \* attempts is counted up to here
    MaxCrashes,    \* crashes in a behaviour
    MaxFlushes     \* flushes of the storage in a behaviour

Ops == {"add", "update", "delete"}

ASSUME ConfirmAssumption == Confirm \notin Calls
ASSUME SharedAssumption == Shared \in BOOLEAN
ASSUME BoundsAssumption ==
    /\ MaxAttempts \in Nat \ {0}
    /\ MaxCrashes \in Nat
    /\ MaxFlushes \in Nat

VARIABLES
    outbox,     \* durable: the set of entries under LIVEQUERY_OUTBOX_REF
    nextId,     \* durable: ids are uuidv7, so they grow
    serial,     \* #serial: jobs chained by #serialize; the head is running
    call,       \* per call of enqueue(): where it is and what it decided
    outcome,    \* per call: how the promise it awaits was settled
    loop,       \* where #drain / #loop is
    head,       \* `head` of #loop (a stale copy of the stored entry)
    result,     \* `result` of #loop, between execute and the confirmation
    inflight,   \* #inflight
    again, stalled, started, stopped,
    timer,      \* a backoff timer is armed
    elsewhere,  \* another context holds the drain lock
    sending,    \* #inflight of that context, which this one cannot see
    flushing,   \* flush() emptied the storage and cleared() did not run yet
    carried,    \* history: calls whose write an execution started after them read
    crashes, flushes

durable == <<outbox, nextId>>
callVars == <<serial, call, outcome>>
loopVars == <<loop, head, result, inflight, again, stalled, timer>>
lifeVars == <<started, stopped, crashes>>
flushVars == <<flushing, flushes>>
otherVars == <<elsewhere, sending>>
vars == <<durable, callVars, loopVars, lifeVars, flushVars, otherVars, carried>>

-----------------------------------------------------------------------------
(* Data *)

NoEntry == [id |-> 0, op |-> "none", doc |-> "none", attempts |-> 0]

Entry == [id : Nat \ {0}, op : Ops, doc : Docs, attempts : 0..MaxAttempts]

CallPhases == {"new", "queued", "reading", "dropping", "adding", "decided",
               "recorded", "reporting", "waiting", "lost"}

NoCall == [phase |-> "new", op |-> "none", doc |-> "none", unsynced |-> FALSE,
           seen |-> NoEntry, drop |-> {}, hadAdd |-> FALSE,
           target |-> 0, created |-> FALSE]

LoopPhases == {"off", "locking", "busy", "reading", "got", "executing",
               "confirming", "retrying", "reporting", "ending"}

\* Mutant of Oldest: the sort is the wrong way round.
Newest(S) == {e \in S : \A f \in S : f.id <= e.id}

\* pending()[0]: entries sort by id.
Oldest(S) == {e \in S : \A f \in S : e.id <= f.id}

Without(S, i) == {e \in S : e.id # i}

\* A call whose waiter is registered in #waiters and not settled.
Waits(c) ==
    /\ call[c].phase \in {"recorded", "reporting", "waiting"}
    /\ call[c].target # 0
    /\ outcome[c] = "none"

\* Mutants of Settled: folded calls are forgotten; the ids are ignored.
SettledCreators(ids, status) ==
    [c \in Calls |-> IF Waits(c) /\ call[c].created /\ call[c].target \in ids
                     THEN status ELSE outcome[c]]
SettledRegardless(ids, status) ==
    [c \in Calls |-> IF Waits(c) THEN status ELSE outcome[c]]

\* Mutant of AllSettled: folded calls are forgotten.
CreatorsSettled(status) ==
    [c \in Calls |-> IF Waits(c) /\ call[c].created THEN status ELSE outcome[c]]

\* #settle of the entries with these ids, and #settleAll.
Settled(ids, status) ==
    [c \in Calls |-> IF Waits(c) /\ call[c].target \in ids THEN status ELSE outcome[c]]
AllSettled(status) ==
    [c \in Calls |-> IF Waits(c) THEN status ELSE outcome[c]]

Running == loop # "off"

\* Mutant of Trigger: a trigger during a drain is forgotten.
TriggerUnlessRunning ==
    /\ UNCHANGED again
    /\ IF ~started \/ stopped \/ Running
       THEN UNCHANGED <<loop, timer>>
       ELSE loop' = "locking" /\ timer' = FALSE

\* trigger(), called by a step that leaves `loop`, `again` and `timer` alone.
Trigger ==
    IF ~started \/ stopped
    THEN UNCHANGED <<loop, again, timer>>
    ELSE /\ timer' = FALSE
         /\ IF Running
            THEN again' = TRUE /\ loop' = loop
            ELSE loop' = "locking" /\ again' = again

-----------------------------------------------------------------------------
(* enqueue() and #coalesce *)

\* enqueue() is called; its job joins the chain. A document is `unsynced` only
\* for an update or a delete (LivequeryClient.#enqueue).
Enqueue(c, op, d, unsynced) ==
    /\ call[c].phase = "new"
    /\ op = "add" => ~unsynced
    /\ call' = [call EXCEPT ![c] =
                    [NoCall EXCEPT !.phase = "queued", !.op = op, !.doc = d,
                                   !.unsynced = unsynced]]
    /\ serial' = Append(serial, c)
    /\ UNCHANGED <<durable, outcome, loopVars, lifeVars, flushVars, otherVars, carried>>

AtHead(c) == serial # <<>> /\ Head(serial) = c

\* The job starts: it captures #inflight, then awaits pending().
StartJob(c) ==
    /\ AtHead(c)
    /\ call[c].phase = "queued"
    /\ call' = [call EXCEPT ![c] = [@ EXCEPT !.phase = "reading", !.seen = inflight]]
    /\ UNCHANGED <<durable, serial, outcome, loopVars, lifeVars, flushVars, otherVars, carried>>

\* Unsent entries of the same document.
Same(c) == {e \in outbox : e.doc = call[c].doc /\ e.id # call[c].seen.id}
Foldable(c) == {e \in Same(c) : e.op \in {"add", "update"}}
AddingNow(c) == call[c].seen.op = "add" /\ call[c].seen.doc = call[c].doc
\* The server never heard of the document and is not hearing of it now.
OnlyLocal(c) == call[c].unsynced /\ ~AddingNow(c)

\* The job is done without an entry to wait for.
DecideDone(c) ==
    /\ call' = [call EXCEPT ![c].phase = "decided"]
    /\ outcome' = [outcome EXCEPT ![c] = "done"]

\* pending() answered: fold, do nothing, start dropping, or add an entry.
Decide(c) ==
    /\ AtHead(c)
    /\ call[c].phase = "reading"
    /\ \/ /\ call[c].op = "update"
          /\ \E e \in Oldest(Foldable(c)) :
                call' = [call EXCEPT ![c] = [@ EXCEPT !.phase = "decided", !.target = e.id]]
          /\ UNCHANGED outcome
       \/ /\ call[c].op = "update" /\ Foldable(c) = {} /\ OnlyLocal(c)
          /\ DecideDone(c)
       \/ /\ call[c].op = "delete"
          /\ call' = [call EXCEPT ![c] = [@ EXCEPT
                         !.phase = "dropping",
                         !.drop = {e.id : e \in Same(c)},
                         !.hadAdd = \E e \in Same(c) : e.op = "add"]]
          /\ UNCHANGED outcome
       \/ /\ \/ call[c].op = "add"
             \/ call[c].op = "update" /\ Foldable(c) = {} /\ ~OnlyLocal(c)
          /\ call' = [call EXCEPT ![c].phase = "adding"]
          /\ UNCHANGED outcome
    /\ UNCHANGED <<durable, serial, loopVars, lifeVars, flushVars, otherVars, carried>>

\* A delete drops the unsent entries of its document one await at a time.
Drop(c) ==
    /\ AtHead(c)
    /\ call[c].phase = "dropping"
    /\ \E i \in call[c].drop :
          /\ \A j \in call[c].drop : i <= j
          /\ outbox' = Without(outbox, i)
          /\ call' = [call EXCEPT ![c].drop = @ \ {i}]
          /\ outcome' = Settled({i}, "done")
    /\ UNCHANGED <<nextId, serial, loopVars, lifeVars, flushVars, otherVars, carried>>

EndDrops(c) ==
    /\ AtHead(c)
    /\ call[c].phase = "dropping"
    /\ call[c].drop = {}
    /\ IF call[c].hadAdd \/ OnlyLocal(c)
       THEN DecideDone(c)
       ELSE call' = [call EXCEPT ![c].phase = "adding"] /\ UNCHANGED outcome
    /\ UNCHANGED <<durable, serial, loopVars, lifeVars, flushVars, otherVars, carried>>

\* storage.add of the new entry.
AddEntry(c) ==
    /\ AtHead(c)
    /\ call[c].phase = "adding"
    /\ outbox' = outbox \cup
         {[id |-> nextId, op |-> call[c].op, doc |-> call[c].doc, attempts |-> 0]}
    /\ nextId' = nextId + 1
    /\ call' = [call EXCEPT ![c] = [@ EXCEPT !.phase = "decided", !.target = nextId,
                                               !.created = TRUE]]
    /\ UNCHANGED <<serial, outcome, loopVars, lifeVars, flushVars, otherVars, carried>>

\* The job ends: the waiter is registered, the next job may start.
EndJob(c) ==
    /\ AtHead(c)
    /\ call[c].phase = "decided"
    /\ call' = [call EXCEPT ![c] = [@ EXCEPT !.phase = "recorded", !.seen = NoEntry,
                                               !.hadAdd = FALSE]]
    /\ serial' = Tail(serial)
    /\ UNCHANGED <<durable, outcome, loopVars, lifeVars, flushVars, otherVars, carried>>

\* enqueue() goes on after its job: return, report a stalled write, or trigger.
Resume(c) ==
    /\ call[c].phase = "recorded"
    /\ \/ /\ call[c].target = 0
          /\ call' = [call EXCEPT ![c].phase = "waiting"]
          /\ UNCHANGED <<outcome, loop, again, timer>>
       \/ /\ call[c].target # 0 /\ stalled /\ call[c].created
          /\ call' = [call EXCEPT ![c].phase = "reporting"]
          /\ UNCHANGED <<outcome, loop, again, timer>>
       \/ /\ call[c].target # 0 /\ stalled /\ ~call[c].created
          /\ call' = [call EXCEPT ![c].phase = "waiting"]
          /\ outcome' = Settled({call[c].target}, "queued")
          /\ Trigger
       \/ /\ call[c].target # 0 /\ ~stalled
          /\ call' = [call EXCEPT ![c].phase = "waiting"]
          /\ UNCHANGED outcome
          /\ Trigger
    /\ UNCHANGED <<durable, serial, head, result, inflight, stalled,
                   lifeVars, flushVars, otherVars, carried>>

\* onQueued answered: settle as queued, then trigger.
Reported(c) ==
    /\ call[c].phase = "reporting"
    /\ call' = [call EXCEPT ![c].phase = "waiting"]
    /\ outcome' = Settled({call[c].target}, "queued")
    /\ Trigger
    /\ UNCHANGED <<durable, serial, head, result, inflight, stalled,
                   lifeVars, flushVars, otherVars, carried>>

-----------------------------------------------------------------------------
(* #drain and #loop *)

\* Mutant of Schedule: the backoff timer is not armed.
ScheduleNothing == UNCHANGED timer

\* #schedule
Schedule == timer' = (IF stopped THEN timer ELSE TRUE)

LockGranted ==
    /\ loop = "locking" /\ ~elsewhere
    /\ loop' = IF stopped THEN "ending" ELSE "reading"
    /\ UNCHANGED <<durable, callVars, head, result, inflight, again, stalled, timer,
                   lifeVars, flushVars, otherVars, carried>>

LockBusy ==
    /\ loop = "locking" /\ elsewhere
    /\ loop' = "busy"
    /\ UNCHANGED <<durable, callVars, head, result, inflight, again, stalled, timer,
                   lifeVars, flushVars, otherVars, carried>>

\* Another context holds the queue: everyone waiting is told so.
GiveUp ==
    /\ loop = "busy"
    /\ loop' = "ending"
    /\ outcome' = AllSettled("queued")
    /\ Schedule
    /\ UNCHANGED <<durable, serial, call, head, result, inflight, again, stalled,
                   lifeVars, flushVars, otherVars, carried>>

\* The read of `await this.pending()`; the loop goes on with what it saw.
LoopRead ==
    /\ loop = "reading"
    /\ loop' = "got"
    /\ \/ outbox = {} /\ head' = NoEntry
       \/ head' \in Oldest(outbox)
    /\ UNCHANGED <<durable, callVars, result, inflight, again, stalled, timer,
                   lifeVars, flushVars, otherVars, carried>>

LoopIdle ==
    /\ loop = "got" /\ head = NoEntry
    /\ stalled' = FALSE
    /\ loop' = "ending"
    /\ UNCHANGED <<durable, callVars, head, result, inflight, again, timer,
                   lifeVars, flushVars, otherVars, carried>>

\* The calls whose local write an execution for this document finds in storage:
\* a mutation writes the document before it calls enqueue().
WrittenFor(d) == {c \in Calls : call[c].phase # "new" /\ call[c].doc = d}

\* execute(head) is called; it reads the document's local state from here on.
LoopExecute ==
    /\ loop = "got" /\ head # NoEntry
    /\ inflight' = head
    /\ loop' = "executing"
    /\ carried' = carried \cup WrittenFor(head.doc)
    /\ UNCHANGED <<durable, callVars, head, result, again, stalled, timer,
                   lifeVars, flushVars, otherVars>>

\* The entry reached the server, was refused for good, or execute threw.
ExecuteEnds(status) ==
    /\ loop = "executing"
    /\ result' = status
    /\ inflight' = NoEntry
    /\ loop' = "confirming"
    /\ serial' = Append(serial, Confirm)
    /\ UNCHANGED <<durable, call, outcome, head, again, stalled, timer,
                   lifeVars, flushVars, otherVars, carried>>

\* The serialized confirmation: remove the entry, release its waiters.
ConfirmHead ==
    /\ loop = "confirming"
    /\ AtHead(Confirm)
    /\ serial' = Tail(serial)
    /\ outbox' = Without(outbox, head.id)
    /\ stalled' = FALSE
    /\ outcome' = Settled({head.id}, result)
    /\ loop' = IF stopped THEN "ending" ELSE "reading"
    /\ head' = NoEntry /\ result' = "none"
    /\ UNCHANGED <<nextId, call, inflight, again, timer,
                   lifeVars, flushVars, otherVars, carried>>

\* A retryable failure: the entry stays and the queue stalls.
ExecuteRetries ==
    /\ loop = "executing"
    /\ inflight' = NoEntry
    /\ loop' = "retrying"
    /\ UNCHANGED <<durable, callVars, head, result, again, stalled, timer,
                   lifeVars, flushVars, otherVars, carried>>

MoreAttempts(n) == IF n < MaxAttempts THEN n + 1 ELSE n

PersistRetry ==
    /\ loop = "retrying"
    /\ outbox' = {IF e.id = head.id
                  THEN [e EXCEPT !.attempts = MoreAttempts(head.attempts)]
                  ELSE e : e \in outbox}
    /\ stalled' = TRUE
    /\ loop' = "reporting"
    /\ UNCHANGED <<nextId, callVars, head, result, inflight, again, timer,
                   lifeVars, flushVars, otherVars, carried>>

RetryReported ==
    /\ loop = "reporting"
    /\ outcome' = AllSettled("queued")
    /\ Schedule
    /\ loop' = "ending"
    /\ head' = NoEntry
    /\ UNCHANGED <<durable, serial, call, result, inflight, again, stalled,
                   lifeVars, flushVars, otherVars, carried>>

\* The `finally` of trigger(): a trigger that came meanwhile starts over.
LoopEnd ==
    /\ loop = "ending"
    /\ again' = FALSE
    /\ IF again /\ started /\ ~stopped
       THEN loop' = "locking" /\ timer' = FALSE
       ELSE loop' = "off" /\ UNCHANGED timer
    /\ UNCHANGED <<durable, callVars, head, result, inflight, stalled,
                   lifeVars, flushVars, otherVars, carried>>

-----------------------------------------------------------------------------
(* The rest of the client, other contexts, and crashes *)

Start ==
    /\ ~started /\ ~stopped
    /\ started' = TRUE
    /\ timer' = FALSE
    /\ IF Running THEN again' = TRUE /\ loop' = loop
                  ELSE loop' = "locking" /\ again' = again
    /\ UNCHANGED <<durable, callVars, head, result, inflight, stalled, stopped, crashes,
                   flushVars, otherVars, carried>>

Stop ==
    /\ ~stopped
    /\ stopped' = TRUE
    /\ timer' = FALSE
    /\ outcome' = AllSettled("queued")
    /\ UNCHANGED <<durable, serial, call, loop, head, result, inflight, again, stalled,
                   started, crashes, flushVars, otherVars, carried>>

\* The backoff ends, the browser is online again, a transporter reconnects,
\* or the application calls trigger().
Wake ==
    /\ started /\ ~stopped
    /\ Trigger
    /\ UNCHANGED <<durable, callVars, head, result, inflight, stalled,
                   lifeVars, flushVars, otherVars, carried>>

TimerFires ==
    /\ timer
    /\ Wake

\* flush(): the storage is emptied first, cleared() runs after that await.
Flush ==
    /\ flushes < MaxFlushes
    /\ ~flushing
    /\ flushes' = flushes + 1
    /\ flushing' = TRUE
    /\ outbox' = {}
    /\ UNCHANGED <<nextId, callVars, loopVars, lifeVars, otherVars, carried>>

Cleared ==
    /\ flushing
    /\ flushing' = FALSE
    /\ stalled' = FALSE
    /\ outcome' = AllSettled("failed")
    /\ UNCHANGED <<durable, serial, call, loop, head, result, inflight, again, timer,
                   lifeVars, flushes, otherVars, carried>>

\* Mutant of HoldsLock: the lock is released before the entry is executed.
HoldsLockToRead == loop \in {"reading", "got"}

\* Another context drains the same queue while it holds the lock. This one
\* holds the lock from "reading" to the end of its loop.
HoldsLock == loop \in {"reading", "got", "executing", "confirming", "retrying", "reporting"}

OtherTakesLock ==
    /\ Shared /\ ~elsewhere /\ ~HoldsLock
    /\ elsewhere' = TRUE
    /\ UNCHANGED <<durable, callVars, loopVars, lifeVars, flushVars, sending, carried>>

OtherExecutes ==
    /\ elsewhere /\ sending = NoEntry
    /\ sending' \in Oldest(outbox)
    /\ carried' = carried \cup WrittenFor(sending'.doc)
    /\ UNCHANGED <<durable, callVars, loopVars, lifeVars, flushVars, elsewhere>>

OtherConfirms ==
    /\ sending # NoEntry
    /\ outbox' = Without(outbox, sending.id)
    /\ sending' = NoEntry
    /\ UNCHANGED <<nextId, callVars, loopVars, lifeVars, flushVars, elsewhere, carried>>

\* Its queue is empty, its head must be retried, or it was closed.
OtherReleasesLock ==
    /\ elsewhere
    /\ elsewhere' = FALSE
    /\ sending' = NoEntry
    /\ UNCHANGED <<durable, callVars, loopVars, lifeVars, flushVars, carried>>

\* The page, worker or process dies; a new client opens the same storage.
Crash ==
    /\ crashes < MaxCrashes
    /\ crashes' = crashes + 1
    /\ call' = [c \in Calls |->
                  IF call[c].phase = "new" THEN NoCall ELSE [NoCall EXCEPT !.phase = "lost"]]
    /\ serial' = <<>>
    /\ loop' = "off" /\ head' = NoEntry /\ result' = "none" /\ inflight' = NoEntry
    /\ again' = FALSE /\ stalled' = FALSE /\ timer' = FALSE
    /\ started' = FALSE /\ stopped' = FALSE
    /\ flushing' = FALSE
    /\ outcome' = [c \in Calls |-> "none"]
    /\ UNCHANGED <<durable, flushes, otherVars, carried>>

-----------------------------------------------------------------------------
Init ==
    /\ outbox = {}
    /\ nextId = 1
    /\ serial = <<>>
    /\ call = [c \in Calls |-> NoCall]
    /\ outcome = [c \in Calls |-> "none"]
    /\ loop = "off" /\ head = NoEntry /\ result = "none" /\ inflight = NoEntry
    /\ again = FALSE /\ stalled = FALSE /\ timer = FALSE
    /\ started = FALSE /\ stopped = FALSE
    /\ elsewhere = FALSE /\ sending = NoEntry
    /\ flushing = FALSE
    /\ carried = {}
    /\ crashes = 0 /\ flushes = 0

CallStep(c) ==
    \/ StartJob(c) \/ Decide(c) \/ Drop(c) \/ EndDrops(c)
    \/ AddEntry(c) \/ EndJob(c) \/ Resume(c) \/ Reported(c)

LoopStep ==
    \/ LockGranted \/ LockBusy \/ GiveUp
    \/ LoopRead \/ LoopIdle \/ LoopExecute
    \/ ConfirmHead \/ PersistRetry \/ RetryReported \/ LoopEnd

Environment ==
    \/ Start \/ Stop \/ Wake \/ TimerFires
    \/ Flush \/ Cleared
    \/ OtherTakesLock \/ OtherExecutes \/ OtherConfirms \/ OtherReleasesLock
    \/ Crash

Next ==
    \/ \E c \in Calls, op \in Ops, d \in Docs, unsynced \in BOOLEAN :
           Enqueue(c, op, d, unsynced)
    \/ \E c \in Calls : CallStep(c)
    \/ LoopStep
    \/ \E status \in {"done", "failed"} : ExecuteEnds(status)
    \/ ExecuteRetries
    \/ Environment

Spec == Init /\ [][Next]_vars

-----------------------------------------------------------------------------
(* Properties *)

CallRecord ==
    [phase : CallPhases, op : Ops \cup {"none"}, doc : Docs \cup {"none"},
     unsynced : BOOLEAN, seen : Entry \cup {NoEntry}, drop : SUBSET Nat,
     hadAdd : BOOLEAN, target : Nat, created : BOOLEAN]

TypeOK ==
    /\ outbox \subseteq Entry
    /\ nextId \in Nat \ {0}
    /\ serial \in Seq(Calls \cup {Confirm})
    /\ call \in [Calls -> CallRecord]
    /\ outcome \in [Calls -> {"none", "done", "queued", "failed"}]
    /\ loop \in LoopPhases
    /\ head \in Entry \cup {NoEntry}
    /\ result \in {"none", "done", "failed"}
    /\ inflight \in Entry \cup {NoEntry}
    /\ sending \in Entry \cup {NoEntry}
    /\ again \in BOOLEAN /\ stalled \in BOOLEAN /\ timer \in BOOLEAN
    /\ started \in BOOLEAN /\ stopped \in BOOLEAN
    /\ elsewhere \in BOOLEAN /\ flushing \in BOOLEAN
    /\ carried \subseteq Calls
    /\ crashes \in 0..MaxCrashes
    /\ flushes \in 0..MaxFlushes

\* "Durable, strictly FIFO queue of writes": while an entry is being sent no
\* older one waits, although the loop works on a copy it read before an await
\* and deletes drop entries meanwhile. An update cannot overtake its add.
InOrder == inflight # NoEntry => \A e \in outbox : inflight.id <= e.id

\* "`navigator.locks` name shared by every context that sees the same storage":
\* an entry is never being sent by two contexts at once, whenever the
\* lock is taken, given up or lost.
OneSender == inflight = NoEntry \/ sending = NoEntry

\* A mutation waits only for an entry that is still in the queue, or it would
\* wait for ever: whatever removes an entry also settles who waits for it, and
\* #serialize keeps an entry from going away under a call that chose it.
NoOrphanWaiter ==
    ~Shared /\ flushes = 0 =>
        \A c \in Calls : Waits(c) => \E e \in outbox : e.id = call[c].target

\* "Resolve when it is confirmed": a call that resolves as done by the entry it
\* created was read by an execution that started after it, unless a delete of the
\* document dropped the entry. Nobody is told `done` for another one's entry.
DoneIsSent ==
    \A c \in Calls :
        call[c].created /\ outcome[c] = "done" =>
            \/ c \in carried
            \/ \E d \in Calls : /\ call[d].op = "delete" /\ call[d].doc = call[c].doc
                                /\ call[d].phase \notin {"queued", "reading"}

\* Whichever context has the lock, one of them sends an entry, and it is done after
\* that.
SentByOne == OneSender /\ DoneIsSent

\* A call that recorded an entry and did not yet reach its trigger().
WillTrigger(c) ==
    \/ call[c].phase = "recorded" /\ call[c].target # 0
    \/ call[c].phase = "decided" /\ call[c].target # 0
    \/ call[c].phase = "reporting"

\* A started queue with entries in it never falls asleep: the loop runs, a
\* backoff timer is armed, or some call is about to trigger.
NoStrandedQueue ==
    started /\ ~stopped /\ ~Shared /\ outbox # {} =>
        \/ Running
        \/ timer
        \/ \E c \in Calls : WillTrigger(c)

\* "Running those one at a time keeps an enqueue from folding into an entry that
\* is being confirmed under it": an update folded into an entry and settled as
\* done was read by an execution that started after it, unless a delete of the
\* document took its place.
FoldIsSent ==
    \A c \in Calls :
        /\ call[c].op = "update" /\ call[c].target # 0 /\ ~call[c].created
        /\ outcome[c] = "done"
        => \/ c \in carried
           \/ \E d \in Calls : /\ call[d].op = "delete" /\ call[d].doc = call[c].doc
                               /\ call[d].phase \notin {"queued", "reading"}

\* The same when only another context ever sends (this loop read no entry).
FoldIsSentElsewhere ==
    \A c \in Calls :
        (call[c].phase = "waiting" /\ call[c].op = "update" /\ ~call[c].created
            /\ call[c].target # 0 /\ outbox = {})
        => c \in carried

\* "Stop draining. Mutations still waiting resolve as queued": once a stopped
\* queue has nothing left to do, nobody waits.
StopReleases ==
    stopped /\ loop = "off" /\ serial = <<>> =>
        \A c \in Calls : call[c].phase = "waiting" => ~Waits(c)

\* "The storage was flushed: every entry is gone, release whoever waits on one":
\* after cleared() nobody waits for an entry the flush removed.
FlushReleases ==
    ~Shared /\ ~flushing =>
        \A c \in Calls : call[c].phase = "waiting" /\ Waits(c) =>
            \E e \in outbox : e.id = call[c].target

-----------------------------------------------------------------------------
(* What makes InOrder, NoOrphanWaiter and NoStrandedQueue inductive           *)

\* A call that was made has an operation and a document.
CallInputs ==
    \A c \in Calls : call[c].phase \notin {"new", "lost"} =>
        call[c].op \in Ops /\ call[c].doc \in Docs

\* Ids grow: the next one is greater than every id in use.
IdsGrow ==
    /\ \A e \in outbox : e.id < nextId
    /\ head.id < nextId
    /\ inflight.id < nextId

\* Only the head is in flight, and the loop's copy of it is the oldest.
HeadIsOldest ==
    /\ inflight # NoEntry => loop = "executing" /\ inflight = head
    /\ loop \in {"got", "executing"} /\ head # NoEntry =>
           \A e \in outbox : head.id <= e.id

\* A confirmation has a result to settle with.
ResultSet == loop = "confirming" => result # "none"

\* One serialized job runs at a time, and it is the one at the head.
InJob == {"reading", "dropping", "adding", "decided"}
JobAtHead == \A c \in Calls : call[c].phase \in InJob => AtHead(c)

\* Before its decision a call has no target; a decided target is in the queue.
TargetsQueued ==
    \A c \in Calls :
        /\ call[c].phase \notin {"decided", "recorded", "reporting", "waiting"}
              => call[c].target = 0
        /\ ~Shared /\ flushes = 0 /\ call[c].phase = "decided" /\ call[c].target # 0
              => \E e \in outbox : e.id = call[c].target

\* Without sharing no other context ever has the lock.
Alone == (elsewhere \/ sending # NoEntry) => Shared

\* The loop may only go to sleep over entries if it is about to be woken.
LoopWakes ==
    /\ started /\ ~stopped /\ ~Shared /\ outbox # {}
    /\ loop = "ending" \/ (loop = "got" /\ head = NoEntry)
    => again \/ timer \/ \E c \in Calls : WillTrigger(c)

IInv ==
    /\ TypeOK
    /\ CallInputs
    /\ IdsGrow
    /\ HeadIsOldest
    /\ ResultSet
    /\ JobAtHead
    /\ TargetsQueued
    /\ NoOrphanWaiter
    /\ Alone
    /\ LoopWakes
    /\ NoStrandedQueue

-----------------------------------------------------------------------------
(* Liveness. Microtasks, storage, the drain and an armed timer always get     *)
(* their turn; a request may fail for ever, but it always ends (30 s timeout).*)

Fairness ==
    /\ \A c \in Calls : WF_vars(CallStep(c))
    /\ WF_vars(LoopStep)
    /\ WF_vars(ExecuteEnds("done") \/ ExecuteEnds("failed") \/ ExecuteRetries)
    /\ WF_vars(TimerFires)
    /\ WF_vars(Start)
    /\ WF_vars(Cleared)

FairSpec == Spec /\ Fairness

\* enqueue() resolves "when it is confirmed, fails for good, or gets stuck
\* behind a retryable failure", however often the network fails (StopReleases
\* is about a stopped queue).
EnqueueResolves ==
    \A c \in Calls : call[c].phase = "queued" ~>
        outcome[c] # "none" \/ call[c].phase = "lost" \/ stopped

\* Under a network that succeeds again and again, every recorded write leaves
\* the queue, also the ones a crash left there.
NetworkReturns == SF_vars(ExecuteEnds("done"))
QueueDrains == NetworkReturns => (outbox # {} ~> outbox = {} \/ stopped)
=============================================================================
