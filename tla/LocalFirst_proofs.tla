-------------------------- MODULE LocalFirst_proofs --------------------------
(***************************************************************************)
(* Proofs about Outbox and LocalFirst. The first part is about the queue   *)
(* alone, for any number of calls, documents, attempts, crashes and        *)
(* flushes, and with or without other contexts on the storage: the         *)
(* inductive invariant IInv, and from it the safety invariants. Every step *)
(* of the client is a step of its queue or leaves the queue alone, so what *)
(* holds of the queue with free choices of its caller and of execute()     *)
(* holds of the queue inside the client, which the second part is about.   *)
(***************************************************************************)
EXTENDS LocalFirst, TLAPS

USE DEF durable, callVars, loopVars, lifeVars, flushVars, otherVars

-----------------------------------------------------------------------------
(* The record types *)

\* Counting an attempt keeps the counter in its range.
LEMMA MoreAttemptsType ==
    ASSUME NEW n \in 0..MaxAttempts
    PROVE  MoreAttempts(n) \in 0..MaxAttempts
BY BoundsAssumption DEF MoreAttempts

\* A stored entry stays one when its attempts change.
LEMMA EntryAttempts ==
    ASSUME NEW e \in Entry, NEW n \in 0..MaxAttempts
    PROVE  /\ [e EXCEPT !.attempts = n] \in Entry
           /\ [e EXCEPT !.attempts = n].id = e.id
BY DEF Entry

\* The fields of an entry, or of NoEntry, that the loop uses.
LEMMA EntryFields ==
    ASSUME NEW e \in Entry \cup {NoEntry}
    PROVE  /\ e.id \in Nat
           /\ e.attempts \in 0..MaxAttempts
           /\ e # NoEntry => e \in Entry
BY BoundsAssumption DEF Entry, NoEntry

\* A call that has not been made yet.
LEMMA NoCallType == NoCall \in CallRecord
BY DEF NoCall, CallRecord, CallPhases

\* The updates of a call record.
LEMMA CallUpdates ==
    ASSUME NEW r \in CallRecord, NEW e \in Entry \cup {NoEntry}, NEW n \in Nat,
           NEW S \in SUBSET Nat, NEW b \in BOOLEAN
    PROVE  /\ \A p \in CallPhases : [r EXCEPT !.phase = p] \in CallRecord
           /\ [r EXCEPT !.phase = "reading", !.seen = e] \in CallRecord
           /\ [r EXCEPT !.phase = "decided", !.target = n] \in CallRecord
           /\ [r EXCEPT !.phase = "decided", !.target = n, !.created = TRUE] \in CallRecord
           /\ [r EXCEPT !.phase = "dropping", !.drop = S, !.hadAdd = b] \in CallRecord
           /\ [r EXCEPT !.drop = S] \in CallRecord
           /\ [r EXCEPT !.phase = "recorded", !.seen = NoEntry, !.hadAdd = FALSE] \in CallRecord
<1>1. \A p \in CallPhases : [r EXCEPT !.phase = p] \in CallRecord
    BY DEF CallRecord
<1>2. [r EXCEPT !.phase = "reading", !.seen = e] \in CallRecord
    BY DEF CallRecord, CallPhases
<1>3. [r EXCEPT !.phase = "decided", !.target = n] \in CallRecord
    BY DEF CallRecord, CallPhases
<1>4. [r EXCEPT !.phase = "decided", !.target = n, !.created = TRUE] \in CallRecord
    BY DEF CallRecord, CallPhases
<1>5. [r EXCEPT !.phase = "dropping", !.drop = S, !.hadAdd = b] \in CallRecord
    BY DEF CallRecord, CallPhases
<1>6. [r EXCEPT !.drop = S] \in CallRecord
    BY DEF CallRecord
<1>7. [r EXCEPT !.phase = "recorded", !.seen = NoEntry, !.hadAdd = FALSE] \in CallRecord
    BY DEF CallRecord, CallPhases
<1> QED BY <1>1, <1>2, <1>3, <1>4, <1>5, <1>6, <1>7

\* Settling writes only outcomes.
LEMMA SettleType ==
    ASSUME TypeOK, NEW ids, NEW status \in {"done", "queued", "failed"}
    PROVE  /\ Settled(ids, status) \in [Calls -> {"none", "done", "queued", "failed"}]
           /\ AllSettled(status) \in [Calls -> {"none", "done", "queued", "failed"}]
BY DEF TypeOK, Settled, AllSettled

\* trigger() writes only the state of the loop.
LEMMA TriggerType ==
    ASSUME TypeOK, Trigger
    PROVE  loop' \in LoopPhases /\ again' \in BOOLEAN /\ timer' \in BOOLEAN
BY DEF TypeOK, Trigger, LoopPhases

\* enqueue() and its job change call records and, in some steps, more.
LEMMA CallStepType ==
    ASSUME TypeOK, CallInputs, NEW c \in Calls, CallStep(c)
    PROVE  TypeOK'
<1> DEFINE r == call[c]
<1>r. r \in CallRecord /\ call \in [Calls -> CallRecord]
    BY DEF TypeOK
<1> HIDE DEF r
<1>1. CASE StartJob(c)
    <2>1. [r EXCEPT !.phase = "reading", !.seen = inflight] \in CallRecord
        BY <1>r, CallUpdates DEF TypeOK
    <2>2. call' \in [Calls -> CallRecord]
        BY <1>1, <1>r, <2>1 DEF StartJob, r
    <2> QED BY <1>1, <2>2 DEF StartJob, TypeOK
<1>2. CASE Decide(c)
    <2>1. Same(c) \subseteq Entry /\ \A e \in Entry : e.id \in Nat
        BY DEF Same, TypeOK, Entry
    <2>2. [r EXCEPT !.phase = "dropping", !.drop = {e.id : e \in Same(c)},
                    !.hadAdd = \E e \in Same(c) : e.op = "add"] \in CallRecord
        <3> DEFINE S == {e.id : e \in Same(c)}
                   b == \E e \in Same(c) : e.op = "add"
        <3>1. S \in SUBSET Nat /\ b \in BOOLEAN
            BY <2>1
        <3> HIDE DEF S, b
        <3>2. [r EXCEPT !.phase = "dropping", !.drop = S, !.hadAdd = b] \in CallRecord
            BY <1>r, <3>1 DEF CallRecord, CallPhases
        <3> QED BY <3>2 DEF S, b
    <2>3. \A e \in Foldable(c) : [r EXCEPT !.phase = "decided", !.target = e.id] \in CallRecord
        BY <1>r, <2>1, CallUpdates DEF Foldable
    <2>4. /\ [r EXCEPT !.phase = "decided"] \in CallRecord
          /\ [r EXCEPT !.phase = "adding"] \in CallRecord
        BY <1>r, CallUpdates DEF CallPhases
    <2>5. call' \in [Calls -> CallRecord]
        BY <1>2, <1>r, <2>2, <2>3, <2>4 DEF Decide, DecideDone, Oldest, r
    <2>6. outcome' \in [Calls -> {"none", "done", "queued", "failed"}]
        BY <1>2 DEF Decide, DecideDone, TypeOK
    <2>7. UNCHANGED <<durable, serial, loopVars, lifeVars, flushVars, otherVars, carried>>
        BY <1>2 DEF Decide
    <2> QED BY <2>5, <2>6, <2>7 DEF TypeOK
<1>3. CASE Drop(c)
    <2>1. PICK i \in call[c].drop :
              /\ outbox' = Without(outbox, i)
              /\ call' = [call EXCEPT ![c].drop = @ \ {i}]
              /\ outcome' = Settled({i}, "done")
        BY <1>3 DEF Drop
    <2>2. [r EXCEPT !.drop = r.drop \ {i}] \in CallRecord
        BY <1>r DEF CallRecord
    <2>3. call' \in [Calls -> CallRecord]
        BY <1>r, <2>1, <2>2 DEF r
    <2>4. outbox' \subseteq Entry
        BY <2>1 DEF Without, TypeOK
    <2> QED BY <1>3, <2>1, <2>3, <2>4, SettleType DEF Drop, TypeOK
<1>4. CASE EndDrops(c)
    <2>1. /\ [r EXCEPT !.phase = "decided"] \in CallRecord
          /\ [r EXCEPT !.phase = "adding"] \in CallRecord
        BY <1>r, CallUpdates DEF CallPhases
    <2>2. call' \in [Calls -> CallRecord]
        BY <1>4, <1>r, <2>1 DEF EndDrops, DecideDone, r
    <2>3. outcome' \in [Calls -> {"none", "done", "queued", "failed"}]
        BY <1>4 DEF EndDrops, DecideDone, TypeOK
    <2> QED BY <1>4, <2>2, <2>3 DEF EndDrops, TypeOK
<1>5. CASE AddEntry(c)
    <2>1. [r EXCEPT !.phase = "decided", !.target = nextId, !.created = TRUE] \in CallRecord
        BY <1>r, CallUpdates DEF TypeOK
    <2>2. call' \in [Calls -> CallRecord]
        BY <1>5, <1>r, <2>1 DEF AddEntry, r
    <2>3. [id |-> nextId, op |-> r.op, doc |-> r.doc, attempts |-> 0] \in Entry
        BY <1>5, BoundsAssumption DEF AddEntry, TypeOK, Entry, CallInputs, r
    <2> QED BY <1>5, <2>2, <2>3 DEF AddEntry, TypeOK, r
<1>6. CASE EndJob(c)
    <2>1. [r EXCEPT !.phase = "recorded", !.seen = NoEntry, !.hadAdd = FALSE] \in CallRecord
        BY <1>r, CallUpdates
    <2>2. call' \in [Calls -> CallRecord]
        BY <1>6, <1>r, <2>1 DEF EndJob, r
    <2> QED BY <1>6, <2>2 DEF EndJob, AtHead, TypeOK
<1>7. CASE Resume(c)
    <2>1. /\ [r EXCEPT !.phase = "waiting"] \in CallRecord
          /\ [r EXCEPT !.phase = "reporting"] \in CallRecord
        BY <1>r, CallUpdates DEF CallPhases
    <2>2. call' \in [Calls -> CallRecord]
        BY <1>7, <1>r, <2>1 DEF Resume, r
    <2>3. outcome' \in [Calls -> {"none", "done", "queued", "failed"}]
        BY <1>7, SettleType DEF Resume, TypeOK
    <2>4. loop' \in LoopPhases /\ again' \in BOOLEAN /\ timer' \in BOOLEAN
        BY <1>7, TriggerType DEF Resume, TypeOK
    <2> QED BY <1>7, <2>2, <2>3, <2>4 DEF Resume, TypeOK
<1>8. CASE Reported(c)
    <2>1. [r EXCEPT !.phase = "waiting"] \in CallRecord
        BY <1>r, CallUpdates DEF CallPhases
    <2>2. call' \in [Calls -> CallRecord]
        BY <1>8, <1>r, <2>1 DEF Reported, r
    <2> QED BY <1>8, <2>2, SettleType, TriggerType DEF Reported, TypeOK
<1> QED BY <1>1, <1>2, <1>3, <1>4, <1>5, <1>6, <1>7, <1>8 DEF CallStep

\* The loop writes its own state, removes its head or counts an attempt.
LEMMA LoopStepType ==
    ASSUME TypeOK, LoopStep
    PROVE  TypeOK'
<1>1. CASE LockGranted \/ LockBusy \/ LoopIdle
    <2>1. /\ loop' \in LoopPhases /\ stalled' \in BOOLEAN
          /\ UNCHANGED <<head, result, inflight, again, timer>>
        BY <1>1 DEF TypeOK, LockGranted, LockBusy, LoopIdle, LoopPhases
    <2>2. UNCHANGED <<durable, callVars, lifeVars, flushVars, otherVars, carried>>
        BY <1>1 DEF LockGranted, LockBusy, LoopIdle
    <2> QED BY <2>1, <2>2 DEF TypeOK
<1>6. CASE LoopExecute
    BY <1>6 DEF TypeOK, LoopExecute, LoopPhases, WrittenFor
<1>7. CASE LoopEnd
    <2>1. /\ loop' \in LoopPhases /\ again' \in BOOLEAN /\ timer' \in BOOLEAN
          /\ inflight' \in Entry \cup {NoEntry} /\ head' \in Entry \cup {NoEntry}
          /\ UNCHANGED <<result, stalled>>
        BY <1>7 DEF TypeOK, LoopEnd, LoopPhases
    <2>2. UNCHANGED <<durable, callVars, lifeVars, flushVars, otherVars, carried>>
        BY <1>7 DEF LoopEnd
    <2> QED BY <2>1, <2>2 DEF TypeOK
<1>2. CASE GiveUp \/ RetryReported
    <2>1. outcome' \in [Calls -> {"none", "done", "queued", "failed"}]
        BY <1>2, SettleType DEF GiveUp, RetryReported
    <2>2. /\ loop' \in LoopPhases /\ timer' \in BOOLEAN /\ head' \in Entry \cup {NoEntry}
          /\ UNCHANGED <<result, inflight, again, stalled>>
        BY <1>2 DEF TypeOK, GiveUp, RetryReported, Schedule, LoopPhases
    <2>3. UNCHANGED <<durable, serial, call, lifeVars, flushVars, otherVars, carried>>
        BY <1>2 DEF GiveUp, RetryReported
    <2> QED BY <2>1, <2>2, <2>3 DEF TypeOK
<1>3. CASE LoopRead
    BY <1>3 DEF TypeOK, LoopRead, LoopPhases, Oldest
<1>4. CASE ConfirmHead
    <2>1. outbox' \subseteq Entry
        BY <1>4 DEF TypeOK, ConfirmHead, Without
    <2>2. outcome' \in [Calls -> {"none", "done", "queued", "failed"}]
        BY <1>4 DEF TypeOK, ConfirmHead, Settled
    <2>3. serial' \in Seq(Calls \cup {Confirm})
        BY <1>4 DEF TypeOK, ConfirmHead, AtHead
    <2> QED BY <1>4, <2>1, <2>2, <2>3 DEF TypeOK, ConfirmHead, LoopPhases
<1>5. CASE PersistRetry
    <2>1. MoreAttempts(head.attempts) \in 0..MaxAttempts
        BY EntryFields, MoreAttemptsType DEF TypeOK
    <2>2. outbox' \subseteq Entry
        BY <1>5, <2>1, EntryAttempts DEF TypeOK, PersistRetry
    <2> QED BY <1>5, <2>2 DEF TypeOK, PersistRetry, LoopPhases
<1> QED BY <1>1, <1>2, <1>3, <1>4, <1>5, <1>6, <1>7 DEF LoopStep

\* So do start, stop, wake-ups, flushes, other contexts and crashes.
LEMMA EnvironmentType ==
    ASSUME TypeOK, Environment
    PROVE  TypeOK'
<1>1. CASE Wake \/ TimerFires
    BY <1>1, TriggerType DEF TypeOK, TimerFires, Wake
<1>2. CASE Start
    <2>1. /\ loop' \in LoopPhases /\ again' \in BOOLEAN /\ timer' \in BOOLEAN
          /\ started' \in BOOLEAN
        BY <1>2 DEF TypeOK, Start, LoopPhases
    <2>2. UNCHANGED <<durable, callVars, head, result, inflight, stalled, stopped, crashes,
                      flushVars, otherVars, carried>>
        BY <1>2 DEF Start
    <2> QED BY <2>1, <2>2 DEF TypeOK
<1>3. CASE Stop \/ Cleared
    <2>1. outcome' \in [Calls -> {"none", "done", "queued", "failed"}]
        BY <1>3, SettleType DEF Stop, Cleared
    <2>2. /\ again' \in BOOLEAN /\ stalled' \in BOOLEAN /\ timer' \in BOOLEAN
          /\ stopped' \in BOOLEAN /\ flushing' \in BOOLEAN
        BY <1>3 DEF TypeOK, Stop, Cleared
    <2>3. UNCHANGED <<durable, serial, call, loop, head, result, inflight, started, crashes,
                      flushes, otherVars, carried>>
        BY <1>3 DEF Stop, Cleared
    <2> QED BY <2>1, <2>2, <2>3 DEF TypeOK
<1>4. CASE Flush
    BY <1>4, BoundsAssumption DEF TypeOK, Flush
<1>5. CASE OtherTakesLock
    BY <1>5 DEF TypeOK, OtherTakesLock
<1>6. CASE OtherReleasesLock
    BY <1>6 DEF TypeOK, OtherReleasesLock
<1>7. CASE OtherExecutes \/ OtherConfirms
    BY <1>7 DEF TypeOK, OtherExecutes, OtherConfirms, Oldest, WrittenFor, Without
<1>8. CASE Crash
    <2>1. [NoCall EXCEPT !.phase = "lost"] \in CallRecord
        BY NoCallType DEF CallRecord, CallPhases
    <2>2. call' \in [Calls -> CallRecord]
        BY <1>8, <2>1, NoCallType DEF Crash
    <2>3. crashes' \in 0..MaxCrashes
        BY <1>8, BoundsAssumption DEF TypeOK, Crash
    <2>4. outcome' \in [Calls -> {"none", "done", "queued", "failed"}]
        BY <1>8 DEF Crash
    <2>5. serial' \in Seq(Calls \cup {Confirm})
        BY <1>8 DEF Crash
    <2>6. /\ loop' \in LoopPhases /\ head' = NoEntry /\ inflight' = NoEntry
          /\ result' = "none"
        BY <1>8 DEF Crash, LoopPhases
    <2> HIDE DEF durable, callVars, loopVars, lifeVars, flushVars
    <2> QED BY <1>8, <2>2, <2>3, <2>4, <2>5, <2>6 DEF TypeOK, Crash, durable
<1> QED BY <1>1, <1>2, <1>3, <1>4, <1>5, <1>6, <1>7, <1>8 DEF Environment

\* Every step keeps the types.
LEMMA TypePreserved == TypeOK /\ CallInputs /\ [Next]_vars => TypeOK'
<1> SUFFICES ASSUME TypeOK, CallInputs, [Next]_vars PROVE TypeOK'
    OBVIOUS
<1>1. ASSUME NEW c \in Calls, NEW op \in Ops, NEW d \in Docs, NEW unsynced \in BOOLEAN,
             Enqueue(c, op, d, unsynced)
      PROVE  TypeOK'
    <2>1. [NoCall EXCEPT !.phase = "queued", !.op = op, !.doc = d, !.unsynced = unsynced]
              \in CallRecord
        BY NoCallType DEF CallRecord, CallPhases
    <2>2. call' \in [Calls -> CallRecord]
        BY <1>1, <2>1 DEF Enqueue, TypeOK
    <2> QED BY <1>1, <2>2 DEF Enqueue, TypeOK
<1>2. ASSUME NEW status \in {"done", "failed"}, ExecuteEnds(status) PROVE TypeOK'
    <2>1. serial' \in Seq(Calls \cup {Confirm})
        BY <1>2 DEF TypeOK, ExecuteEnds
    <2> QED BY <1>2, <2>1 DEF TypeOK, ExecuteEnds, LoopPhases
<1>4. CASE ExecuteRetries
    BY <1>4 DEF TypeOK, ExecuteRetries, LoopPhases
<1>3. CASE UNCHANGED vars
    BY <1>3 DEF TypeOK, vars
<1> QED BY <1>1, <1>2, <1>3, <1>4, CallStepType, LoopStepType, EnvironmentType DEF Next

-----------------------------------------------------------------------------
(* What a call record may become *)

\* A change of phase keeps a call's inputs.
LEMMA PhaseKeepsInputs ==
    ASSUME NEW r \in CallRecord, NEW p
    PROVE  [r EXCEPT !.phase = p].op = r.op /\ [r EXCEPT !.phase = p].doc = r.doc
BY DEF CallRecord

\* A step of a call writes that call's record only, and keeps its inputs.
LEMMA CallsKeepInputs ==
    ASSUME TypeOK, NEW c \in Calls, CallStep(c), NEW x \in Calls
    PROVE  /\ call'[x].op = call[x].op /\ call'[x].doc = call[x].doc
           /\ x # c => call'[x] = call[x]
           /\ call[c].phase \notin {"new", "lost"}
<1> DEFINE Keeps(r) == r.op = call[c].op /\ r.doc = call[c].doc
<1>t. call \in [Calls -> CallRecord] /\ call[c] \in CallRecord
    BY DEF TypeOK
<1>1. \E r : call' = [call EXCEPT ![c] = r] /\ Keeps(r)
    <2>1. CASE StartJob(c)
        <3> DEFINE begun == [call[c] EXCEPT !.phase = "reading", !.seen = inflight]
        <3>1. Keeps(begun)
            BY <1>t DEF CallRecord
        <3>2. call' = [call EXCEPT ![c] = begun]
            BY <2>1 DEF StartJob
        <3> HIDE DEF Keeps, begun
        <3> QED BY <3>1, <3>2
    <2>2. CASE Decide(c)
        <3>1. CASE call' = [call EXCEPT ![c].phase = "decided"]
                \/ call' = [call EXCEPT ![c].phase = "adding"]
            <4> DEFINE moved(p) == [call[c] EXCEPT !.phase = p]
            <4>1. \A p : Keeps(moved(p))
                BY <1>t, PhaseKeepsInputs
            <4>2. \E p : call' = [call EXCEPT ![c] = moved(p)]
                BY <3>1
            <4> HIDE DEF Keeps, moved
            <4> QED BY <4>1, <4>2
        <3>2. CASE \E e \in Oldest(Foldable(c)) :
                     call' = [call EXCEPT ![c] = [@ EXCEPT !.phase = "decided", !.target = e.id]]
            <4>1. PICK e \in Oldest(Foldable(c)) :
                     call' = [call EXCEPT ![c] = [call[c] EXCEPT !.phase = "decided",
                                                                 !.target = e.id]]
                BY <3>2
            <4>2. Keeps([call[c] EXCEPT !.phase = "decided", !.target = e.id])
                BY <1>t DEF CallRecord
            <4> QED BY <4>1, <4>2
        <3>3. CASE call' = [call EXCEPT ![c] = [@ EXCEPT
                         !.phase = "dropping",
                         !.drop = {e.id : e \in Same(c)},
                         !.hadAdd = \E e \in Same(c) : e.op = "add"]]
            <4> DEFINE S == {e.id : e \in Same(c)}
                       b == \E e \in Same(c) : e.op = "add"
            <4>1. call' = [call EXCEPT ![c] =
                             [call[c] EXCEPT !.phase = "dropping", !.drop = S, !.hadAdd = b]]
                BY <3>3
            <4> HIDE DEF S, b
            <4>2. Keeps([call[c] EXCEPT !.phase = "dropping", !.drop = S, !.hadAdd = b])
                BY <1>t DEF CallRecord
            <4> QED BY <4>1, <4>2
        <3> QED BY <2>2, <3>1, <3>2, <3>3 DEF Decide, DecideDone
    <2>3. CASE Drop(c)
        <3>1. PICK i \in call[c].drop : call' = [call EXCEPT ![c].drop = @ \ {i}]
            BY <2>3 DEF Drop
        <3> DEFINE dropped == [call[c] EXCEPT !.drop = @ \ {i}]
        <3>2. Keeps(dropped)
            BY <1>t DEF CallRecord
        <3>3. call' = [call EXCEPT ![c] = dropped]
            BY <3>1
        <3> HIDE DEF Keeps, dropped
        <3> QED BY <3>2, <3>3
    <2>4. CASE EndDrops(c)
        <3> DEFINE moved(p) == [call[c] EXCEPT !.phase = p]
        <3>1. \A p : Keeps(moved(p))
            BY <1>t, PhaseKeepsInputs
        <3>2. \E p : call' = [call EXCEPT ![c] = moved(p)]
            BY <2>4 DEF EndDrops, DecideDone
        <3> HIDE DEF Keeps, moved
        <3> QED BY <3>1, <3>2
    <2>5. CASE AddEntry(c)
        <3> DEFINE added == [call[c] EXCEPT !.phase = "decided", !.target = nextId,
                                            !.created = TRUE]
        <3>1. Keeps(added)
            BY <1>t DEF CallRecord
        <3>2. call' = [call EXCEPT ![c] = added]
            BY <2>5 DEF AddEntry
        <3> HIDE DEF Keeps, added
        <3> QED BY <3>1, <3>2
    <2>6. CASE EndJob(c)
        <3> DEFINE ended == [call[c] EXCEPT !.phase = "recorded", !.seen = NoEntry,
                                            !.hadAdd = FALSE]
        <3>1. Keeps(ended)
            BY <1>t DEF CallRecord
        <3>2. call' = [call EXCEPT ![c] = ended]
            BY <2>6 DEF EndJob
        <3> HIDE DEF Keeps, ended
        <3> QED BY <3>1, <3>2
    <2>7. CASE Resume(c) \/ Reported(c)
        <3> DEFINE moved(p) == [call[c] EXCEPT !.phase = p]
        <3>1. \A p : Keeps(moved(p))
            BY <1>t, PhaseKeepsInputs
        <3>2. \E p : call' = [call EXCEPT ![c] = moved(p)]
            BY <2>7 DEF Resume, Reported
        <3> HIDE DEF Keeps, moved
        <3> QED BY <3>1, <3>2
    <2> QED BY <2>1, <2>2, <2>3, <2>4, <2>5, <2>6, <2>7 DEF CallStep
<1>2. call[c].phase \notin {"new", "lost"}
    BY DEF CallStep, StartJob, Decide, Drop, EndDrops, AddEntry, EndJob, Resume, Reported
<1> QED BY <1>t, <1>1, <1>2

\* Only call steps, an enqueue and a crash write `call`.
LEMMA OthersKeepCalls ==
    /\ LoopStep => UNCHANGED call
    /\ (\E status \in {"done", "failed"} : ExecuteEnds(status)) => UNCHANGED call
    /\ ExecuteRetries => UNCHANGED call
    /\ Environment => UNCHANGED call \/ Crash
    /\ UNCHANGED vars => UNCHANGED call
BY DEF LoopStep, LockGranted, LockBusy, GiveUp, LoopRead, LoopIdle, LoopExecute, ConfirmHead,
       PersistRetry, RetryReported, LoopEnd, ExecuteEnds, ExecuteRetries, Environment, Start,
       Stop, Wake, TimerFires, Flush, Cleared, OtherTakesLock, OtherExecutes, OtherConfirms,
       OtherReleasesLock, vars

\* A call keeps the operation and the document it was made with.
LEMMA InputsPreserved == TypeOK /\ CallInputs /\ [Next]_vars => CallInputs'
<1> SUFFICES ASSUME TypeOK, CallInputs, [Next]_vars PROVE CallInputs'
    OBVIOUS
<1>1. ASSUME NEW c \in Calls, NEW op \in Ops, NEW d \in Docs, NEW unsynced \in BOOLEAN,
             Enqueue(c, op, d, unsynced)
      PROVE  CallInputs'
    BY <1>1 DEF Enqueue, TypeOK, CallInputs, NoCall
<1>2. ASSUME NEW c \in Calls, CallStep(c) PROVE CallInputs'
    BY <1>2, CallsKeepInputs DEF CallInputs
<1>3. CASE UNCHANGED call
    BY <1>3 DEF CallInputs
<1>4. CASE Crash
    BY <1>4 DEF Crash, CallInputs, NoCall
<1> QED BY <1>1, <1>2, <1>3, <1>4, OthersKeepCalls DEF Next

-----------------------------------------------------------------------------
(* Strict FIFO *)

\* Every id in the queue was there before the step, or is the next id.
LEMMA QueueIds ==
    ASSUME TypeOK, [Next]_vars
    PROVE  /\ nextId' \in {nextId, nextId + 1}
           /\ \A e \in outbox' : \/ \E f \in outbox : f.id = e.id
                                 \/ e.id = nextId /\ nextId' = nextId + 1
<1>1. CASE UNCHANGED durable
    BY <1>1
<1>2. CASE UNCHANGED nextId /\ \E i : outbox' = Without(outbox, i)
    BY <1>2 DEF Without
<1>3. CASE UNCHANGED nextId /\ outbox' = {}
    BY <1>3
<1>4. ASSUME NEW c \in Calls, AddEntry(c)
      PROVE  /\ nextId' = nextId + 1
             /\ \A e \in outbox' : e \in outbox \/ e.id = nextId
    BY <1>4 DEF AddEntry
<1>5. CASE PersistRetry
    <2>1. \A e \in outbox : MoreAttempts(head.attempts) \in 0..MaxAttempts
                            /\ [e EXCEPT !.attempts = MoreAttempts(head.attempts)].id = e.id
        BY EntryFields, MoreAttemptsType, EntryAttempts DEF TypeOK
    <2> QED BY <1>5, <2>1 DEF PersistRetry
<1>6. ASSUME NEW c \in Calls, CallStep(c)
      PROVE  \/ AddEntry(c) \/ UNCHANGED durable
             \/ UNCHANGED nextId /\ \E i : outbox' = Without(outbox, i)
    BY <1>6 DEF CallStep, StartJob, Decide, Drop, EndDrops, EndJob, Resume, Reported
<1>7. ASSUME LoopStep
      PROVE  \/ PersistRetry \/ UNCHANGED durable
             \/ UNCHANGED nextId /\ \E i : outbox' = Without(outbox, i)
    BY <1>7 DEF LoopStep, LockGranted, LockBusy, GiveUp, LoopRead, LoopIdle, LoopExecute,
                ConfirmHead, RetryReported, LoopEnd
<1>8. ASSUME Environment
      PROVE  \/ UNCHANGED durable
             \/ UNCHANGED nextId /\ outbox' = {}
             \/ UNCHANGED nextId /\ \E i : outbox' = Without(outbox, i)
    BY <1>8 DEF Environment, Start, Stop, Wake, TimerFires, Flush, Cleared, OtherTakesLock,
                OtherExecutes, OtherConfirms, OtherReleasesLock, Crash
<1>9. (\E c \in Calls, op \in Ops, d \in Docs, unsynced \in BOOLEAN : Enqueue(c, op, d, unsynced))
      \/ (\E status \in {"done", "failed"} : ExecuteEnds(status)) \/ ExecuteRetries
      \/ UNCHANGED vars => UNCHANGED durable
    BY DEF Enqueue, ExecuteEnds, ExecuteRetries, vars
<1> QED BY <1>1, <1>2, <1>3, <1>4, <1>5, <1>6, <1>7, <1>8, <1>9 DEF Next, TypeOK

\* Only the loop and a crash move the head and what is in flight.
LoopIdles ==
    /\ UNCHANGED <<head, inflight>>
    /\ loop' = loop \/ (loop = "off" /\ loop' = "locking")

\* Steps outside the loop leave its copy of the head, and #inflight, alone.
LEMMA OthersKeepHead ==
    /\ \A c \in Calls : CallStep(c) => LoopIdles
    /\ \A c \in Calls, op \in Ops, d \in Docs, unsynced \in BOOLEAN :
           Enqueue(c, op, d, unsynced) => LoopIdles
    /\ Environment => LoopIdles \/ Crash
    /\ UNCHANGED vars => LoopIdles
<1>1. \A c \in Calls : CallStep(c) => LoopIdles
    BY DEF LoopIdles, CallStep, StartJob, Decide, Drop, EndDrops, AddEntry, EndJob, Resume,
           Reported, Trigger, Running
<1>2. Environment => LoopIdles \/ Crash
    BY DEF LoopIdles, Environment, Start, Stop, Wake, TimerFires, Flush, Cleared,
           OtherTakesLock, OtherExecutes, OtherConfirms, OtherReleasesLock, Trigger, Running
<1> QED BY <1>1, <1>2 DEF LoopIdles, Enqueue, vars

\* What the loop and a crash do to them.
LoopMoves ==
    \/ inflight' = inflight /\ head' = head /\ loop' \notin {"got", "executing"}
         /\ loop # "executing"
    \/ inflight' = NoEntry /\ head' = head /\ loop = "executing" /\ loop' # "got"
         /\ loop' # "executing"
    \/ inflight' = inflight /\ head' = NoEntry /\ loop # "executing" /\ loop' # "executing"
    \/ /\ inflight' = inflight /\ head' \in Oldest(outbox) /\ outbox' = outbox
       /\ loop = "reading" /\ loop' = "got"
    \/ inflight' = head /\ head' = head /\ loop = "got" /\ loop' = "executing" /\ head # NoEntry
    \/ inflight' = NoEntry /\ head' = NoEntry /\ loop' = "off"

\* The loop's copy only changes to an entry it just read, or to none.
LEMMA LoopMovesHead ==
    LoopStep \/ ExecuteRetries \/ Crash
        \/ (\E status \in {"done", "failed"} : ExecuteEnds(status)) => LoopMoves
BY DEF LoopMoves, LoopStep, LockGranted, LockBusy, GiveUp, LoopRead, LoopIdle, LoopExecute,
       ConfirmHead, PersistRetry, RetryReported, LoopEnd, ExecuteRetries, ExecuteEnds, Crash

\* The next id stays above every id in use, so a new entry goes to the back.
LEMMA IdsGrowPreserved ==
    TypeOK /\ IdsGrow /\ [Next]_vars => IdsGrow'
<1> SUFFICES ASSUME TypeOK, IdsGrow, [Next]_vars PROVE IdsGrow'
    OBVIOUS
<1>1. nextId \in Nat /\ NoEntry.id = 0 /\ nextId > 0
    BY DEF TypeOK, NoEntry
<1>2. \A e \in outbox' : e.id < nextId'
    BY <1>1, QueueIds DEF IdsGrow, TypeOK, Entry
<1>3. head' \in {head, NoEntry} \/ head' \in outbox
    BY OthersKeepHead, LoopMovesHead DEF Next, LoopIdles, LoopMoves, Oldest
<1>4. inflight' \in {inflight, head, NoEntry}
    BY OthersKeepHead, LoopMovesHead DEF Next, LoopIdles, LoopMoves
<1>5. head.id \in Nat /\ inflight.id \in Nat /\ \A e \in outbox : e.id \in Nat
    BY EntryFields DEF TypeOK, Entry
<1>6. nextId' >= nextId
    BY <1>1, QueueIds
<1> QED BY <1>1, <1>2, <1>3, <1>4, <1>5, <1>6, QueueIds DEF IdsGrow

\* What the loop read as the head stays the oldest entry until it is sent.
LEMMA HeadIsOldestPreserved ==
    TypeOK /\ IdsGrow /\ HeadIsOldest /\ [Next]_vars => HeadIsOldest'
<1> SUFFICES ASSUME TypeOK, IdsGrow, HeadIsOldest, [Next]_vars PROVE HeadIsOldest'
    OBVIOUS
<1>1. nextId \in Nat /\ head.id \in Nat /\ \A e \in outbox : e.id \in Nat
    BY EntryFields DEF TypeOK, Entry
<1>2. (\A e \in outbox : head.id <= e.id) => \A e \in outbox' : head.id <= e.id
    BY <1>1, QueueIds DEF IdsGrow
<1>3. CASE LoopIdles
    BY <1>3, <1>2 DEF LoopIdles, HeadIsOldest
<1>4. CASE LoopMoves
    BY <1>4, <1>2 DEF LoopMoves, HeadIsOldest, Oldest
<1> QED BY <1>3, <1>4, OthersKeepHead, LoopMovesHead DEF Next

-----------------------------------------------------------------------------
(* Nobody waits for an entry that is gone *)

\* #serialize runs one job at a time: a call in its job is at the head.
LEMMA JobAtHeadPreserved ==
    TypeOK /\ JobAtHead /\ [Next]_vars => JobAtHead'
<1> SUFFICES ASSUME TypeOK, JobAtHead, [Next]_vars PROVE JobAtHead'
    OBVIOUS
<1>t. serial \in Seq(Calls \cup {Confirm}) /\ call \in [Calls -> CallRecord]
    BY DEF TypeOK
<1>1. ASSUME NEW c \in Calls, NEW op \in Ops, NEW d \in Docs, NEW unsynced \in BOOLEAN,
             Enqueue(c, op, d, unsynced)
      PROVE  JobAtHead'
    <2>1. \A x \in Calls : call'[x].phase \in InJob => call[x].phase \in InJob
        BY <1>1, <1>t DEF Enqueue, InJob, NoCall
    <2>2. \A x \in Calls : AtHead(x) => AtHead(x)'
        BY <1>1, <1>t DEF Enqueue, AtHead
    <2> QED BY <2>1, <2>2 DEF JobAtHead
<1>2. ASSUME NEW c \in Calls, CallStep(c) PROVE JobAtHead'
    <2>1. CASE EndJob(c)
        <3>1. \A x \in Calls : call'[x].phase \in InJob => x # c /\ call[x].phase \in InJob
            BY <2>1, <1>t DEF EndJob, InJob, CallRecord
        <3>2. \A x \in Calls : ~(call'[x].phase \in InJob)
            BY <2>1, <3>1 DEF EndJob, JobAtHead, AtHead
        <3> QED BY <3>2 DEF JobAtHead
    <2>2. CASE Resume(c) \/ Reported(c)
        <3>0. PICK p \in {"waiting", "reporting"} : call' = [call EXCEPT ![c].phase = p]
            BY <2>2 DEF Resume, Reported
        <3>1. \A x \in Calls : call'[x].phase \in InJob => call[x].phase \in InJob
            BY <3>0, <1>t DEF InJob, CallRecord
        <3> QED BY <2>2, <3>1 DEF JobAtHead, AtHead, Resume, Reported
    <2>3. ASSUME AtHead(c), UNCHANGED serial PROVE JobAtHead'
        <3>1. \A x \in Calls : x # c => call'[x] = call[x]
            BY <1>2, CallsKeepInputs
        <3> QED BY <2>3, <3>1 DEF JobAtHead, AtHead
    <2> QED BY <1>2, <2>1, <2>2, <2>3
            DEF CallStep, StartJob, Decide, Drop, EndDrops, AddEntry
<1>3. CASE UNCHANGED <<call, serial>>
    BY <1>3 DEF JobAtHead, AtHead
<1>4. CASE ConfirmHead
    <2>1. \A x \in Calls : call[x].phase \notin InJob
        BY <1>4, ConfirmAssumption DEF ConfirmHead, JobAtHead, AtHead
    <2> QED BY <1>4, <2>1 DEF ConfirmHead, JobAtHead
<1>5. ASSUME NEW status \in {"done", "failed"}, ExecuteEnds(status) PROVE JobAtHead'
    <2>1. \A x \in Calls : AtHead(x) => AtHead(x)'
        BY <1>5, <1>t DEF ExecuteEnds, AtHead
    <2> QED BY <1>5, <2>1 DEF ExecuteEnds, JobAtHead
<1>6. CASE Crash
    BY <1>6 DEF Crash, JobAtHead, InJob, NoCall
<1>7. LoopStep => UNCHANGED <<call, serial>> \/ ConfirmHead
    BY DEF LoopStep, LockGranted, LockBusy, GiveUp, LoopRead, LoopIdle, LoopExecute,
           PersistRetry, RetryReported, LoopEnd
<1>8. Environment => UNCHANGED <<call, serial>> \/ Crash
    BY DEF Environment, Start, Stop, Wake, TimerFires, Flush, Cleared, OtherTakesLock,
           OtherExecutes, OtherConfirms, OtherReleasesLock
<1>9. ExecuteRetries \/ UNCHANGED vars => UNCHANGED <<call, serial>>
    BY DEF ExecuteRetries, vars
<1> QED BY <1>1, <1>2, <1>3, <1>4, <1>5, <1>6, <1>7, <1>8, <1>9 DEF Next

\* Without sharing no other context ever takes the drain lock.
LEMMA AlonePreserved == Alone /\ [Next]_vars => Alone'
<1> SUFFICES ASSUME Alone, [Next]_vars PROVE Alone'
    OBVIOUS
<1>1. UNCHANGED otherVars => Alone'
    BY DEF Alone
<1>2. ASSUME NEW c \in Calls PROVE CallStep(c) => UNCHANGED otherVars
    BY DEF CallStep, StartJob, Decide, Drop, EndDrops, AddEntry, EndJob, Resume, Reported
<1>3. LoopStep => UNCHANGED otherVars
    BY DEF LoopStep, LockGranted, LockBusy, GiveUp, LoopRead, LoopIdle, LoopExecute,
           ConfirmHead, PersistRetry, RetryReported, LoopEnd
<1>4. Environment => Alone'
    BY DEF Alone, Environment, Start, Stop, Wake, TimerFires, Flush, Cleared, OtherTakesLock,
           OtherExecutes, OtherConfirms, OtherReleasesLock, Crash
<1> QED BY <1>1, <1>2, <1>3, <1>4 DEF Next, Enqueue, ExecuteEnds, ExecuteRetries, vars

\* The loop confirms only what execute() answered.
LEMMA ResultSetPreserved == ResultSet /\ [Next]_vars => ResultSet'
<1> SUFFICES ASSUME ResultSet, [Next]_vars PROVE ResultSet'
    OBVIOUS
<1>1. ASSUME NEW c \in Calls PROVE CallStep(c) => ResultSet'
    BY DEF ResultSet, CallStep, StartJob, Decide, Drop, EndDrops, AddEntry, EndJob, Resume,
           Reported, Trigger, Running
<1>2. LoopStep => ResultSet'
    BY DEF ResultSet, LoopStep, LockGranted, LockBusy, GiveUp, LoopRead, LoopIdle, LoopExecute,
           ConfirmHead, PersistRetry, RetryReported, LoopEnd
<1>3. Environment => ResultSet'
    BY DEF ResultSet, Environment, Start, Stop, Wake, TimerFires, Flush, Cleared,
           OtherTakesLock, OtherExecutes, OtherConfirms, OtherReleasesLock, Crash, Trigger,
           Running
<1> QED BY <1>1, <1>2, <1>3 DEF Next, Enqueue, ExecuteEnds, ExecuteRetries, vars, ResultSet

InQueue(i) == \E e \in outbox : e.id = i

\* Steps that remove nothing from the queue and only settle.
LEMMA SettlingKeeps ==
    ASSUME TargetsQueued, NoOrphanWaiter, UNCHANGED <<call, flushes>>,
           \A i : InQueue(i) => InQueue(i)',
           \A x \in Calls : outcome'[x] = "none" => outcome[x] = "none"
    PROVE  TargetsQueued' /\ NoOrphanWaiter'
BY DEF TargetsQueued, NoOrphanWaiter, Waits, InQueue

\* Steps that remove one id and settle everyone who waits for it.
LEMMA RemovingSettles ==
    ASSUME TypeOK, TargetsQueued, NoOrphanWaiter, NEW i, UNCHANGED flushes,
           outbox' = Without(outbox, i),
           \A x \in Calls : call[x].phase # "decided",
           \A x \in Calls : /\ call'[x].phase = call[x].phase
                            /\ call'[x].target = call[x].target,
           NEW status \in {"done", "failed"},
           outcome' = Settled({i}, status)
    PROVE  TargetsQueued' /\ NoOrphanWaiter'
<1>1. TargetsQueued'
    BY DEF TargetsQueued
<1>2. ASSUME ~Shared, flushes = 0, NEW x \in Calls, Waits(x)'
      PROVE  \E e \in outbox' : e.id = call'[x].target
    <2>1. Waits(x) /\ call[x].target # i
        BY <1>2 DEF Waits, Settled, TypeOK
    <2>2. PICK e \in outbox : e.id = call[x].target
        BY <1>2, <2>1 DEF NoOrphanWaiter
    <2> QED BY <2>1, <2>2 DEF Without
<1> QED BY <1>1, <1>2 DEF NoOrphanWaiter

\* Every step that removes an entry settles the waiters of that entry.
LEMMA NoOrphanPreserved ==
    /\ TypeOK /\ CallInputs /\ JobAtHead /\ Alone /\ ResultSet
    /\ TargetsQueued /\ NoOrphanWaiter /\ [Next]_vars
    => TargetsQueued' /\ NoOrphanWaiter'
<1> SUFFICES ASSUME TypeOK, CallInputs, JobAtHead, Alone, ResultSet, TargetsQueued,
                    NoOrphanWaiter, [Next]_vars
             PROVE  TargetsQueued' /\ NoOrphanWaiter'
    OBVIOUS
<1>t. call \in [Calls -> CallRecord] /\ outcome \in [Calls -> {"none", "done", "queued", "failed"}]
    BY DEF TypeOK
<1>s. \A ids : \A status \in {"done", "queued", "failed"} :
         /\ \A x \in Calls : Settled(ids, status)[x] = "none" => outcome[x] = "none"
         /\ \A x \in Calls : AllSettled(status)[x] = "none" => outcome[x] = "none"
    BY <1>t DEF Settled, AllSettled
<1>1. ASSUME NEW c \in Calls, NEW op \in Ops, NEW d \in Docs, NEW unsynced \in BOOLEAN,
             Enqueue(c, op, d, unsynced)
      PROVE  TargetsQueued' /\ NoOrphanWaiter'
    BY <1>1, <1>t DEF Enqueue, NoCall, TargetsQueued, NoOrphanWaiter, Waits
<1>2. ASSUME NEW c \in Calls, CallStep(c) PROVE TargetsQueued' /\ NoOrphanWaiter'
    <2>0. \A x \in Calls : x # c => call'[x] = call[x]
        BY <1>2, CallsKeepInputs
    <2>1. CASE StartJob(c) \/ EndDrops(c)
        <3>1. /\ call[c].target = 0 /\ call'[c].target = 0
              /\ call'[c].phase \in {"reading", "decided", "adding"}
            <4>1. call[c].target = 0
                BY <2>1 DEF StartJob, EndDrops, TargetsQueued
            <4>2. CASE StartJob(c)
                <5>1. call'[c] = [call[c] EXCEPT !.phase = "reading", !.seen = inflight]
                    BY <4>2, <1>t DEF StartJob
                <5> QED BY <5>1, <4>1, <1>t DEF CallRecord
            <4>3. CASE EndDrops(c)
                BY <4>3, <4>1, <1>t DEF EndDrops, DecideDone, CallRecord
            <4> QED BY <2>1, <4>2, <4>3
        <3>2. UNCHANGED <<outbox, flushes>>
              /\ \A x \in Calls : x # c => outcome'[x] = outcome[x]
            BY <2>1, <1>t DEF StartJob, EndDrops, DecideDone
        <3> QED BY <2>0, <3>1, <3>2 DEF TargetsQueued, NoOrphanWaiter, Waits
    <2>2. CASE Decide(c)
        <3>0. call[c].target = 0
            BY <2>2 DEF Decide, TargetsQueued
        <3>1. /\ call'[c].phase \in {"dropping", "decided", "adding"}
              /\ call'[c].target = 0 \/ (call'[c].phase = "decided" /\ InQueue(call'[c].target))
            <4>1. CASE call' = [call EXCEPT ![c].phase = "decided"]
                    \/ call' = [call EXCEPT ![c].phase = "adding"]
                BY <4>1, <3>0, <1>t DEF CallRecord
            <4>2. CASE \E e \in Oldest(Foldable(c)) :
                     call' = [call EXCEPT ![c] = [@ EXCEPT !.phase = "decided", !.target = e.id]]
                <5>1. PICK e \in outbox :
                     call' = [call EXCEPT ![c] = [@ EXCEPT !.phase = "decided", !.target = e.id]]
                    BY <4>2 DEF Oldest, Foldable, Same
                <5> QED BY <5>1, <1>t DEF CallRecord, InQueue
            <4>3. CASE call' = [call EXCEPT ![c] = [@ EXCEPT
                             !.phase = "dropping",
                             !.drop = {e.id : e \in Same(c)},
                             !.hadAdd = \E e \in Same(c) : e.op = "add"]]
                <5> DEFINE S == {e.id : e \in Same(c)}
                           b == \E e \in Same(c) : e.op = "add"
                <5>1. call'[c] = [call[c] EXCEPT !.phase = "dropping", !.drop = S, !.hadAdd = b]
                    BY <4>3, <1>t
                <5> HIDE DEF S, b
                <5> QED BY <5>1, <3>0, <1>t DEF CallRecord
            <4> QED BY <2>2, <4>1, <4>2, <4>3 DEF Decide, DecideDone
        <3>2. UNCHANGED <<outbox, flushes>>
              /\ \A x \in Calls : x # c => outcome'[x] = outcome[x]
            BY <2>2, <1>t DEF Decide, DecideDone
        <3> QED BY <2>0, <3>1, <3>2 DEF TargetsQueued, NoOrphanWaiter, Waits, InQueue
    <2>3. CASE Drop(c)
        <3>1. PICK i \in call[c].drop :
                  /\ outbox' = Without(outbox, i)
                  /\ call' = [call EXCEPT ![c].drop = @ \ {i}]
                  /\ outcome' = Settled({i}, "done")
            BY <2>3 DEF Drop
        <3>2. \A x \in Calls : call[x].phase # "decided"
            BY <2>3 DEF Drop, JobAtHead, InJob, AtHead
        <3>3. \A x \in Calls : call'[x].phase = call[x].phase /\ call'[x].target = call[x].target
            BY <3>1, <1>t DEF CallRecord
        <3> QED BY <2>3, <3>1, <3>2, <3>3, RemovingSettles DEF Drop
    <2>4. CASE AddEntry(c)
        <3>1. call'[c].phase = "decided" /\ call'[c].target = nextId
            <4>1. call'[c] = [call[c] EXCEPT !.phase = "decided", !.target = nextId,
                                             !.created = TRUE]
                BY <2>4, <1>t DEF AddEntry
            <4> QED BY <4>1, <1>t DEF CallRecord
        <3>2. outbox \subseteq outbox' /\ UNCHANGED <<flushes, outcome>>
            BY <2>4 DEF AddEntry
        <3>3. \E e \in outbox' : e.id = nextId
            <4> DEFINE e == [id |-> nextId, op |-> call[c].op, doc |-> call[c].doc,
                             attempts |-> 0]
            <4>1. e \in outbox' /\ e.id = nextId
                BY <2>4 DEF AddEntry
            <4> QED BY <4>1
        <3> QED BY <2>0, <3>1, <3>2, <3>3 DEF TargetsQueued, NoOrphanWaiter, Waits
    <2>5. CASE EndJob(c)
        <3>1. /\ call'[c].phase = "recorded" /\ call'[c].target = call[c].target
              /\ call[c].phase = "decided"
            BY <2>5, <1>t DEF EndJob, CallRecord
        <3> QED BY <2>0, <2>5, <3>1 DEF EndJob, TargetsQueued, NoOrphanWaiter, Waits
    <2>6. CASE Resume(c) \/ Reported(c)
        <3>1. /\ call'[c].phase \in {"reporting", "waiting"} /\ call'[c].target = call[c].target
              /\ call[c].phase \in {"recorded", "reporting"}
            BY <2>6, <1>t DEF Resume, Reported, CallRecord
        <3>2. \A x \in Calls : outcome'[x] = "none" => outcome[x] = "none"
            BY <2>6, <1>s DEF Resume, Reported
        <3> QED BY <2>0, <2>6, <3>1, <3>2
                DEF Resume, Reported, TargetsQueued, NoOrphanWaiter, Waits
    <2> QED BY <1>2, <2>1, <2>2, <2>3, <2>4, <2>5, <2>6 DEF CallStep
<1>3. CASE ConfirmHead
    <2>1. \A x \in Calls : call[x].phase # "decided"
        BY <1>3, ConfirmAssumption DEF ConfirmHead, JobAtHead, InJob, AtHead
    <2>2. result \in {"done", "failed"}
        BY <1>3 DEF ConfirmHead, ResultSet, TypeOK
    <2> QED BY <1>3, <2>1, <2>2, RemovingSettles DEF ConfirmHead
<1>4. CASE PersistRetry
    <2>1. \A e \in outbox : [e EXCEPT !.attempts = MoreAttempts(head.attempts)].id = e.id
        BY EntryFields, MoreAttemptsType, EntryAttempts DEF TypeOK
    <2>2. \A i : InQueue(i) => InQueue(i)'
        BY <1>4, <2>1 DEF PersistRetry, InQueue
    <2> QED BY <1>4, <2>2, SettlingKeeps DEF PersistRetry
<1>5. ASSUME LoopStep PROVE TargetsQueued' /\ NoOrphanWaiter'
    <2>1. CASE GiveUp \/ RetryReported
        BY <2>1, <1>s, SettlingKeeps DEF GiveUp, RetryReported, InQueue
    <2> QED BY <1>3, <1>4, <1>5, <2>1, SettlingKeeps
            DEF LoopStep, LockGranted, LockBusy, LoopRead, LoopIdle, LoopExecute, LoopEnd, InQueue
<1>6. ASSUME Environment PROVE TargetsQueued' /\ NoOrphanWaiter'
    <2>1. CASE Start \/ Wake \/ TimerFires \/ OtherTakesLock \/ OtherExecutes \/ OtherReleasesLock
        BY <2>1, SettlingKeeps
           DEF Start, Wake, TimerFires, OtherTakesLock, OtherExecutes, OtherReleasesLock, InQueue
    <2>2. CASE Stop \/ Cleared
        BY <2>2, <1>s, SettlingKeeps DEF Stop, Cleared, InQueue
    <2>3. CASE Flush
        <3>1. flushes' # 0 /\ UNCHANGED call
            BY <2>3 DEF Flush, TypeOK
        <3> QED BY <3>1 DEF TargetsQueued, NoOrphanWaiter
    <2>4. CASE OtherConfirms
        BY <2>4 DEF OtherConfirms, Alone, TargetsQueued, NoOrphanWaiter
    <2>5. CASE Crash
        BY <2>5 DEF Crash, NoCall, TargetsQueued, NoOrphanWaiter, Waits
    <2> QED BY <1>6, <2>1, <2>2, <2>3, <2>4, <2>5 DEF Environment
<1>7. (\E status \in {"done", "failed"} : ExecuteEnds(status)) \/ ExecuteRetries \/ UNCHANGED vars
      => TargetsQueued' /\ NoOrphanWaiter'
    BY SettlingKeeps DEF ExecuteEnds, ExecuteRetries, vars, InQueue
<1> QED BY <1>1, <1>2, <1>5, <1>6, <1>7 DEF Next

-----------------------------------------------------------------------------
(* The queue does not fall asleep over entries *)

Awake == LoopWakes /\ NoStrandedQueue
SomeoneWakes == \E c \in Calls : WillTrigger(c)

\* A trigger leaves a started queue awake.
LEMMA TriggerWakes ==
    ASSUME Trigger, UNCHANGED <<started, stopped>>
    PROVE  Awake'
BY DEF Trigger, Awake, LoopWakes, NoStrandedQueue, Running

\* So do steps that leave the loop alone, and add nothing without a call that
\* will trigger.
LEMMA QuietStep ==
    ASSUME Awake, UNCHANGED <<started, stopped, loop, head, again, timer>>,
           outbox' # {} => outbox # {} \/ SomeoneWakes',
           SomeoneWakes => SomeoneWakes'
    PROVE  Awake'
BY DEF Awake, LoopWakes, NoStrandedQueue, Running, SomeoneWakes

\* A call that adds an entry will trigger, and its trigger wakes the loop.
LEMMA CallStepAwake ==
    ASSUME TypeOK, CallInputs, TargetsQueued, Awake, NEW c \in Calls, CallStep(c)
    PROVE  Awake'
<1>t. call \in [Calls -> CallRecord] /\ nextId # 0
    BY DEF TypeOK
<1>0. \A x \in Calls : x # c => call'[x] = call[x]
    BY CallsKeepInputs
<1>1. CASE StartJob(c) \/ Decide(c) \/ Drop(c) \/ EndDrops(c)
    <2>1. ~WillTrigger(c)
        BY <1>1 DEF StartJob, Decide, Drop, EndDrops, WillTrigger
    <2>2. SomeoneWakes => SomeoneWakes'
        BY <1>0, <2>1 DEF SomeoneWakes, WillTrigger
    <2>3. outbox' \subseteq outbox
        BY <1>1 DEF StartJob, Decide, Drop, EndDrops, Without
    <2>4. UNCHANGED <<started, stopped, loop, head, again, timer>>
        BY <1>1 DEF StartJob, Decide, Drop, EndDrops
    <2> QED BY <2>2, <2>3, <2>4, QuietStep
<1>2. CASE AddEntry(c)
    <2>1. call'[c] = [call[c] EXCEPT !.phase = "decided", !.target = nextId, !.created = TRUE]
        BY <1>2, <1>t DEF AddEntry
    <2>2. WillTrigger(c)'
        BY <2>1, <1>t DEF CallRecord, WillTrigger
    <2> QED BY <1>2, <2>2, QuietStep DEF AddEntry, SomeoneWakes
<1>3. CASE EndJob(c)
    <2>1. /\ call[c].phase = "decided" /\ call'[c].phase = "recorded"
          /\ call'[c].target = call[c].target
        BY <1>3, <1>t DEF EndJob, CallRecord
    <2>2. SomeoneWakes => SomeoneWakes'
        BY <1>0, <2>1 DEF SomeoneWakes, WillTrigger
    <2> QED BY <1>3, <2>2, QuietStep DEF EndJob
<1>4. CASE Resume(c)
    <2>1. CASE Trigger
        BY <1>4, <2>1, TriggerWakes DEF Resume
    <2>2. CASE UNCHANGED <<loop, again, timer>>
               /\ ((call[c].target = 0 /\ call[c].phase = "recorded") \/ call'[c].phase = "reporting")
        <3>1. SomeoneWakes => SomeoneWakes'
            BY <1>0, <2>2 DEF SomeoneWakes, WillTrigger
        <3> QED BY <1>4, <2>2, <3>1, QuietStep DEF Resume
    <2> QED BY <1>4, <1>t, <2>1, <2>2 DEF Resume, CallRecord
<1>5. CASE Reported(c)
    BY <1>5, TriggerWakes DEF Reported
<1> QED BY <1>1, <1>2, <1>3, <1>4, <1>5 DEF CallStep

\* The loop ends asleep only if it saw an empty queue, or armed the timer.
LEMMA LoopStepAwake ==
    ASSUME TypeOK, Awake, LoopStep
    PROVE  Awake'
<1>1. CASE LockGranted \/ LockBusy \/ LoopExecute \/ ConfirmHead \/ PersistRetry
    BY <1>1 DEF LockGranted, LockBusy, LoopExecute, ConfirmHead, PersistRetry, Awake, LoopWakes,
                NoStrandedQueue, Running
<1>2. CASE GiveUp \/ RetryReported
    <2>1. stopped' = stopped /\ (~stopped => timer')
        BY <1>2, Zenon DEF GiveUp, RetryReported, Schedule, lifeVars
    <2>2. stopped' \/ timer'
        BY <2>1, Zenon
    <2> QED BY <2>2, Zenon DEF Awake, LoopWakes, NoStrandedQueue
<1>3. CASE LoopRead
    <2>1. NoEntry \notin Entry
        BY DEF NoEntry, Entry
    <2> QED BY <1>3, <2>1 DEF LoopRead, Oldest, TypeOK, Awake, LoopWakes, NoStrandedQueue, Running
<1>4. CASE LoopIdle
    BY <1>4 DEF LoopIdle, Awake, LoopWakes, NoStrandedQueue, Running, WillTrigger
<1>5. CASE LoopEnd
    BY <1>5 DEF LoopEnd, Awake, LoopWakes, NoStrandedQueue, Running, WillTrigger
<1> QED BY <1>1, <1>2, <1>3, <1>4, <1>5 DEF LoopStep

\* No step leaves a started queue asleep over entries.
LEMMA AwakePreserved ==
    TypeOK /\ CallInputs /\ TargetsQueued /\ Alone /\ Awake /\ [Next]_vars => Awake'
<1> SUFFICES ASSUME TypeOK, CallInputs, TargetsQueued, Alone, Awake, [Next]_vars
             PROVE  Awake'
    OBVIOUS
<1>1. ASSUME NEW c \in Calls, NEW op \in Ops, NEW d \in Docs, NEW unsynced \in BOOLEAN,
             Enqueue(c, op, d, unsynced)
      PROVE  Awake'
    <2>1. SomeoneWakes => SomeoneWakes'
        BY <1>1 DEF Enqueue, TypeOK, SomeoneWakes, WillTrigger
    <2> QED BY <1>1, <2>1, QuietStep DEF Enqueue
<1>2. ASSUME Environment PROVE Awake'
    <2>1. CASE Wake \/ TimerFires
        BY <2>1, TriggerWakes DEF Wake, TimerFires
    <2>2. CASE Start
        BY <2>2 DEF Start, Running, Awake, LoopWakes, NoStrandedQueue
    <2>3. CASE Stop \/ Crash \/ Flush
        BY <2>3 DEF Stop, Crash, Flush, Awake, LoopWakes, NoStrandedQueue
    <2>4. CASE Cleared
        BY <2>4, QuietStep DEF Cleared, SomeoneWakes, WillTrigger
    <2>5. CASE OtherTakesLock \/ OtherExecutes \/ OtherConfirms \/ OtherReleasesLock
        <3>1. Shared
            BY <2>5 DEF OtherTakesLock, OtherExecutes, OtherConfirms, OtherReleasesLock, Alone
        <3> QED BY <3>1 DEF Awake, LoopWakes, NoStrandedQueue
    <2> QED BY <1>2, <2>1, <2>2, <2>3, <2>4, <2>5 DEF Environment
<1>3. ASSUME (\E status \in {"done", "failed"} : ExecuteEnds(status)) \/ ExecuteRetries
      PROVE  Awake'
    BY <1>3 DEF ExecuteEnds, ExecuteRetries, Awake, LoopWakes, NoStrandedQueue, Running
<1>4. CASE UNCHANGED vars
    BY <1>4, QuietStep DEF vars, SomeoneWakes, WillTrigger
<1> QED BY <1>1, <1>2, <1>3, <1>4, CallStepAwake, LoopStepAwake DEF Next

-----------------------------------------------------------------------------
(* The inductive invariant and the theorems *)

\* The inductive invariant holds of a fresh client.
LEMMA InitInvariant == Init => IInv
<1> SUFFICES ASSUME Init PROVE IInv
    OBVIOUS
<1>1. TypeOK
    <2>1. serial \in Seq(Calls \cup {Confirm})
        BY DEF Init
    <2>2. call \in [Calls -> CallRecord]
        BY NoCallType DEF Init
    <2>3. outcome \in [Calls -> {"none", "done", "queued", "failed"}]
        BY DEF Init
    <2>4. crashes \in 0..MaxCrashes /\ flushes \in 0..MaxFlushes
        BY BoundsAssumption DEF Init
    <2>5. again \in BOOLEAN /\ stalled \in BOOLEAN /\ timer \in BOOLEAN
          /\ started \in BOOLEAN /\ stopped \in BOOLEAN
          /\ elsewhere \in BOOLEAN /\ flushing \in BOOLEAN
        BY Zenon DEF Init
    <2> QED BY <2>1, <2>2, <2>3, <2>4, <2>5 DEF Init, TypeOK, LoopPhases
<1>2. CallInputs /\ JobAtHead /\ TargetsQueued /\ NoOrphanWaiter
    BY DEF Init, NoCall, CallInputs, JobAtHead, InJob, TargetsQueued, NoOrphanWaiter, Waits
<1>3. IdsGrow /\ HeadIsOldest /\ ResultSet /\ Alone /\ LoopWakes /\ NoStrandedQueue
    BY DEF Init, NoEntry, IdsGrow, HeadIsOldest, ResultSet, Alone, LoopWakes, NoStrandedQueue
<1> QED BY <1>1, <1>2, <1>3 DEF IInv

\* The inductive invariant is kept by every step.
LEMMA NextInvariant == IInv /\ [Next]_vars => IInv'
BY TypePreserved, InputsPreserved, IdsGrowPreserved, HeadIsOldestPreserved, ResultSetPreserved,
   JobAtHeadPreserved, AlonePreserved, NoOrphanPreserved, AwakePreserved DEF IInv, Awake

\* The inductive invariant holds in every reachable state.
THEOREM Invariance == Spec => []IInv
BY InitInvariant, NextInvariant, PTL DEF Spec

\* Every reachable state of the queue is well typed.
THEOREM TypeCorrect == Spec => []TypeOK
<1>1. IInv => TypeOK
    BY DEF IInv
<1> QED BY <1>1, Invariance, PTL

\* LivequeryOutbox is strictly FIFO: while an entry is being sent, the queue
\* holds no older one, whatever deletes, crashes and other tabs do.
THEOREM StrictFifo == Spec => []InOrder
<1>1. IInv => InOrder
    BY DEF IInv, HeadIsOldest, InOrder
<1> QED BY <1>1, Invariance, PTL

\* On a storage of its own that is not flushed, no mutation waits for an entry
\* that left the queue.
THEOREM NoOrphans == Spec => []NoOrphanWaiter
<1>1. IInv => NoOrphanWaiter
    BY DEF IInv
<1> QED BY <1>1, Invariance, PTL

\* A started queue with entries in it is always about to drain.
THEOREM NeverStranded == Spec => []NoStrandedQueue
<1>1. IInv => NoStrandedQueue
    BY DEF IInv
<1> QED BY <1>1, Invariance, PTL

-----------------------------------------------------------------------------
(* One sender, and `done` only for what was sent: what makes them inductive. *)

\* Who drains holds the lock, and the other context sends only while it does.
LockHeld ==
    /\ HoldsLock => ~elsewhere
    /\ sending # NoEntry => elsewhere

\* Phases of a call that did not choose an entry yet, or never will.
Undecided == {"new", "queued", "reading", "dropping", "adding", "lost"}

\* A call that did not decide has no outcome and made no entry; who made one keeps
\* its id, which no later entry gets; only a delete drops, and only what exists.
CallShaped(c) ==
    /\ call[c].phase \in Undecided => ~call[c].created /\ outcome[c] = "none"
    /\ call[c].created => call[c].target # 0 /\ call[c].target < nextId
    /\ call[c].phase \in {"new", "lost"} => call[c].op = "none"
    /\ call[c].phase = "dropping" => call[c].op = "delete"
    /\ call[c].phase # "dropping" => call[c].drop = {}
    /\ \A i \in call[c].drop : i < nextId
CallsShaped == \A c \in Calls : CallShaped(c)

\* The entry a call made is of its document, in the queue and in a delete's hands.
EntryOwned(c) ==
    call[c].created =>
        /\ \A e \in outbox : e.id = call[c].target => e.doc = call[c].doc
        /\ \A d \in Calls : call[c].target \in call[d].drop => call[d].doc = call[c].doc
EntriesOwned == \A c \in Calls : EntryOwned(c)

\* Whoever made the entry the loop works on is in what its execution has read.
HeadCarries(c) ==
    call[c].created /\ call[c].target = head.id =>
        /\ head.doc = call[c].doc
        /\ loop \in {"executing", "confirming"} => c \in carried
HeadCarried == \A c \in Calls : HeadCarries(c)

\* A delete of the document that has begun to drop.
Deletes(d, x) ==
    /\ call[d].op = "delete" /\ call[d].doc = x
    /\ call[d].phase \notin {"queued", "reading"}

SentIInv == LockHeld /\ CallsShaped /\ EntriesOwned /\ HeadCarried /\ DoneIsSent

\* The lock is taken by one context at a time, and held while an entry is sent.
LEMMA LockHeldPreserved == TypeOK /\ LockHeld /\ [Next]_vars => LockHeld'
<1> SUFFICES ASSUME TypeOK, LockHeld, [Next]_vars PROVE LockHeld'
    OBVIOUS
<1> USE DEF LockHeld, HoldsLock
<1>t. Trigger => loop' \in {loop, "locking"}
    BY DEF Trigger
<1>1. ASSUME NEW c \in Calls, NEW op \in Ops, NEW d \in Docs, NEW unsynced \in BOOLEAN,
             Enqueue(c, op, d, unsynced)
      PROVE  LockHeld'
    BY <1>1 DEF Enqueue
<1>2. ASSUME NEW c \in Calls, CallStep(c) PROVE LockHeld'
    <2>1. loop' \in {loop, "locking"} /\ UNCHANGED <<elsewhere, sending>>
        BY <1>2, <1>t DEF CallStep, StartJob, Decide, Drop, EndDrops, AddEntry, EndJob, Resume,
                          Reported
    <2> QED BY <2>1
<1>3. ASSUME LoopStep PROVE LockHeld'
    BY <1>3 DEF LoopStep, LockGranted, LockBusy, GiveUp, LoopRead, LoopIdle, LoopExecute,
                ConfirmHead, PersistRetry, RetryReported, LoopEnd
<1>4. ASSUME (\E status \in {"done", "failed"} : ExecuteEnds(status)) \/ ExecuteRetries
      PROVE  LockHeld'
    BY <1>4 DEF ExecuteEnds, ExecuteRetries
<1>5. ASSUME Environment PROVE LockHeld'
    <2>1. CASE Start \/ Stop \/ Wake \/ TimerFires \/ Flush \/ Cleared \/ Crash
        <3>1. loop' \in {loop, "locking", "off"} /\ UNCHANGED <<elsewhere, sending>>
            BY <2>1, <1>t DEF Start, Stop, Wake, TimerFires, Flush, Cleared, Crash
        <3> QED BY <3>1
    <2>2. CASE OtherTakesLock \/ OtherExecutes \/ OtherConfirms \/ OtherReleasesLock
        BY <2>2 DEF OtherTakesLock, OtherExecutes, OtherConfirms, OtherReleasesLock
    <2> QED BY <1>5, <2>1, <2>2 DEF Environment
<1>6. CASE UNCHANGED vars
    BY <1>6 DEF vars
<1> QED BY <1>1, <1>2, <1>3, <1>4, <1>5, <1>6 DEF Next

\* Except for a crash, only a settled waiter and a call that decides to do nothing
\* get an outcome, and one of its own is `done`: a dropped or confirmed entry's.
LEMMA OutcomesMove ==
    ASSUME TypeOK, CallsShaped, [Next]_vars, ~Crash, NEW x \in Calls, outcome'[x] # outcome[x]
    PROVE  \/ /\ Waits(x)
              /\ outcome'[x] = "done" =>
                    \/ \E d \in Calls : Drop(d) /\ call[x].target \in call[d].drop
                    \/ ConfirmHead /\ call[x].target = head.id
           \/ call'[x].phase = "decided" /\ ~call'[x].created
<1>o. outcome \in [Calls -> {"none", "done", "queued", "failed"}]
    BY DEF TypeOK
<1>a. \A s : outcome' = AllSettled(s) => Waits(x) /\ outcome'[x] = s
    BY <1>o DEF AllSettled
<1>s. \A s, ids : outcome' = Settled(ids, s) =>
                      Waits(x) /\ outcome'[x] = s /\ call[x].target \in ids
    BY <1>o DEF Settled
<1>1. ASSUME NEW c \in Calls, NEW op \in Ops, NEW d \in Docs, NEW unsynced \in BOOLEAN
      PROVE  ~Enqueue(c, op, d, unsynced)
    BY DEF Enqueue
<1>2. ASSUME NEW c \in Calls, CallStep(c)
      PROVE  \/ Waits(x) /\ outcome'[x] # "done"
             \/ Waits(x) /\ Drop(c) /\ call[x].target \in call[c].drop
             \/ call'[x].phase = "decided" /\ ~call'[x].created
    <2>1. CASE Drop(c)
        <3>1. PICK i \in call[c].drop : outcome' = Settled({i}, "done")
            BY <2>1 DEF Drop
        <3>2. Waits(x) /\ call[x].target \in {i}
            BY <3>1, <1>s
        <3> QED BY <2>1, <3>2
    <2>2. CASE Resume(c) \/ Reported(c)
        BY <2>2, <1>s DEF Resume, Reported
    <2>3. CASE Decide(c) \/ EndDrops(c)
        <3>1. DecideDone(c) /\ x = c /\ call[c].phase \in Undecided
            BY <2>3, <1>o DEF Decide, EndDrops, DecideDone, Undecided
        <3>2. call'[c] = [call[c] EXCEPT !.phase = "decided"] /\ call[c] \in CallRecord
            BY <3>1 DEF DecideDone, TypeOK
        <3>3. ~call[c].created
            BY <3>1 DEF CallsShaped, CallShaped
        <3> QED BY <3>1, <3>2, <3>3 DEF CallRecord
    <2>4. CASE StartJob(c) \/ AddEntry(c) \/ EndJob(c)
        BY <2>4 DEF StartJob, AddEntry, EndJob
    <2> QED BY <1>2, <2>1, <2>2, <2>3, <2>4 DEF CallStep
<1>3. ASSUME LoopStep
      PROVE  Waits(x) /\ (outcome'[x] = "done" => ConfirmHead /\ call[x].target = head.id)
    <2>1. CASE ConfirmHead
        BY <2>1, <1>s DEF ConfirmHead
    <2>2. CASE GiveUp \/ RetryReported
        BY <2>2, <1>a DEF GiveUp, RetryReported
    <2> QED BY <1>3, <2>1, <2>2 DEF LoopStep, LockGranted, LockBusy, LoopRead, LoopIdle,
                                    LoopExecute, PersistRetry, LoopEnd
<1>4. ~ExecuteRetries /\ \A status \in {"done", "failed"} : ~ExecuteEnds(status)
    BY DEF ExecuteEnds, ExecuteRetries
<1>5. ASSUME Environment PROVE Waits(x) /\ outcome'[x] # "done"
    <2>1. CASE Stop \/ Cleared
        BY <2>1, <1>a DEF Stop, Cleared
    <2> QED BY <1>5, <2>1 DEF Environment, Start, Wake, TimerFires, Flush, OtherTakesLock,
                              OtherExecutes, OtherConfirms, OtherReleasesLock
<1>6. ~UNCHANGED vars
    BY DEF vars
<1> QED BY <1>1, <1>2, <1>3, <1>4, <1>5, <1>6 DEF Next

\* What a step of a call does to its record.
LEMMA CallMoves ==
    ASSUME TypeOK, CallsShaped, NEW c \in Calls, CallStep(c)
    PROVE  /\ call'[c].phase \notin {"new", "lost", "queued"}
           /\ call'[c].phase \in Undecided => call[c].phase \in Undecided /\ ~call'[c].created
           /\ call'[c].phase = "reading" => call[c].phase = "queued"
           /\ call'[c].created => \/ call[c].created /\ call'[c].target = call[c].target
                                  \/ AddEntry(c) /\ call'[c].target = nextId
           /\ \/ call'[c].drop \subseteq call[c].drop
              \/ call'[c].drop = {e.id : e \in Same(c)}
           /\ call'[c].phase = "dropping" => call[c].op = "delete"
           /\ call'[c].phase # "dropping" => call'[c].drop = {}
<1> DEFINE r == call[c]
<1>r. r \in CallRecord /\ call \in [Calls -> CallRecord] /\ CallShaped(c)
    BY DEF TypeOK, CallsShaped
<1> DEFINE moved(p) == [r EXCEPT !.phase = p]
<1>m. \A p : /\ moved(p).phase = p /\ moved(p).created = r.created
             /\ moved(p).target = r.target /\ moved(p).drop = r.drop
    BY <1>r DEF CallRecord
<1>1. CASE StartJob(c)
    <2>1. call'[c] = [r EXCEPT !.phase = "reading", !.seen = inflight]
        BY <1>1, <1>r DEF StartJob
    <2>2. /\ call'[c].phase = "reading" /\ call'[c].created = r.created
          /\ call'[c].target = r.target /\ call'[c].drop = r.drop
        BY <2>1, <1>r DEF CallRecord
    <2> QED BY <1>1, <1>r, <2>2 DEF StartJob, CallShaped, Undecided
<1>2. CASE Decide(c)
    <2>1. CASE call' = [call EXCEPT ![c].phase = "decided"]
               \/ call' = [call EXCEPT ![c].phase = "adding"]
        <3>1. PICK p \in {"decided", "adding"} : call'[c] = moved(p)
            BY <2>1, <1>r
        <3>2. r.phase = "reading"
            BY <1>2 DEF Decide
        <3>3. /\ call'[c].phase = p /\ call'[c].created = r.created
              /\ call'[c].target = r.target /\ call'[c].drop = r.drop
            BY <3>1, <1>m
        <3> HIDE DEF moved
        <3> QED BY <3>1, <3>2, <3>3, <1>r DEF CallShaped, Undecided
    <2>2. CASE \E e \in Oldest(Foldable(c)) :
                  call' = [call EXCEPT ![c] = [@ EXCEPT !.phase = "decided", !.target = e.id]]
        <3>1. PICK i : call'[c] = [r EXCEPT !.phase = "decided", !.target = i]
            BY <2>2, <1>r
        <3>2. call'[c].phase = "decided" /\ call'[c].created = r.created /\ call'[c].drop = r.drop
            BY <3>1, <1>r DEF CallRecord
        <3> QED BY <1>2, <3>2, <1>r DEF Decide, CallShaped, Undecided
    <2>3. ASSUME call[c].op = "delete",
                 call' = [call EXCEPT ![c] = [@ EXCEPT
                         !.phase = "dropping",
                         !.drop = {e.id : e \in Same(c)},
                         !.hadAdd = \E e \in Same(c) : e.op = "add"]]
          PROVE  /\ call'[c].phase = "dropping" /\ call'[c].created = r.created
                 /\ call'[c].drop = {e.id : e \in Same(c)}
        <3> DEFINE S == {e.id : e \in Same(c)}
                   b == \E e \in Same(c) : e.op = "add"
        <3>1. call'[c] = [r EXCEPT !.phase = "dropping", !.drop = S, !.hadAdd = b]
            BY <2>3, <1>r
        <3> HIDE DEF S, b
        <3>2. call'[c].phase = "dropping" /\ call'[c].created = r.created /\ call'[c].drop = S
            BY <3>1, <1>r DEF CallRecord
        <3> QED BY <3>2 DEF S
    <2> HIDE DEF moved
    <2> QED BY <1>2, <1>r, <2>1, <2>2, <2>3 DEF Decide, DecideDone, CallShaped, Undecided
<1>3. CASE Drop(c)
    <2>1. PICK i \in r.drop : call'[c] = [r EXCEPT !.drop = r.drop \ {i}]
        BY <1>3, <1>r DEF Drop
    <2>2. /\ call'[c].phase = r.phase /\ call'[c].created = r.created
          /\ call'[c].target = r.target /\ call'[c].drop = r.drop \ {i}
        BY <2>1, <1>r DEF CallRecord
    <2> QED BY <1>3, <1>r, <2>2 DEF Drop, CallShaped, Undecided
<1>4. CASE EndDrops(c)
    <2>1. PICK p \in {"decided", "adding"} : call'[c] = moved(p)
        BY <1>4, <1>r DEF EndDrops, DecideDone
    <2> HIDE DEF moved
    <2> QED BY <1>4, <2>1, <1>m, <1>r DEF EndDrops, CallShaped, Undecided
<1>5. CASE AddEntry(c)
    <2>1. call'[c] = [r EXCEPT !.phase = "decided", !.target = nextId, !.created = TRUE]
        BY <1>5, <1>r DEF AddEntry
    <2>2. call'[c].phase = "decided" /\ call'[c].target = nextId /\ call'[c].drop = r.drop
        BY <2>1, <1>r DEF CallRecord
    <2> QED BY <1>5, <1>r, <2>2 DEF AddEntry, CallShaped, Undecided
<1>6. CASE EndJob(c)
    <2>1. call'[c] = [r EXCEPT !.phase = "recorded", !.seen = NoEntry, !.hadAdd = FALSE]
        BY <1>6, <1>r DEF EndJob
    <2>2. /\ call'[c].phase = "recorded" /\ call'[c].created = r.created
          /\ call'[c].target = r.target /\ call'[c].drop = r.drop
        BY <2>1, <1>r DEF CallRecord
    <2> QED BY <1>6, <1>r, <2>2 DEF EndJob, CallShaped, Undecided
<1>7. CASE Resume(c) \/ Reported(c)
    <2>1. PICK p \in {"waiting", "reporting"} : call'[c] = moved(p)
        BY <1>7, <1>r DEF Resume, Reported
    <2>2. r.phase \in {"recorded", "reporting"}
        BY <1>7 DEF Resume, Reported
    <2> HIDE DEF moved
    <2> QED BY <2>2, <2>1, <1>m, <1>r DEF CallShaped, Undecided
<1> QED BY <1>1, <1>2, <1>3, <1>4, <1>5, <1>6, <1>7 DEF CallStep

\* The fields of a call that has just been made, and after a crash.
LEMMA FreshCall ==
    /\ \A op \in Ops, d \in Docs, u \in BOOLEAN :
          LET r == [NoCall EXCEPT !.phase = "queued", !.op = op, !.doc = d, !.unsynced = u]
          IN  r.phase = "queued" /\ ~r.created /\ r.drop = {}
    /\ \A r \in {NoCall, [NoCall EXCEPT !.phase = "lost"]} :
          r.phase \in {"new", "lost"} /\ r.op = "none" /\ ~r.created /\ r.drop = {}
BY DEF NoCall

\* Ids are only ever given out in order.
LEMMA NextIdGrows ==
    ASSUME TypeOK, [Next]_vars
    PROVE  /\ nextId' \in Nat /\ nextId \in Nat /\ nextId' >= nextId
           /\ \A c \in Calls : AddEntry(c) => nextId' = nextId + 1
<1>1. \A c \in Calls : AddEntry(c) => nextId' = nextId + 1
    BY DEF AddEntry
<1>2. nextId' # nextId => \E c \in Calls : AddEntry(c)
    BY DEF Next, vars, Enqueue, CallStep, StartJob, Decide, Drop, EndDrops, EndJob, Resume,
           Reported, LoopStep, LockGranted, LockBusy, GiveUp, LoopRead, LoopIdle, LoopExecute,
           ConfirmHead, PersistRetry, RetryReported, LoopEnd, ExecuteEnds, ExecuteRetries,
           Environment, Start, Stop, Wake, TimerFires, Flush, Cleared, OtherTakesLock,
           OtherExecutes, OtherConfirms, OtherReleasesLock, Crash
<1>3. nextId \in Nat
    BY DEF TypeOK
<1> QED BY <1>1, <1>2, <1>3

\* A step of a call or a new one is no crash: that one counts.
LEMMA NoCrashHere ==
    ASSUME TypeOK, Crash
    PROVE  /\ \A c \in Calls : ~CallStep(c)
           /\ \A c \in Calls, op \in Ops, d \in Docs, u \in BOOLEAN : ~Enqueue(c, op, d, u)
<1>1. crashes' # crashes
    BY DEF Crash, TypeOK
<1>2. \A c \in Calls : CallStep(c) => UNCHANGED crashes
    BY DEF CallStep, StartJob, Decide, Drop, EndDrops, AddEntry, EndJob, Resume, Reported
<1>3. \A c \in Calls, op \in Ops, d \in Docs, u \in BOOLEAN :
          Enqueue(c, op, d, u) => UNCHANGED crashes
    BY DEF Enqueue
<1> QED BY <1>1, <1>2, <1>3

\* Every step keeps the shape of the calls.
LEMMA CallsShapedPreserved ==
    ASSUME TypeOK, IdsGrow, CallsShaped, [Next]_vars
    PROVE  CallsShaped'
<1> SUFFICES ASSUME NEW x \in Calls PROVE CallShaped(x)'
    BY DEF CallsShaped
<1>t. /\ call[x] \in CallRecord /\ nextId \in Nat /\ nextId' \in Nat /\ nextId' >= nextId
      /\ CallShaped(x)
    BY NextIdGrows DEF TypeOK, CallsShaped
<1>i. call[x].target \in Nat /\ \A i \in call[x].drop : i \in Nat
    BY <1>t DEF CallRecord
<1>w. Waits(x) => call[x].phase \in {"recorded", "reporting", "waiting"}
    BY DEF Waits
<1>k. ASSUME call'[x] = call[x], ~Crash PROVE CallShaped(x)'
    <2>1. outcome'[x] # outcome[x] =>
              \/ call[x].phase \in {"recorded", "reporting", "waiting"}
              \/ call'[x].phase = "decided"
        BY <1>k, <1>w, OutcomesMove
    <2>2. call[x].phase \in Undecided => outcome'[x] = "none"
        BY <2>1, <1>k, <1>t DEF CallShaped, Undecided
    <2> QED BY <2>2, <1>k, <1>t, <1>i DEF CallShaped
<1>1. ASSUME NEW c \in Calls, NEW op \in Ops, NEW d \in Docs, NEW unsynced \in BOOLEAN,
             Enqueue(c, op, d, unsynced)
      PROVE  CallShaped(x)'
    <2>1. CASE x = c
        <3> DEFINE r == [NoCall EXCEPT !.phase = "queued", !.op = op, !.doc = d,
                                       !.unsynced = unsynced]
        <3>1. call'[x] = r /\ outcome'[x] = outcome[x] /\ outcome[x] = "none"
            BY <1>1, <2>1, <1>t DEF Enqueue, TypeOK, CallShaped, Undecided
        <3>2. r.phase = "queued" /\ ~r.created /\ r.drop = {}
            BY FreshCall
        <3> HIDE DEF r
        <3> QED BY <3>1, <3>2 DEF CallShaped
    <2>2. CASE x # c
        <3>1. call'[x] = call[x] /\ ~Crash
            BY <1>1, <2>2, NoCrashHere DEF Enqueue, TypeOK
        <3> QED BY <3>1, <1>k
    <2> QED BY <2>1, <2>2
<1>2. ASSUME NEW c \in Calls, CallStep(c) PROVE CallShaped(x)'
    <2>0. ~Crash
        BY <1>2, NoCrashHere
    <2>1. CASE x = c
        <3>1. call'[x].phase \in Undecided => outcome'[x] = "none"
            <4>1. SUFFICES ASSUME call'[x].phase \in Undecided PROVE outcome'[x] = outcome[x]
                BY <1>2, <2>1, <1>t, CallMoves DEF CallShaped
            <4>2. call[x].phase \in Undecided
                BY <1>2, <2>1, <4>1, CallMoves
            <4> QED BY <2>0, <1>w, <4>1, <4>2, OutcomesMove DEF Undecided
        <3>2. call'[x].created => call'[x].target # 0 /\ call'[x].target < nextId'
            <4>1. CASE AddEntry(c)
                BY <4>1, <1>2, <2>1, <1>t, <1>i, CallMoves, NextIdGrows DEF CallShaped, TypeOK
            <4>2. CASE ~AddEntry(c)
                BY <4>2, <1>2, <2>1, <1>t, <1>i, CallMoves DEF CallShaped
            <4> QED BY <4>1, <4>2
        <3>3. \A i \in call'[x].drop : i < nextId'
            <4>1. \A e \in Same(c) : e.id < nextId /\ e.id \in Nat
                BY DEF Same, IdsGrow, TypeOK, Entry
            <4>2. \A i \in {e.id : e \in Same(c)} : i < nextId /\ i \in Nat
                BY <4>1
            <4>3. \/ call'[x].drop \subseteq call[x].drop
                  \/ call'[x].drop = {e.id : e \in Same(c)}
                BY <1>2, <2>1, CallMoves
            <4>4. \A i \in call'[x].drop : i < nextId /\ i \in Nat
                BY <4>2, <4>3, <1>t, <1>i DEF CallShaped
            <4> QED BY <4>4, <1>t
        <3>4. /\ call'[x].phase \in Undecided => ~call'[x].created
              /\ call'[x].phase \notin {"new", "lost"}
              /\ call'[x].phase # "dropping" => call'[x].drop = {}
            BY <1>2, <2>1, CallMoves
        <3>5. call'[x].phase = "dropping" => call'[x].op = "delete"
            BY <1>2, <2>1, CallMoves, CallsKeepInputs
        <3> QED BY <3>1, <3>2, <3>3, <3>4, <3>5 DEF CallShaped
    <2>2. CASE x # c
        BY <1>2, <2>0, <2>2, <1>k, CallsKeepInputs
    <2> QED BY <2>1, <2>2
<1>3. CASE Crash
    <2>1. /\ call'[x] \in {NoCall, [NoCall EXCEPT !.phase = "lost"]}
          /\ outcome'[x] = "none"
        BY <1>3 DEF Crash
    <2> QED BY <2>1, FreshCall DEF CallShaped
<1>4. CASE UNCHANGED call /\ ~Crash
    BY <1>4, <1>k
<1> QED BY <1>1, <1>2, <1>3, <1>4, OthersKeepCalls DEF Next

\* What is stored is kept, dropped, counted up, or made by a call.
LEMMA EntriesStep ==
    ASSUME TypeOK, [Next]_vars, NEW f \in outbox'
    PROVE  \/ \E e \in outbox : f.id = e.id /\ f.doc = e.doc /\ f.op = e.op
           \/ \E c \in Calls : /\ AddEntry(c) /\ f.id = nextId
                               /\ f.doc = call[c].doc /\ f.op = call[c].op
<1> DEFINE Kept == \E e \in outbox : f.id = e.id /\ f.doc = e.doc /\ f.op = e.op
           Added(c) == /\ AddEntry(c) /\ f.id = nextId
                       /\ f.doc = call[c].doc /\ f.op = call[c].op
<1>0. \A i : outbox' = Without(outbox, i) => Kept
    BY DEF Without
<1>1. ASSUME NEW c \in Calls, NEW op \in Ops, NEW d \in Docs, NEW unsynced \in BOOLEAN,
             Enqueue(c, op, d, unsynced)
      PROVE  Kept
    BY <1>1 DEF Enqueue
<1>2. ASSUME NEW c \in Calls, CallStep(c)
      PROVE  Kept \/ Added(c)
    <2>1. CASE AddEntry(c)
        BY <2>1 DEF AddEntry
    <2>2. CASE Drop(c)
        BY <2>2, <1>0 DEF Drop
    <2> QED BY <1>2, <2>1, <2>2 DEF CallStep, StartJob, Decide, EndDrops, EndJob, Resume, Reported
<1>3. ASSUME LoopStep PROVE Kept
    <2>1. CASE PersistRetry
        <3>1. PICK e \in outbox : f = (IF e.id = head.id
                  THEN [e EXCEPT !.attempts = MoreAttempts(head.attempts)] ELSE e)
            BY <2>1 DEF PersistRetry
        <3>2. e \in Entry
            BY DEF TypeOK
        <3>3. f.id = e.id /\ f.doc = e.doc /\ f.op = e.op
            BY <3>1, <3>2 DEF Entry
        <3> QED BY <3>3
    <2>2. CASE ConfirmHead
        BY <2>2, <1>0 DEF ConfirmHead
    <2> QED BY <1>3, <2>1, <2>2 DEF LoopStep, LockGranted, LockBusy, GiveUp, LoopRead, LoopIdle,
                                    LoopExecute, RetryReported, LoopEnd
<1>4. ASSUME (\E status \in {"done", "failed"} : ExecuteEnds(status)) \/ ExecuteRetries
      PROVE  Kept
    BY <1>4 DEF ExecuteEnds, ExecuteRetries
<1>5. ASSUME Environment PROVE Kept
    <2>1. CASE OtherConfirms
        BY <2>1, <1>0 DEF OtherConfirms
    <2> QED BY <1>5, <2>1 DEF Environment, Start, Stop, Wake, TimerFires, Flush, Cleared,
                              OtherTakesLock, OtherExecutes, OtherReleasesLock, Crash
<1>6. ASSUME UNCHANGED vars PROVE Kept
    BY <1>6 DEF vars
<1> HIDE DEF Kept, Added
<1>7. Kept \/ \E c \in Calls : Added(c)
    BY <1>1, <1>2, <1>3, <1>4, <1>5, <1>6 DEF Next
<1> QED BY <1>7 DEF Kept, Added

\* Who made an entry did so before, for the same document, or is doing so now.
LEMMA CreatedStep ==
    ASSUME TypeOK, CallsShaped, [Next]_vars, NEW x \in Calls, call'[x].created
    PROVE  /\ call'[x].doc = call[x].doc
           /\ ~Crash
           /\ \/ call[x].created /\ call'[x].target = call[x].target
              \/ AddEntry(x) /\ call'[x].target = nextId
<1>1. ASSUME NEW c \in Calls, NEW op \in Ops, NEW d \in Docs, NEW unsynced \in BOOLEAN,
             Enqueue(c, op, d, unsynced)
      PROVE  call'[x] = call[x] /\ ~Crash
    <2>1. CASE x = c
        <3> DEFINE r == [NoCall EXCEPT !.phase = "queued", !.op = op, !.doc = d,
                                       !.unsynced = unsynced]
        <3>1. call'[x] = r
            BY <1>1, <2>1 DEF Enqueue, TypeOK
        <3>2. ~r.created
            BY FreshCall
        <3> HIDE DEF r
        <3> QED BY <3>1, <3>2
    <2> QED BY <1>1, <2>1, NoCrashHere DEF Enqueue, TypeOK
<1>2. ASSUME NEW c \in Calls, CallStep(c)
      PROVE  /\ ~Crash
             /\ \/ call'[x] = call[x]
                \/ /\ x = c /\ call'[x].doc = call[x].doc
                   /\ \/ call[x].created /\ call'[x].target = call[x].target
                      \/ AddEntry(x) /\ call'[x].target = nextId
    BY <1>2, CallMoves, CallsKeepInputs, NoCrashHere
<1>3. ~Crash
    <2>1. SUFFICES ASSUME Crash PROVE FALSE
        OBVIOUS
    <2>2. call'[x] \in {NoCall, [NoCall EXCEPT !.phase = "lost"]}
        BY <2>1 DEF Crash
    <2> QED BY <2>2, FreshCall
<1>4. CASE UNCHANGED call
    BY <1>3, <1>4
<1> QED BY <1>1, <1>2, <1>3, <1>4, OthersKeepCalls DEF Next

\* Nothing a delete drops is another document's.
LEMMA EntriesOwnedPreserved ==
    ASSUME TypeOK, IdsGrow, CallsShaped, EntriesOwned, [Next]_vars
    PROVE  EntriesOwned'
<1> SUFFICES ASSUME NEW x \in Calls, call'[x].created PROVE EntryOwned(x)'
    BY DEF EntriesOwned, EntryOwned
<1>x. /\ call'[x].doc = call[x].doc
      /\ ~Crash
      /\ \/ call[x].created /\ call'[x].target = call[x].target
         \/ AddEntry(x) /\ call'[x].target = nextId
    BY CreatedStep
<1>t. nextId \in Nat /\ call[x] \in CallRecord /\ CallShaped(x)
    BY DEF TypeOK, CallsShaped
<1>o. \A c1, c2 \in Calls : AddEntry(c1) /\ AddEntry(c2) => c1 = c2
    BY DEF AddEntry, AtHead
<1>1. ASSUME NEW f \in outbox', f.id = call'[x].target PROVE f.doc = call'[x].doc
    <2>1. ASSUME NEW e \in outbox, f.id = e.id, f.doc = e.doc PROVE f.doc = call[x].doc
        <3>1. e.id \in Nat /\ e.id < nextId
            BY DEF TypeOK, Entry, IdsGrow
        <3>2. call[x].created /\ e.id = call[x].target
            BY <1>x, <1>1, <2>1, <3>1, <1>t
        <3> QED BY <2>1, <3>2 DEF EntriesOwned, EntryOwned
    <2>2. ASSUME NEW c \in Calls, AddEntry(c), f.id = nextId, f.doc = call[c].doc
          PROVE  f.doc = call[x].doc
        <3>1. CASE AddEntry(x)
            BY <2>2, <3>1, <1>o
        <3>2. CASE call[x].created /\ call'[x].target = call[x].target
            <4>1. call[x].target < nextId /\ call[x].target \in Nat
                BY <3>2, <1>t DEF CallShaped, CallRecord
            <4> QED BY <4>1, <3>2, <2>2, <1>1, <1>t
        <3> QED BY <1>x, <3>1, <3>2
    <2> QED BY <2>1, <2>2, <1>x, EntriesStep
<1>2. ASSUME NEW d \in Calls, call'[x].target \in call'[d].drop PROVE call'[d].doc = call'[x].doc
    <2>0. \A i \in call[d].drop : i < nextId /\ i \in Nat
        BY DEF CallsShaped, CallShaped, TypeOK, CallRecord
    <2>1. CASE call'[x].target \in call[d].drop /\ call'[d].doc = call[d].doc
        <3>1. ~(AddEntry(x) /\ call'[x].target = nextId)
            BY <2>0, <2>1, <1>t
        <3> QED BY <3>1, <2>1, <1>x DEF EntriesOwned, EntryOwned
    <2>2. CASE UNCHANGED call
        BY <2>1, <2>2, <1>2
    <2>3. ASSUME NEW c \in Calls, NEW op \in Ops, NEW y \in Docs, NEW unsynced \in BOOLEAN,
                 Enqueue(c, op, y, unsynced)
          PROVE  call'[d].doc = call'[x].doc
        <3>1. CASE c = d
            <4> DEFINE r == [NoCall EXCEPT !.phase = "queued", !.op = op, !.doc = y,
                                           !.unsynced = unsynced]
            <4>1. call'[d] = r
                BY <2>3, <3>1 DEF Enqueue, TypeOK
            <4>2. r.drop = {}
                BY FreshCall
            <4> HIDE DEF r
            <4> QED BY <4>1, <4>2, <1>2
        <3>2. CASE c # d
            BY <2>1, <2>3, <3>2, <1>2 DEF Enqueue, TypeOK
        <3> QED BY <3>1, <3>2
    <2>4. ASSUME NEW c \in Calls, CallStep(c) PROVE call'[d].doc = call'[x].doc
        <3>1. call'[d].doc = call[d].doc
            BY <2>4, CallsKeepInputs
        <3>2. CASE call'[d].drop \subseteq call[d].drop
            BY <2>1, <3>1, <3>2, <1>2
        <3>3. CASE c = d /\ call'[d].drop = {e.id : e \in Same(c)}
            <4>1. PICK e \in Same(d) : call'[x].target = e.id
                BY <3>3, <1>2
            <4>2. e \in outbox /\ e.doc = call[d].doc /\ e.id < nextId /\ e.id \in Nat
                BY DEF Same, IdsGrow, TypeOK, Entry
            <4>3. call[x].created /\ call[x].target = e.id
                BY <4>1, <4>2, <1>x, <1>t
            <4> QED BY <4>2, <4>3, <3>1, <1>x DEF EntriesOwned, EntryOwned
        <3> QED BY <2>4, <3>2, <3>3, CallMoves, CallsKeepInputs
    <2> QED BY <1>x, <2>2, <2>3, <2>4, OthersKeepCalls DEF Next
<1> QED BY <1>1, <1>2 DEF EntryOwned

\* The loop forgets its head, reads one that is stored, executes it, or keeps it.
LEMMA HeadMoves ==
    ASSUME [Next]_vars
    PROVE  /\ carried \subseteq carried'
           /\ \/ head' = NoEntry
              \/ head' \in outbox /\ loop' = "got"
              \/ head' = head /\ LoopExecute
              \/ /\ head' = head
                 /\ loop' \in {"executing", "confirming"} => loop \in {"executing", "confirming"}
<1>t. Trigger => loop' \in {loop, "locking"}
    BY DEF Trigger
<1>1. ASSUME NEW c \in Calls, NEW op \in Ops, NEW d \in Docs, NEW unsynced \in BOOLEAN,
             Enqueue(c, op, d, unsynced)
      PROVE  UNCHANGED <<carried, head, loop>>
    BY <1>1 DEF Enqueue
<1>2. ASSUME NEW c \in Calls, CallStep(c)
      PROVE  UNCHANGED <<carried, head>> /\ loop' \in {loop, "locking"}
    BY <1>2, <1>t DEF CallStep, StartJob, Decide, Drop, EndDrops, AddEntry, EndJob, Resume, Reported
<1>3. CASE LoopStep
    BY <1>3 DEF LoopStep, LockGranted, LockBusy, GiveUp, LoopRead, LoopIdle, LoopExecute,
                ConfirmHead, PersistRetry, RetryReported, LoopEnd, Oldest
<1>4. CASE (\E status \in {"done", "failed"} : ExecuteEnds(status)) \/ ExecuteRetries
    BY <1>4 DEF ExecuteEnds, ExecuteRetries
<1>5. CASE Environment
    BY <1>5, <1>t DEF Environment, Start, Stop, Wake, TimerFires, Flush, Cleared, OtherTakesLock,
                      OtherExecutes, OtherConfirms, OtherReleasesLock, Crash
<1>6. CASE UNCHANGED vars
    BY <1>6 DEF vars
<1> QED BY <1>1, <1>2, <1>3, <1>4, <1>5, <1>6 DEF Next

\* What the loop executes carries the write of whoever made the entry: it was
\* written before the entry was.
LEMMA HeadCarriedPreserved ==
    ASSUME TypeOK, IdsGrow, CallsShaped, EntriesOwned, HeadCarried, [Next]_vars
    PROVE  HeadCarried'
<1> SUFFICES ASSUME NEW x \in Calls, call'[x].created, call'[x].target = head'.id
             PROVE  /\ head'.doc = call'[x].doc
                    /\ loop' \in {"executing", "confirming"} => x \in carried'
    BY DEF HeadCarried, HeadCarries
<1>x. /\ call'[x].doc = call[x].doc
      /\ \/ call[x].created /\ call'[x].target = call[x].target
         \/ AddEntry(x) /\ call'[x].target = nextId
    BY CreatedStep
<1>t. nextId \in Nat \ {0} /\ CallShaped(x) /\ head \in Entry \cup {NoEntry}
    BY DEF TypeOK, CallsShaped
<1>0. head'.id # 0
    BY <1>x, <1>t DEF CallShaped
<1>1. CASE head' \in outbox /\ loop' = "got"
    <2>1. head'.id \in Nat /\ head'.id < nextId
        BY <1>1 DEF TypeOK, IdsGrow, Entry
    <2>2. call[x].created /\ call[x].target = head'.id
        BY <2>1, <1>x, <1>t
    <2> QED BY <1>1, <1>x, <2>2 DEF EntriesOwned, EntryOwned
<1>2. ASSUME head' = head
      PROVE  /\ call[x].created /\ head'.doc = call'[x].doc
             /\ loop \in {"executing", "confirming"} => x \in carried
    <2>1. head.id \in Nat /\ head.id < nextId
        BY <1>t, EntryFields DEF IdsGrow
    <2>2. call[x].created /\ call[x].target = head.id
        BY <2>1, <1>2, <1>x, <1>t
    <2> QED BY <1>2, <1>x, <2>2 DEF HeadCarried, HeadCarries
<1>3. CASE head' = head /\ LoopExecute
    <2>1. call[x].phase # "new" /\ call[x].doc = head.doc
        BY <1>2, <1>3, <1>x, <1>t DEF CallShaped, Undecided
    <2> QED BY <1>2, <1>3, <2>1 DEF LoopExecute, WrittenFor
<1>4. head' # NoEntry
    BY <1>0 DEF NoEntry
<1> QED BY <1>1, <1>2, <1>3, <1>4, HeadMoves

\* A delete that dropped stays one until a crash.
LEMMA DeletesStay ==
    ASSUME TypeOK, CallsShaped, [Next]_vars, ~Crash, NEW d \in Calls, NEW x, Deletes(d, x)
    PROVE  Deletes(d, x)'
<1>1. ASSUME NEW c \in Calls, NEW op \in Ops, NEW e \in Docs, NEW unsynced \in BOOLEAN,
             Enqueue(c, op, e, unsynced)
      PROVE  call'[d] = call[d]
    <2>1. call[c].phase = "new" /\ call[c].op = "none"
        BY <1>1 DEF Enqueue, CallsShaped, CallShaped
    <2> QED BY <1>1, <2>1 DEF Deletes, Enqueue, TypeOK
<1>2. ASSUME NEW c \in Calls, CallStep(c) PROVE Deletes(d, x)'
    <2>1. d = c => call'[d].phase \notin {"queued", "reading"}
        BY <1>2, CallMoves DEF Deletes
    <2>2. call'[d].op = call[d].op /\ call'[d].doc = call[d].doc /\ (d # c => call'[d] = call[d])
        BY <1>2, CallsKeepInputs
    <2> QED BY <2>1, <2>2 DEF Deletes
<1>3. CASE call'[d] = call[d]
    BY <1>3 DEF Deletes
<1> QED BY <1>1, <1>2, <1>3, OthersKeepCalls DEF Next

\* No call is told `done` for an entry of its own that was neither sent nor dropped.
LEMMA DoneIsSentPreserved ==
    ASSUME TypeOK, CallsShaped, EntriesOwned, HeadCarried, DoneIsSent, [Next]_vars
    PROVE  DoneIsSent'
<1> SUFFICES ASSUME NEW x \in Calls, call'[x].created, outcome'[x] = "done"
             PROVE  x \in carried' \/ \E d \in Calls : Deletes(d, call[x].doc)'
    <2>1. \A x \in Calls : call'[x].created => call'[x].doc = call[x].doc
        BY CreatedStep
    <2> QED BY <2>1 DEF DoneIsSent, Deletes
<1>x. /\ ~Crash
      /\ call'[x].doc = call[x].doc
      /\ \/ call[x].created /\ call'[x].target = call[x].target
         \/ AddEntry(x) /\ call'[x].target = nextId
    BY CreatedStep
<1>s. (\E d \in Calls : Deletes(d, call[x].doc)) => \E d \in Calls : Deletes(d, call[x].doc)'
    <2>1. \A d \in Calls : \A e : Deletes(d, e) => Deletes(d, e)'
        BY <1>x, DeletesStay
    <2> QED BY <2>1, <1>x DEF Deletes
<1>1. CASE outcome[x] = "done"
    <2>1. call[x].created
        <3>1. AddEntry(x) => call[x].phase = "adding"
            BY DEF AddEntry
        <3> QED BY <1>1, <1>x, <3>1 DEF CallsShaped, CallShaped, Undecided
    <2>2. x \in carried \/ \E d \in Calls : Deletes(d, call[x].doc)
        BY <1>1, <2>1 DEF DoneIsSent, Deletes
    <2> QED BY <2>2, <1>s, HeadMoves
<1>2. CASE outcome[x] # "done"
    <2>1. /\ Waits(x)
          /\ \/ \E d \in Calls : Drop(d) /\ call[x].target \in call[d].drop
             \/ ConfirmHead /\ call[x].target = head.id
        BY <1>2, <1>x, OutcomesMove
    <2>2. call[x].created
        BY <2>1, <1>x DEF Waits, AddEntry
    <2>3. CASE ConfirmHead /\ call[x].target = head.id
        <3>1. x \in carried
            BY <2>2, <2>3 DEF HeadCarried, HeadCarries, ConfirmHead
        <3> QED BY <3>1, HeadMoves
    <2>4. ASSUME NEW d \in Calls, Drop(d), call[x].target \in call[d].drop
          PROVE  Deletes(d, call[x].doc)
        <3>1. call[d].doc = call[x].doc
            BY <2>2, <2>4 DEF EntriesOwned, EntryOwned
        <3> QED BY <2>4, <3>1 DEF Drop, Deletes, CallsShaped, CallShaped
    <2> QED BY <2>1, <2>3, <2>4, <1>s
<1> QED BY <1>1, <1>2

\* The invariants of who sends, and of what was sent, hold in every reachable state.
THEOREM SendingInvariance == Spec => []SentIInv
<1>1. Init => SentIInv
    BY DEF Init, NoCall, NoEntry, SentIInv, LockHeld, HoldsLock, CallsShaped, CallShaped,
           EntriesOwned, EntryOwned, HeadCarried, HeadCarries, DoneIsSent
<1>2. IInv /\ SentIInv /\ [Next]_vars => SentIInv'
    BY LockHeldPreserved, CallsShapedPreserved, EntriesOwnedPreserved, HeadCarriedPreserved,
       DoneIsSentPreserved DEF IInv, SentIInv
<1> QED BY <1>1, <1>2, Invariance, PTL DEF Spec

\* No entry is sent by two contexts at a time, and a call that resolves as done by
\* the entry it made was read by an execution after it, or a delete of the document
\* took its place: with any number of calls, tabs that come and go, crashes and
\* flushes.
THEOREM SentByOneAndAfter == Spec => []SentByOne
<1>1. IInv /\ SentIInv => SentByOne
    BY DEF IInv, SentIInv, HeadIsOldest, LockHeld, HoldsLock, SentByOne, OneSender
<1> QED BY <1>1, Invariance, SendingInvariance, PTL

-----------------------------------------------------------------------------
(* Which entry is meant: what a caller needs to follow its own entries. *)

IdsTell == \A e, f \in outbox : e.id = f.id => e.op = f.op /\ e.doc = f.doc
\* A delete drops entries of its document only.
DropsOwn == \A c \in Calls, e \in outbox : e.id \in call[c].drop => e.doc = call[c].doc
\* The loop's copy of an entry names the stored one's operation and document.
HeadIsItself == \A e \in outbox : e.id = head.id => e.op = head.op /\ e.doc = head.doc
EntriesMeant == IdsTell /\ DropsOwn /\ HeadIsItself

\* A stored entry stays, counted up, unless it is dropped or confirmed.
LEMMA EntriesStay ==
    ASSUME TypeOK, [Next]_vars, UNCHANGED <<flushes, sending>>, NEW e \in outbox
    PROVE  \/ \E f \in outbox' : f.id = e.id /\ f.doc = e.doc /\ f.op = e.op
           \/ \E c \in Calls : Drop(c) /\ e.id \in call[c].drop
           \/ ConfirmHead /\ e.id = head.id
<1> DEFINE Kept == \E f \in outbox' : f.id = e.id /\ f.doc = e.doc /\ f.op = e.op
<1>1. ASSUME NEW c \in Calls, NEW op \in Ops, NEW d \in Docs, NEW unsynced \in BOOLEAN,
             Enqueue(c, op, d, unsynced)
      PROVE  Kept
    BY <1>1 DEF Enqueue
<1>2. ASSUME NEW c \in Calls, CallStep(c)
      PROVE  Kept \/ (Drop(c) /\ e.id \in call[c].drop)
    <2>1. CASE Drop(c)
        BY <2>1 DEF Drop, Without
    <2>2. CASE AddEntry(c)
        BY <2>2 DEF AddEntry
    <2> QED BY <1>2, <2>1, <2>2 DEF CallStep, StartJob, Decide, EndDrops, EndJob, Resume, Reported
<1>3. ASSUME LoopStep PROVE Kept \/ (ConfirmHead /\ e.id = head.id)
    <2>1. CASE PersistRetry
        <3> DEFINE f == IF e.id = head.id
                        THEN [e EXCEPT !.attempts = MoreAttempts(head.attempts)] ELSE e
        <3>1. f \in outbox'
            BY <2>1 DEF PersistRetry
        <3>2. e \in Entry
            BY DEF TypeOK
        <3>3. f.id = e.id /\ f.doc = e.doc /\ f.op = e.op
            BY <3>2 DEF Entry
        <3> HIDE DEF f
        <3> QED BY <3>1, <3>3
    <2>2. CASE ConfirmHead
        BY <2>2 DEF ConfirmHead, Without
    <2> QED BY <1>3, <2>1, <2>2 DEF LoopStep, LockGranted, LockBusy, GiveUp, LoopRead, LoopIdle,
                                    LoopExecute, RetryReported, LoopEnd
<1>4. ASSUME (\E status \in {"done", "failed"} : ExecuteEnds(status)) \/ ExecuteRetries
      PROVE  Kept
    BY <1>4 DEF ExecuteEnds, ExecuteRetries
<1>5. ASSUME Environment PROVE Kept
    <2>1. ~Flush
        BY DEF Flush, TypeOK
    <2>2. ~OtherConfirms
        BY DEF OtherConfirms
    <2> QED BY <1>5, <2>1, <2>2 DEF Environment, Start, Stop, Wake, TimerFires, Cleared,
                              OtherTakesLock, OtherExecutes, OtherReleasesLock, Crash
<1>6. ASSUME UNCHANGED vars PROVE Kept
    BY <1>6 DEF vars
<1> HIDE DEF Kept
<1>7. \/ Kept
      \/ \E c \in Calls : Drop(c) /\ e.id \in call[c].drop
      \/ ConfirmHead /\ e.id = head.id
    BY <1>1, <1>2, <1>3, <1>4, <1>5, <1>6 DEF Next
<1> QED BY <1>7 DEF Kept

\* Ids are given to one entry each, so what an id was taken for it stays.
LEMMA EntriesMeantPreserved ==
    ASSUME TypeOK, IdsGrow, CallsShaped, EntriesMeant, [Next]_vars
    PROVE  EntriesMeant'
<1>n. /\ nextId \in Nat /\ \A e \in outbox : e.id \in Nat /\ e.id < nextId
      /\ head.id \in Nat /\ head.id < nextId
    BY EntryFields DEF TypeOK, IdsGrow, Entry
<1>o. \A c1, c2 \in Calls : AddEntry(c1) /\ AddEntry(c2) => c1 = c2
    BY DEF AddEntry, AtHead
<1> DEFINE Old(f) == \E e \in outbox : f.id = e.id /\ f.doc = e.doc /\ f.op = e.op
           New(f) == \E c \in Calls : /\ AddEntry(c) /\ f.id = nextId
                                      /\ f.doc = call[c].doc /\ f.op = call[c].op
<1>f. \A f \in outbox' : Old(f) \/ New(f)
    BY EntriesStep
<1>1. IdsTell'
    <2> SUFFICES ASSUME NEW e \in outbox', NEW f \in outbox', e.id = f.id
                 PROVE  e.op = f.op /\ e.doc = f.doc
        BY DEF IdsTell
    <2>1. CASE Old(e) /\ Old(f)
        BY <2>1 DEF EntriesMeant, IdsTell
    <2>2. CASE New(e) /\ New(f)
        BY <2>2, <1>o
    <2>3. ~(Old(e) /\ New(f)) /\ ~(New(e) /\ Old(f))
        BY <1>n
    <2> HIDE DEF Old, New
    <2> QED BY <1>f, <2>1, <2>2, <2>3
<1>2. HeadIsItself'
    <2> SUFFICES ASSUME NEW e \in outbox', e.id = head'.id
                 PROVE  e.op = head'.op /\ e.doc = head'.doc
        BY DEF HeadIsItself
    <2>1. CASE head' = NoEntry
        BY <2>1, <1>f DEF NoEntry, TypeOK, Entry
    <2>2. ASSUME NEW h, h = head', h.id \in Nat, h.id < nextId,
                 \A x \in outbox : x.id = h.id => x.op = h.op /\ x.doc = h.doc
          PROVE  e.op = h.op /\ e.doc = h.doc
        <3>1. ~New(e)
            BY <2>2, <1>n
        <3>2. Old(e)
            BY <3>1, <1>f
        <3> QED BY <3>2, <2>2
    <2>3. CASE head' \in outbox
        <3>1. \A x \in outbox : x.id = head'.id => x.op = head'.op /\ x.doc = head'.doc
            BY <2>3 DEF EntriesMeant, IdsTell
        <3> QED BY <2>3, <3>1, <2>2, <1>n
    <2>4. CASE head' = head
        BY <2>4, <2>2, <1>n DEF EntriesMeant, HeadIsItself
    <2> QED BY <2>1, <2>3, <2>4, HeadMoves
<1>3. DropsOwn'
    <2> SUFFICES ASSUME NEW d \in Calls, NEW f \in outbox', f.id \in call'[d].drop
                 PROVE  f.doc = call'[d].doc
        BY DEF DropsOwn
    <2>0. \A i \in call[d].drop : i < nextId /\ i \in Nat
        BY DEF CallsShaped, CallShaped, TypeOK, CallRecord
    <2>1. ASSUME call'[d].drop \subseteq call[d].drop, call'[d].doc = call[d].doc
          PROVE  f.doc = call'[d].doc
        <3>1. ~New(f)
            BY <2>0, <2>1, <1>n
        <3>2. Old(f)
            BY <3>1, <1>f
        <3> QED BY <3>2, <2>1 DEF EntriesMeant, DropsOwn
    <2>2. ASSUME NEW c \in Calls, NEW op \in Ops, NEW x \in Docs, NEW unsynced \in BOOLEAN,
                 Enqueue(c, op, x, unsynced), c = d
          PROVE  FALSE
        <3> DEFINE r == [NoCall EXCEPT !.phase = "queued", !.op = op, !.doc = x,
                                       !.unsynced = unsynced]
        <3>1. call'[d] = r
            BY <2>2 DEF Enqueue, TypeOK
        <3>2. r.drop = {}
            BY FreshCall
        <3> HIDE DEF r
        <3> QED BY <3>1, <3>2
    <2>3. ASSUME NEW c \in Calls, NEW op \in Ops, NEW x \in Docs, NEW unsynced \in BOOLEAN,
                 Enqueue(c, op, x, unsynced)
          PROVE  f.doc = call'[d].doc
        <3>1. c # d
            BY <2>2, <2>3
        <3>2. call'[d] = call[d]
            BY <3>1, <2>3 DEF Enqueue, TypeOK
        <3> QED BY <3>2, <2>1
    <2>4. ASSUME NEW c \in Calls, CallStep(c) PROVE f.doc = call'[d].doc
        <3>1. call'[d].doc = call[d].doc /\ (c # d => call'[d] = call[d])
            BY <2>4, CallsKeepInputs
        <3>2. CASE call'[d].drop \subseteq call[d].drop
            BY <3>1, <3>2, <2>1
        <3>3. CASE c = d /\ call'[d].drop = {e.id : e \in Same(c)}
            <4>1. PICK e \in Same(d) : f.id = e.id
                BY <3>3
            <4>2. e \in outbox /\ e.doc = call[d].doc
                BY DEF Same
            <4>3. ~New(f)
                BY <4>1, <4>2, <1>n
            <4>4. Old(f)
                BY <4>3, <1>f
            <4> QED BY <4>1, <4>2, <4>4, <3>1 DEF EntriesMeant, IdsTell
        <3> QED BY <2>4, <3>1, <3>2, <3>3, CallMoves
    <2>5. CASE Crash
        <3>1. call'[d] \in {NoCall, [NoCall EXCEPT !.phase = "lost"]}
            BY <2>5 DEF Crash
        <3> QED BY <3>1, FreshCall
    <2>6. CASE UNCHANGED call
        BY <2>1, <2>6
    <2> QED BY <2>3, <2>4, <2>5, <2>6, OthersKeepCalls DEF Next
<1> QED BY <1>1, <1>2, <1>3 DEF EntriesMeant

\* Every id in use means one entry, in the queue, in a delete's hands and in the
\* loop's.
THEOREM EntriesMeanOne == Spec => []EntriesMeant
<1>1. Init => EntriesMeant
    BY DEF Init, NoCall, NoEntry, EntriesMeant, IdsTell, DropsOwn, HeadIsItself
<1>2. IInv /\ SentIInv /\ EntriesMeant /\ [Next]_vars => EntriesMeant'
    BY EntriesMeantPreserved DEF IInv, SentIInv
<1> QED BY <1>1, <1>2, Invariance, SendingInvariance, PTL DEF Spec

\* What the loop holds is what it read, and it confirms what it executed.
LEMMA LoopSteps ==
    ASSUME [Next]_vars
    PROVE  /\ loop' = "got" => \/ loop = "got" /\ head' = head
                               \/ head' = NoEntry
                               \/ head' \in Oldest(outbox)
           /\ loop' = "executing" => /\ head' = head
                                     /\ loop \in {"got", "executing"}
           /\ loop' = "confirming" => /\ head' = head
                                      /\ \/ loop = "confirming"
                                         \/ \E s \in {"done", "failed"} : ExecuteEnds(s)
           /\ loop = "executing" => \/ loop' = "executing"
                                    \/ ExecuteRetries \/ Crash
                                    \/ \E s \in {"done", "failed"} : ExecuteEnds(s)
<1>t. Trigger => loop' \in {loop, "locking"} /\ (Running => loop' = loop)
    BY DEF Trigger
<1>1. ASSUME NEW c \in Calls, NEW op \in Ops, NEW d \in Docs, NEW unsynced \in BOOLEAN,
             Enqueue(c, op, d, unsynced)
      PROVE  UNCHANGED <<head, loop>>
    BY <1>1 DEF Enqueue
<1>2. ASSUME NEW c \in Calls, CallStep(c)
      PROVE  UNCHANGED head /\ loop' \in {loop, "locking"} /\ (Running => loop' = loop)
    BY <1>2, <1>t DEF CallStep, StartJob, Decide, Drop, EndDrops, AddEntry, EndJob, Resume, Reported
<1>3. CASE LoopStep
    BY <1>3 DEF LoopStep, LockGranted, LockBusy, GiveUp, LoopRead, LoopIdle, LoopExecute,
                ConfirmHead, PersistRetry, RetryReported, LoopEnd
<1>4. CASE (\E status \in {"done", "failed"} : ExecuteEnds(status)) \/ ExecuteRetries
    BY <1>4 DEF ExecuteEnds, ExecuteRetries
<1>5. CASE Crash
    BY <1>5 DEF Crash
<1>6. ASSUME Environment, ~Crash
      PROVE  UNCHANGED head /\ loop' \in {loop, "locking"} /\ (Running => loop' = loop)
    BY <1>6, <1>t DEF Environment, Start, Stop, Wake, TimerFires, Flush, Cleared, OtherTakesLock,
                      OtherExecutes, OtherConfirms, OtherReleasesLock
<1>7. CASE UNCHANGED vars
    BY <1>7 DEF vars
<1>8. CASE UNCHANGED head /\ loop' \in {loop, "locking"} /\ (Running => loop' = loop)
    BY <1>8 DEF Running
<1>9. UNCHANGED <<head, loop>> =>
          UNCHANGED head /\ loop' \in {loop, "locking"} /\ (Running => loop' = loop)
    OBVIOUS
<1>10. CASE \E c \in Calls, op \in Ops, d \in Docs, unsynced \in BOOLEAN :
                Enqueue(c, op, d, unsynced)
    BY <1>1, <1>8, <1>9, <1>10
<1>11. CASE \E c \in Calls : CallStep(c)
    BY <1>2, <1>8, <1>11
<1>12. CASE Environment /\ ~Crash
    BY <1>6, <1>8, <1>12
<1>13. CASE Next
    BY <1>3, <1>4, <1>5, <1>10, <1>11, <1>12, <1>13 DEF Next
<1> QED BY <1>7, <1>13

-----------------------------------------------------------------------------
(* The client *)

USE DEF clientVars, serverVars, restVars

-----------------------------------------------------------------------------
(* The records *)

\* The constant records are well typed.
LEMMA ConstantRecords ==
    /\ NoDoc \in LocalDocs /\ Missing \in ServerDocs /\ NoWrite \in Writes
    /\ NoDraft \in Drafts /\ NoWork \in Works /\ NoRecovery \in Recoverings
    /\ NoIngest \in Ingests
<1>0. 0 \in Versions /\ "none" \in Values /\ 0 \in 0..ConflictAttempts
    BY ClientBoundsAssumption DEF Versions, Values
<1>1. NoDoc \in LocalDocs
    BY <1>0 DEF NoDoc, LocalDocs
<1>2. Missing \in ServerDocs /\ NoWrite \in Writes
    BY <1>0 DEF Missing, ServerDocs, NoWrite, Writes
<1>3. NoDraft \in Drafts
    BY DEF NoDraft, Drafts
<1>4. NoWork \in Works
    BY <1>0, <1>2 DEF NoWork, Works
<1>5. NoRecovery \in Recoverings
    BY DEF NoRecovery, Recoverings, NoIntent
<1>6. AsChange(Missing, "none") \in Changes
    BY <1>0 DEF AsChange, Missing, Changes
<1>7. NoIngest \in Ingests
    BY <1>2, <1>6 DEF NoIngest, Ingests
<1> QED BY <1>1, <1>2, <1>3, <1>4, <1>5, <1>7

\* A document read from the server makes a well typed change.
LEMMA ChangeType ==
    ASSUME NEW s \in ServerDocs,
           NEW k \in {"none", "added", "modified", "removed", "tombstone"}
    PROVE  AsChange(s, k) \in Changes
BY DEF AsChange, ServerDocs, Changes

\* What #ingestRemoteChange decides to write is well typed.
LEMMA IngestWriteType ==
    ASSUME NEW change \in Changes, NEW local \in LocalDocs
    PROVE  IngestWrite(change, local) \in Writes
<1> DEFINE to(what, v) == [do |-> what, val |-> v, version |-> change.version]
<1>1. change.version \in Versions /\ change.val \in Values /\ local.val \in Values
    BY DEF Changes, LocalDocs
<1>2. \A what \in {"nothing", "delete", "put", "merge"}, v \in Values : to(what, v) \in Writes
    BY <1>1 DEF Writes
<1>3. "none" \in Values
    BY DEF Values
<1> HIDE DEF to
<1>4. \A v \in Values : to("delete", v) \in Writes /\ to("put", v) \in Writes /\ to("merge", v) \in Writes
    BY <1>2
<1>5. NoWrite \in Writes
    BY ConstantRecords
<1>6. /\ to("delete", "none") \in Writes
      /\ to(IF change.kind = "added" THEN "put" ELSE "merge", change.val) \in Writes
      /\ to("merge", IF local.prev THEN local.val ELSE change.val) \in Writes
    BY <1>1, <1>3, <1>4
<1> QED BY <1>5, <1>6 DEF IngestWrite, to

\* The storage keeps documents well typed.
LEMMA IngestedType ==
    ASSUME NEW old \in LocalDocs, NEW write \in Writes
    PROVE  Ingested(old, write) \in LocalDocs
<1>1. /\ write.val \in Values /\ write.version \in Versions
      /\ write.do \in {"nothing", "delete", "put", "merge"}
    BY DEF Writes
<1>2. Stored(write.val, write.version) \in LocalDocs
    BY <1>1 DEF Stored, NoDoc, LocalDocs
<1>3. [old EXCEPT !.val = write.val, !.version = write.version] \in LocalDocs
    BY <1>1 DEF LocalDocs
<1> QED BY <1>1, <1>2, <1>3, ConstantRecords DEF Ingested, Patched

-----------------------------------------------------------------------------
(* The queue inside the client *)

\* add(), update(), delete() reach the queue only through enqueue().
LEMMA MutationRefines ==
    ASSUME ClientTypeOK, DraftInputs, Mutations
    PROVE  [Next]_vars
<1>1. ASSUME NEW c \in Calls, Send(c)
      PROVE  Next
    <2>1. draft[c].op \in Ops /\ draft[c].doc \in Docs
        BY <1>1 DEF Send, DraftInputs
    <2>2. draft[c].unsynced \in BOOLEAN
        BY DEF ClientTypeOK, Drafts
    <2> QED BY <1>1, <2>1, <2>2 DEF Send, Next
<1>2. ASSUME NEW c \in Calls,
             WriteAdd(c) \/ WriteUpdate(c) \/ ReadForDelete(c) \/ WriteDelete(c) \/ DropIntent(c)
      PROVE  UNCHANGED vars
    BY <1>2 DEF WriteAdd, WriteUpdate, ReadForDelete, WriteDelete, DropIntent, Written
<1>3. ASSUME NEW c \in Calls, NEW op \in Ops, NEW d \in Docs, Intend(c, op, d)
      PROVE  UNCHANGED vars
    BY <1>3 DEF Intend
<1> QED BY <1>1, <1>2, <1>3 DEF Mutations

\* #recover reaches the queue only through enqueue() and start().
LEMMA RecoveryRefines ==
    ASSUME ClientTypeOK, Recovering
    PROVE  [Next]_vars
<1>1. CASE RecoverQuery \/ RecoverPending \/ RecoverDrop
    BY <1>1 DEF RecoverQuery, RecoverPending, RecoverDrop
<1>2. CASE RecoverNext
    <2>1. PICK i \in recovery.todo :
              \/ \E c \in Recoveries :
                     Enqueue(c, i.op, i.doc, i.op # "add" /\ doc[i.doc].adding)
              \/ UNCHANGED vars
        BY <1>2 DEF RecoverNext
    <2>2. i \in Intents
        BY <2>1 DEF ClientTypeOK, Recoverings
    <2>3. i.op \in Ops /\ i.doc \in Docs /\ (i.op # "add" /\ doc[i.doc].adding) \in BOOLEAN
        BY <2>2 DEF Intents, ClientTypeOK, LocalDocs
    <2> QED BY <2>1, <2>3, RecoveriesAssumption DEF Next
<1>3. CASE Recovered
    BY <1>3 DEF Recovered, Next, Environment
<1> QED BY <1>1, <1>2, <1>3 DEF Recovering

\* #execute reaches the queue only by returning.
LEMMA ExecutionRefines ==
    ASSUME ClientTypeOK, Execution
    PROVE  [Next]_vars
<1>1. CASE ExecReturns
    <2>1. work.status \in {"done", "failed"}
        BY <1>1 DEF ExecReturns, ClientTypeOK, Works
    <2> QED BY <1>1, <2>1 DEF ExecReturns, Next
<1>2. CASE ExecRetries
    BY <1>2 DEF ExecRetries, Next
<1>3. CASE \/ ExecRead \/ AddAsUpdate \/ Conflicts \/ PullAnswered \/ PullRead \/ PullWrite
           \/ ExecFails \/ ConfirmRead \/ ConfirmWrite \/ ConfirmDelete
    BY <1>3 DEF WorkStep, ExecRead, AddAsUpdate, Conflicts, PullAnswered, PullRead, PullWrite,
                ExecFails, ConfirmRead, ConfirmWrite, ConfirmDelete
<1>4. ASSUME NEW lost \in BOOLEAN, ServerHandles(lost)
      PROVE  UNCHANGED vars
    BY <1>4 DEF ServerHandles, WorkStep
<1>5. ASSUME NEW answer \in {"network", "refused"}, RequestFails(answer)
      PROVE  UNCHANGED vars
    BY <1>5 DEF RequestFails, WorkStep
<1> QED BY <1>1, <1>2, <1>3, <1>4, <1>5 DEF Execution

\* Every step of the client is a step of the queue or leaves it alone.
LEMMA StepRefines ==
    ASSUME ClientTypeOK, DraftInputs, [ClientNext]_allVars
    PROVE  [Next]_vars
<1>1. CASE Remote
    BY <1>1 DEF Remote, TheirWrite, IngestReceive, IngestRead, IngestStore
<1>2. CASE QueueStep
    BY <1>2 DEF QueueStep, Next, Environment
<1>3. CASE ClientCrash
    BY <1>3 DEF ClientCrash, Next, Environment
<1>4. CASE UNCHANGED allVars
    BY <1>4 DEF allVars
<1> QED BY <1>1, <1>2, <1>3, <1>4, MutationRefines, RecoveryRefines, ExecutionRefines
        DEF ClientNext

-----------------------------------------------------------------------------
(* The types of the client's own state *)

\* The head that is executed is an entry, whatever the queue does.
LEMMA ExecutingHead ==
    ASSUME TypeOK, WorkInputs, [Next]_vars
    PROVE  WorkInputs'
<1>1. ASSUME NEW c \in Calls, CallStep(c)
      PROVE  loop' = "executing" => loop = "executing" /\ head' = head
    BY <1>1 DEF CallStep, StartJob, Decide, Drop, EndDrops, AddEntry, EndJob, Resume, Reported,
                DecideDone, Trigger
<1>2. CASE LoopStep
    <2>1. CASE LoopExecute
        BY <2>1, EntryFields DEF LoopExecute, WorkInputs, TypeOK
    <2>2. CASE \/ LockGranted \/ LockBusy \/ GiveUp \/ LoopRead \/ LoopIdle
               \/ ConfirmHead \/ PersistRetry \/ RetryReported \/ LoopEnd
        BY <2>2 DEF LockGranted, LockBusy, GiveUp, LoopRead, LoopIdle, ConfirmHead, PersistRetry,
                    RetryReported, LoopEnd, WorkInputs, Executing
    <2> QED BY <1>2, <2>1, <2>2 DEF LoopStep
<1>3. ASSUME Environment
      PROVE  loop' = "executing" => loop = "executing" /\ head' = head
    BY <1>3 DEF Environment, Start, Stop, Wake, TimerFires, Trigger, Flush, Cleared, OtherTakesLock,
                OtherExecutes, OtherConfirms, OtherReleasesLock, Crash
<1>4. ASSUME \/ \E status \in {"done", "failed"} : ExecuteEnds(status)
             \/ ExecuteRetries
             \/ UNCHANGED vars
      PROVE  loop' = "executing" => loop = "executing" /\ head' = head
    BY <1>4 DEF ExecuteEnds, ExecuteRetries, vars
<1>5. ASSUME NEW c \in Calls, NEW op \in Ops, NEW d \in Docs, NEW u \in BOOLEAN,
             Enqueue(c, op, d, u)
      PROVE  loop' = "executing" => loop = "executing" /\ head' = head
    BY <1>5 DEF Enqueue
<1> QED BY <1>1, <1>2, <1>3, <1>4, <1>5 DEF Next, WorkInputs, Executing

\* What add(), update() and delete() write is well typed.
LEMMA MutationTypes ==
    ASSUME ClientTypeOK, DraftInputs, Mutations
    PROVE  ClientTypeOK' /\ DraftInputs'
<1> USE DEF ClientTypeOK
<1>1. ASSUME NEW c \in Calls, NEW op \in Ops, NEW d \in Docs, Intend(c, op, d)
      PROVE  ClientTypeOK' /\ DraftInputs'
    <2>1. [NoDraft EXCEPT !.phase = "intended", !.op = op, !.doc = d] \in Drafts
        BY DEF NoDraft, Drafts
    <2>2. [id |-> c, op |-> op, doc |-> d] \in Intents
        BY DEF Intents
    <2>3. draft' \in [Calls -> Drafts] /\ intents' \subseteq Intents /\ created' \subseteq Docs
        BY <1>1, <2>1, <2>2 DEF Intend
    <2>4. DraftInputs'
        BY <1>1 DEF Intend, NoDraft, DraftInputs
    <2> QED BY <1>1, <2>3, <2>4 DEF Intend
<1>2. ASSUME NEW c \in Calls, NEW new, Written(c, new), new \in LocalDocs,
             draft[c].phase \in {"intended", "got"}
      PROVE  ClientTypeOK' /\ DraftInputs'
    <2>1. /\ draft[c] \in Drafts /\ draft[c].doc \in Docs
        BY <1>2 DEF DraftInputs
    <2>2. doc[draft[c].doc].adding \in BOOLEAN
        BY <2>1 DEF LocalDocs
    <2>3. \A p \in {"written", "nothing"}, b \in BOOLEAN :
              [draft[c] EXCEPT !.phase = p, !.unsynced = b] \in Drafts
        BY <2>1 DEF Drafts
    <2>4. /\ (draft[c].op # "add" /\ doc[draft[c].doc].adding) \in BOOLEAN
          /\ (IF draft[c].op = "add" \/ doc[draft[c].doc].here THEN "written" ELSE "nothing")
                 \in {"written", "nothing"}
        BY <2>2
    <2>5. draft' \in [Calls -> Drafts]
        BY <1>2, <2>3, <2>4 DEF Written
    <2>6. doc' \in [Docs -> LocalDocs]
        BY <1>2 DEF Written
    <2>7. DraftInputs'
        BY <1>2 DEF Written, DraftInputs
    <2> QED BY <1>2, <2>5, <2>6, <2>7 DEF Written
<1>3. ASSUME NEW c \in Calls, WriteAdd(c)
      PROVE  ClientTypeOK' /\ DraftInputs'
    <2>1. c \in Values /\ 0 \in Versions
        BY ClientBoundsAssumption DEF Values, Versions
    <2>2. Stored(c, 0) \in LocalDocs
        BY <2>1 DEF Stored, NoDoc, LocalDocs
    <2>3. [Stored(c, 0) EXCEPT !.adding = TRUE] \in LocalDocs
        BY <2>2 DEF LocalDocs
    <2> QED BY <1>2, <1>3, <2>3 DEF WriteAdd
<1>4. ASSUME NEW c \in Calls, WriteUpdate(c)
      PROVE  ClientTypeOK' /\ DraftInputs'
    <2> DEFINE old == doc[draft[c].doc]
    <2>1. old \in LocalDocs
        BY <1>4 DEF WriteUpdate, DraftInputs
    <2> HIDE DEF old
    <2>2. Patched(old, [old EXCEPT !.val = c, !.prev = TRUE]) \in LocalDocs
        BY <2>1 DEF Patched, LocalDocs, Values
    <2> QED BY <1>2, <1>4, <2>2 DEF WriteUpdate, old
<1>5. ASSUME NEW c \in Calls, ReadForDelete(c)
      PROVE  ClientTypeOK' /\ DraftInputs'
    <2>1. draft[c] \in Drafts /\ doc[draft[c].doc].adding \in BOOLEAN
        BY <1>5 DEF ReadForDelete, DraftInputs, LocalDocs
    <2>2. [draft[c] EXCEPT !.phase = "got", !.adding = doc[draft[c].doc].adding] \in Drafts
        BY <2>1 DEF Drafts
    <2>3. draft' \in [Calls -> Drafts]
        BY <1>5, <2>2 DEF ReadForDelete
    <2>4. DraftInputs'
        BY <1>5 DEF ReadForDelete, DraftInputs
    <2> QED BY <1>5, <2>3, <2>4 DEF ReadForDelete
<1>6. ASSUME NEW c \in Calls, WriteDelete(c)
      PROVE  ClientTypeOK' /\ DraftInputs'
    <2> DEFINE old == doc[draft[c].doc]
    <2>1. old \in LocalDocs
        BY <1>6 DEF WriteDelete, DraftInputs
    <2> HIDE DEF old
    <2>2. Patched(old, [old EXCEPT !.deleting = TRUE]) \in LocalDocs
        BY <2>1 DEF Patched, LocalDocs
    <2>3. NoDoc \in LocalDocs
        BY ConstantRecords
    <2> QED BY <1>2, <1>6, <2>2, <2>3 DEF WriteDelete, old
<1>7. ASSUME NEW c \in Calls, Send(c) \/ DropIntent(c)
      PROVE  ClientTypeOK' /\ DraftInputs'
    <2>1. CASE Send(c)
        <3>1. [draft[c] EXCEPT !.phase = "sent"] \in Drafts
            BY DEF Drafts
        <3>2. draft' \in [Calls -> Drafts]
            BY <2>1, <3>1 DEF Send
        <3>3. DraftInputs'
            BY <2>1 DEF Send, DraftInputs
        <3> QED BY <2>1, <3>2, <3>3 DEF Send
    <2>2. CASE DropIntent(c)
        BY <2>2 DEF DropIntent, DraftInputs
    <2> QED BY <1>7, <2>1, <2>2
<1> QED BY <1>1, <1>3, <1>4, <1>5, <1>6, <1>7 DEF Mutations

\* What #recover keeps is well typed.
LEMMA RecoveryTypes ==
    ASSUME ClientTypeOK, TypeOK, Recovering
    PROVE  ClientTypeOK'
<1> USE DEF ClientTypeOK
<1>1. CASE RecoverQuery
    BY <1>1 DEF RecoverQuery, Recoverings
<1>2. CASE RecoverPending
    BY <1>2 DEF RecoverPending, Recoverings, TypeOK
<1>3. CASE RecoverNext
    <2>1. PICK i \in recovery.todo :
              /\ intents' \subseteq intents
              /\ \/ \E c \in Recoveries :
                        recovery' = [recovery EXCEPT !.phase = "drop", !.at = i, !.caller = c]
                 \/ recovery' = [recovery EXCEPT !.todo = @ \ {i}]
        BY <1>3 DEF RecoverNext
    <2>2. recovery' \in Recoverings
        BY <2>1, RecoveriesAssumption DEF Recoverings
    <2> QED BY <1>3, <2>1, <2>2 DEF RecoverNext
<1>4. CASE RecoverDrop
    <2>1. recovery' \in Recoverings
        BY <1>4 DEF RecoverDrop, Recoverings
    <2> QED BY <1>4, <2>1 DEF RecoverDrop
<1>5. CASE Recovered
    <2>1. recovery' \in Recoverings
        BY <1>5 DEF Recovered, Recoverings, NoRecovery, NoIntent
    <2> QED BY <1>5, <2>1 DEF Recovered
<1> QED BY <1>1, <1>2, <1>3, <1>4, <1>5 DEF Recovering

\* A step of #execute that changes `work`, and perhaps the document, keeps the types.
LEMMA WorkStepTypes ==
    ASSUME ClientTypeOK, NEW new, WorkStep(new), new \in Works,
           new.phase = "over" => new.status # "none",
           doc' \in [Docs -> LocalDocs], server' \in [Docs -> ServerDocs], accepted' \subseteq Calls
    PROVE  ClientTypeOK'
BY DEF WorkStep, ClientTypeOK

\* Storing a well typed document at the target keeps the documents well typed.
LEMMA StoreType ==
    ASSUME ClientTypeOK, NEW d, NEW new, d \in Docs => new \in LocalDocs
    PROVE  [doc EXCEPT ![d] = new] \in [Docs -> LocalDocs]
BY DEF ClientTypeOK

\* execute() ends with a settlement.
LEMMA OverType ==
    ASSUME NEW status \in {"done", "failed"}
    PROVE  Over(status) \in Works /\ Over(status).status # "none"
<1>1. /\ 0 \in Versions /\ "none" \in Values /\ 0 \in 0..ConflictAttempts
      /\ Missing \in ServerDocs /\ NoWrite \in Writes
    BY ClientBoundsAssumption, ConstantRecords DEF Versions, Values
<1>2. Over(status) \in Works
    BY <1>1 DEF Over, NoWork, Works
<1>3. Over(status).status = status
    BY DEF Over, NoWork
<1> QED BY <1>2, <1>3

\* The steps of #execute that do not write the document.
LEMMA RequestTypes ==
    ASSUME ClientTypeOK, WorkInputs,
           \/ ExecRead \/ AddAsUpdate \/ Conflicts \/ PullAnswered \/ PullRead \/ ConfirmRead
    PROVE  ClientTypeOK'
<1>0. /\ work \in Works /\ Target \in Docs /\ head.op \in Ops
      /\ doc[Target] \in LocalDocs /\ server[Target] \in ServerDocs
    BY DEF ClientTypeOK, WorkInputs, Entry, Target, Executing, ExecRead, AddAsUpdate, Conflicts,
           PullAnswered, PullRead, ConfirmRead
<1>v. 0 \in Versions
    BY ClientBoundsAssumption DEF Versions
<1>d. doc[Target].val \in Values /\ doc[Target].version \in Versions /\ doc[Target].prev \in BOOLEAN
    BY <1>0 DEF LocalDocs
<1>s. /\ doc \in [Docs -> LocalDocs] /\ server \in [Docs -> ServerDocs] /\ accepted \subseteq Calls
    BY DEF ClientTypeOK
<1>1. CASE ExecRead
    <2>1. ASSUME NEW k \in {"post", "put", "del"}, NEW v \in Versions
          PROVE  Request(k, v) \in Works /\ Request(k, v).phase = "request"
        <3>1. /\ [work EXCEPT !.phase = "request", !.kind = k] \in Works
              /\ [work EXCEPT !.phase = "request", !.kind = k].phase = "request"
            BY <1>0 DEF Works
        <3>2. \A w \in Works, x \in Values :
                 /\ [w EXCEPT !.sent = x, !.base = v] \in Works
                 /\ [w EXCEPT !.sent = x, !.base = v].phase = w.phase
            BY DEF Works
        <3>3. Request(k, v) = [[work EXCEPT !.phase = "request", !.kind = k]
                                 EXCEPT !.sent = doc[Target].val, !.base = v]
            BY DEF Request
        <3> QED BY <3>1, <3>2, <3>3, <1>d
    <2>2. \/ \E k \in {"post", "put", "del"}, v \in Versions : WorkStep(Request(k, v))
          \/ WorkStep(Over("done"))
        BY <1>1, <1>d, <1>v DEF ExecRead
    <2> QED BY <1>1, <1>s, <2>1, <2>2, OverType, WorkStepTypes DEF ExecRead
<1>2. CASE AddAsUpdate
    <2>1. /\ [work EXCEPT !.phase = "request", !.kind = "put", !.base = 0] \in Works
          /\ [work EXCEPT !.phase = "request", !.kind = "put", !.base = 0].phase = "request"
        BY <1>0, <1>v DEF Works
    <2> QED BY <1>2, <1>s, <2>1, WorkStepTypes DEF AddAsUpdate
<1>3. CASE Conflicts
    <2>1. work.tries + 1 \in 0..ConflictAttempts
        BY <1>0, <1>3, ClientBoundsAssumption DEF Conflicts, Works
    <2>2. /\ [work EXCEPT !.phase = "pulling", !.tries = work.tries + 1] \in Works
          /\ [work EXCEPT !.phase = "pulling", !.tries = work.tries + 1].phase = "pulling"
        BY <1>0, <2>1 DEF Works
    <2> QED BY <1>3, <1>s, <2>2, WorkStepTypes DEF Conflicts
<1>4. CASE PullAnswered
    <2>1. /\ [work EXCEPT !.phase = "pulled", !.pulled = server[Target]] \in Works
          /\ [work EXCEPT !.phase = "pulled", !.pulled = server[Target]].phase = "pulled"
        BY <1>0 DEF Works
    <2> QED BY <1>4, <1>s, <2>1, WorkStepTypes DEF PullAnswered
<1>5. CASE PullRead
    <2> DEFINE write == IF work.pulled.status = "live"
                        THEN IngestWrite(AsChange(work.pulled, "modified"), doc[Target]) ELSE NoWrite
    <2>1. work.pulled \in ServerDocs
        BY <1>0 DEF Works
    <2>2. write \in Writes
        BY <1>0, <2>1, ChangeType, IngestWriteType, ConstantRecords
    <2>3. WorkStep([work EXCEPT !.phase = "rebasing", !.write = write])
        BY <1>5 DEF PullRead
    <2> HIDE DEF write
    <2>4. /\ [work EXCEPT !.phase = "rebasing", !.write = write] \in Works
          /\ [work EXCEPT !.phase = "rebasing", !.write = write].phase = "rebasing"
        BY <1>0, <2>2 DEF Works
    <2> QED BY <1>5, <1>s, <2>3, <2>4, WorkStepTypes DEF PullRead
<1>6. CASE ConfirmRead
    <2> DEFINE edited == doc[Target].prev /\ doc[Target].val # work.sent
               new == [work EXCEPT !.phase = "confirming", !.unsent = edited,
                                   !.sent = IF edited THEN doc[Target].val ELSE work.sent]
    <2>1. edited \in BOOLEAN /\ work.sent \in Values
        BY <1>0, <1>d DEF Works
    <2>2. WorkStep(new)
        BY <1>6 DEF ConfirmRead
    <2>3. new \in Works /\ new.phase = "confirming"
        <3> HIDE DEF edited
        <3> QED BY <1>0, <1>d, <2>1 DEF Works
    <2> HIDE DEF new
    <2> QED BY <1>6, <1>s, <2>2, <2>3, WorkStepTypes DEF ConfirmRead
<1> QED BY <1>1, <1>2, <1>3, <1>4, <1>5, <1>6

\* A request is sent, handled, lost or refused.
LEMMA AnswerTypes ==
    ASSUME ClientTypeOK, WorkInputs,
           \/ \E lost \in BOOLEAN : ServerHandles(lost)
           \/ \E answer \in {"network", "refused"} : RequestFails(answer)
    PROVE  ClientTypeOK'
<1>0. /\ work \in Works /\ Target \in Docs /\ server[Target] \in ServerDocs
    BY DEF ClientTypeOK, WorkInputs, Entry, Target, Executing, ServerHandles, RequestFails
<1>s. /\ doc \in [Docs -> LocalDocs] /\ server \in [Docs -> ServerDocs] /\ accepted \subseteq Calls
    BY DEF ClientTypeOK
<1>1. ASSUME NEW lost \in BOOLEAN, ServerHandles(lost)
      PROVE  ClientTypeOK'
    <2> DEFINE s == server[Target]
               applies == Applies(work.kind, work.base, s)
               v == IF applies THEN s.version + 1 ELSE s.version
               stored == [status |-> IF ~applies THEN s.status
                                     ELSE IF work.kind = "del" THEN "gone" ELSE "live",
                          val |-> IF applies /\ work.kind # "del" THEN work.sent ELSE s.val,
                          version |-> v]
               reply == Reply(work.kind, work.base, s)
    <2>1. v <= MaxVersion /\ server' = [server EXCEPT ![Target] = stored] /\ doc' = doc
        BY <1>1 DEF ServerHandles
    <2>2. s.version \in Versions /\ s.val \in Values /\ work.sent \in Values
          /\ s.status \in {"absent", "live", "gone"}
        BY <1>0 DEF ServerDocs, Works
    <2>3. v \in Versions /\ (IF applies THEN v ELSE 0) \in Versions
        <3> HIDE DEF applies
        <3> QED BY <2>1, <2>2, ClientBoundsAssumption DEF Versions
    <2>4. stored \in ServerDocs
        <3> HIDE DEF applies, v
        <3> QED BY <2>2, <2>3 DEF ServerDocs
    <2>5. accepted' \subseteq Calls
        <3>1. accepted' \subseteq accepted \cup ({work.sent} \cap Calls)
            BY <1>1 DEF ServerHandles
        <3> QED BY <3>1, <1>s
    <2>6. reply \in {"ok", "exists", "conflict", "nothing"}
        <3> HIDE DEF s
        <3> QED BY DEF Reply
    <2>7. \/ WorkStep([work EXCEPT !.phase = "answered", !.answer = "network"])
          \/ WorkStep([work EXCEPT !.phase = "answered", !.answer = reply,
                                   !.version = IF applies THEN v ELSE 0])
        BY <1>1 DEF ServerHandles
    <2> HIDE DEF s, applies, v, stored, reply
    <2>8. server' \in [Docs -> ServerDocs]
        BY <1>s, <2>1, <2>4
    <2>9. /\ [work EXCEPT !.phase = "answered", !.answer = "network"] \in Works
          /\ [work EXCEPT !.phase = "answered", !.answer = "network"].phase = "answered"
        BY <1>0 DEF Works
    <2>10. \A n \in Versions :
              /\ [work EXCEPT !.phase = "answered", !.answer = reply, !.version = n] \in Works
              /\ [work EXCEPT !.phase = "answered", !.answer = reply, !.version = n].phase = "answered"
        BY <1>0, <2>6 DEF Works
    <2> QED BY <1>s, <2>1, <2>3, <2>5, <2>7, <2>8, <2>9, <2>10, WorkStepTypes
<1>2. ASSUME NEW answer \in {"network", "refused"}, RequestFails(answer)
      PROVE  ClientTypeOK'
    <2>1. /\ [work EXCEPT !.phase = "answered", !.answer = answer] \in Works
          /\ [work EXCEPT !.phase = "answered", !.answer = answer].phase = "answered"
        BY <1>0 DEF Works
    <2> QED BY <1>2, <1>s, <2>1, WorkStepTypes DEF RequestFails
<1> QED BY <1>1, <1>2

\* The steps of #execute that write the document, and its end.
LEMMA StoringTypes ==
    ASSUME ClientTypeOK, WorkInputs,
           PullWrite \/ ExecFails \/ ConfirmWrite \/ ConfirmDelete \/ ExecReturns \/ ExecRetries
    PROVE  ClientTypeOK'
<1>s. /\ doc \in [Docs -> LocalDocs] /\ server \in [Docs -> ServerDocs] /\ accepted \subseteq Calls
      /\ work \in Works
    BY DEF ClientTypeOK
<1>1. CASE PullWrite
    <2>1. work.write \in Writes
        BY <1>s DEF Works
    <2>2. Target \in Docs => Ingested(doc[Target], work.write) \in LocalDocs
        BY <1>s, <2>1, IngestedType
    <2>3. doc' \in [Docs -> LocalDocs]
        BY <1>1, <2>2, StoreType DEF PullWrite
    <2>4. /\ [work EXCEPT !.phase = "again", !.pulled = Missing, !.write = NoWrite] \in Works
          /\ [work EXCEPT !.phase = "again", !.pulled = Missing, !.write = NoWrite].phase = "again"
        BY <1>s, ConstantRecords DEF Works
    <2> QED BY <1>1, <1>s, <2>3, <2>4, WorkStepTypes DEF PullWrite
<1>2. CASE ExecFails
    <2> DEFINE old == doc[Target]
               flagged == [old EXCEPT !.errors = @ \cup {head.op}]
               failed == CASE head.op = "add" -> [flagged EXCEPT !.adding = FALSE]
                           [] head.op = "update" -> [flagged EXCEPT !.prev = FALSE]
                           [] head.op = "delete" -> [flagged EXCEPT !.deleting = FALSE]
    <2>1. head.op \in Ops /\ old \in LocalDocs
        BY <1>2, <1>s DEF ExecFails, WorkInputs, Executing, Entry, Target
    <2>2. flagged \in LocalDocs
        <3> HIDE DEF old
        <3> QED BY <2>1 DEF LocalDocs
    <2>3. failed \in LocalDocs
        <3> HIDE DEF flagged
        <3> QED BY <2>1, <2>2 DEF LocalDocs, Ops
    <2>4. doc' = [doc EXCEPT ![Target] = Patched(old, failed)] /\ WorkStep(Over("failed"))
          /\ UNCHANGED serverVars
        BY <1>2 DEF ExecFails
    <2> HIDE DEF old, failed
    <2>5. Patched(old, failed) \in LocalDocs
        BY <2>1, <2>3 DEF Patched
    <2>6. doc' \in [Docs -> LocalDocs]
        BY <2>4, <2>5, StoreType
    <2> QED BY <1>s, <2>4, <2>6, OverType, WorkStepTypes
<1>3. CASE ConfirmWrite
    <2> DEFINE old == doc[Target]
               bare == head.op = "add" /\ work.kind = "put"
               version == IF work.version = 0 \/ bare THEN old.version ELSE work.version
               adding == IF head.op = "add" THEN FALSE ELSE old.adding
               val == IF head.op = "add" /\ (work.unsent \/ ~bare) THEN work.sent ELSE old.val
               new == [old EXCEPT !.prev = work.unsent, !.version = version,
                                  !.errors = @ \ {head.op}, !.adding = adding, !.val = val]
    <2>1. old \in LocalDocs
        BY <1>3, <1>s DEF ConfirmWrite, WorkInputs, Executing, Entry, Target
    <2>2. /\ old.version \in Versions /\ old.adding \in BOOLEAN /\ old.val \in Values
          /\ work.version \in Versions /\ work.unsent \in BOOLEAN /\ work.sent \in Values
        <3> HIDE DEF old
        <3> QED BY <1>s, <2>1 DEF LocalDocs, Works
    <2>3. version \in Versions /\ adding \in BOOLEAN /\ val \in Values
        <3> HIDE DEF old, bare
        <3> QED BY <2>2
    <2>4. new \in LocalDocs
        <3> HIDE DEF old, version, adding, val
        <3> QED BY <2>1, <2>2, <2>3 DEF LocalDocs
    <2>5. doc' = [doc EXCEPT ![Target] = Patched(old, new)] /\ WorkStep(Over("done"))
          /\ UNCHANGED serverVars
        BY <1>3 DEF ConfirmWrite
    <2> HIDE DEF old, new
    <2>6. Patched(old, new) \in LocalDocs
        BY <2>1, <2>4 DEF Patched
    <2>7. doc' \in [Docs -> LocalDocs]
        BY <2>5, <2>6, StoreType
    <2> QED BY <1>s, <2>5, <2>7, OverType, WorkStepTypes
<1>4. CASE ConfirmDelete
    <2>1. doc' \in [Docs -> LocalDocs]
        BY <1>4, ConstantRecords, StoreType DEF ConfirmDelete
    <2> QED BY <1>4, <1>s, <2>1, OverType, WorkStepTypes DEF ConfirmDelete
<1>5. CASE ExecReturns \/ ExecRetries
    <2>1. NoWork \in Works /\ NoWork.phase # "over"
        BY ConstantRecords DEF NoWork
    <2> QED BY <1>5, <2>1 DEF ExecReturns, ExecRetries, ClientTypeOK
<1> QED BY <1>1, <1>2, <1>3, <1>4, <1>5

\* What other clients write and what this one is told is well typed.
LEMMA RemoteTypes ==
    ASSUME ClientTypeOK, IngestInputs, Remote
    PROVE  ClientTypeOK' /\ IngestInputs'
<1> USE DEF ClientTypeOK
<1>1. ASSUME NEW d \in Docs, NEW status \in {"live", "gone"}, TheirWrite(d, status)
      PROVE  ClientTypeOK' /\ IngestInputs'
    <2>1. server[d].version + 1 \in Versions /\ "theirs" \in Values
        BY <1>1, ClientBoundsAssumption DEF TheirWrite, ServerDocs, Versions, Values
    <2>2. [status |-> status, val |-> "theirs", version |-> server[d].version + 1] \in ServerDocs
        BY <2>1 DEF ServerDocs
    <2>3. server' \in [Docs -> ServerDocs]
        BY <1>1, <2>2 DEF TheirWrite
    <2> QED BY <1>1, <2>3 DEF TheirWrite, IngestInputs
<1>2. ASSUME NEW d \in Docs, NEW kind \in {"added", "modified", "removed", "tombstone"},
             IngestReceive(d, kind)
      PROVE  ClientTypeOK' /\ IngestInputs'
    <2>1. AsChange(server[d], kind) \in Changes
        BY ChangeType
    <2>2. ingest' \in Ingests /\ ingest'.doc \in Docs
        BY <1>2, <2>1 DEF IngestReceive, Ingests
    <2> QED BY <1>2, <2>2 DEF IngestReceive, IngestInputs
<1>3. CASE IngestRead
    <2>1. ingest.change \in Changes /\ doc[ingest.doc] \in LocalDocs
        BY <1>3 DEF IngestRead, IngestInputs, Ingests
    <2>2. IngestWrite(ingest.change, doc[ingest.doc]) \in Writes
        BY <2>1, IngestWriteType
    <2>3. ingest' \in Ingests /\ ingest'.doc = ingest.doc
        BY <1>3, <2>2 DEF IngestRead, Ingests
    <2> QED BY <1>3, <2>3 DEF IngestRead, IngestInputs
<1>4. CASE IngestStore
    <2>1. ingest.write \in Writes /\ doc[ingest.doc] \in LocalDocs
        BY <1>4 DEF IngestStore, IngestInputs, Ingests
    <2>2. Ingested(doc[ingest.doc], ingest.write) \in LocalDocs
        BY <2>1, IngestedType
    <2>3. doc' \in [Docs -> LocalDocs]
        BY <1>4, <2>2, StoreType DEF IngestStore
    <2> QED BY <1>4, <2>3, ConstantRecords DEF IngestStore, IngestInputs, NoIngest
<1> QED BY <1>1, <1>2, <1>3, <1>4 DEF Remote

\* A crash leaves the types alone.
LEMMA CrashTypes ==
    ASSUME ClientTypeOK, ClientCrash
    PROVE  ClientTypeOK' /\ DraftInputs' /\ IngestInputs'
<1>1. [NoDraft EXCEPT !.phase = "lost"] \in Drafts
    BY DEF NoDraft, Drafts
<1>2. draft' \in [Calls -> Drafts]
    BY <1>1, ConstantRecords DEF ClientCrash
<1>3. DraftInputs' /\ IngestInputs'
    BY DEF ClientCrash, DraftInputs, IngestInputs, NoDraft, NoIngest
<1>4. NoWork.phase # "over"
    BY DEF NoWork
<1> QED BY <1>2, <1>3, <1>4, ConstantRecords DEF ClientCrash, ClientTypeOK

-----------------------------------------------------------------------------
(* The inductive invariant and the theorems *)

\* What a mutation leaves alone.
LEMMA MutationsKeep ==
    ASSUME Mutations
    PROVE  UNCHANGED <<work, recovery, ingest, serverVars, ingests>>
BY DEF Mutations, Intend, WriteAdd, WriteUpdate, ReadForDelete, WriteDelete, Written, Send,
       DropIntent

\* What #recover leaves alone.
LEMMA RecoveringKeeps ==
    ASSUME Recovering
    PROVE  UNCHANGED <<doc, draft, work, ingest, serverVars, restVars>>
BY DEF Recovering, RecoverQuery, RecoverPending, RecoverNext, RecoverDrop, Recovered

\* What #execute leaves alone.
LEMMA ExecutionKeeps ==
    ASSUME Execution
    PROVE  UNCHANGED <<intents, draft, recovery, ingest, restVars>>
BY DEF Execution, WorkStep, ExecRead, AddAsUpdate, Conflicts, PullAnswered, PullRead, PullWrite,
       ExecFails, ConfirmRead, ConfirmWrite, ConfirmDelete, ExecReturns, ExecRetries,
       ServerHandles, RequestFails

\* What the others do and the server tells leaves the queue and what it executes alone.
LEMMA RemoteKeeps ==
    ASSUME Remote
    PROVE  UNCHANGED <<vars, intents, draft, work, recovery, created>>
BY DEF Remote, TheirWrite, IngestReceive, IngestRead, IngestStore, clientVars, restVars

\* The queue hears of a mutation when it is sent, of #recover when it sends again or ends,
\* and of #execute when it ends.
LEMMA QueueHears ==
    /\ Mutations => UNCHANGED vars \/ \E c \in Calls : Send(c)
    /\ Recovering => UNCHANGED vars \/ RecoverNext \/ Recovered
    /\ Execution => UNCHANGED vars \/ ExecReturns \/ ExecRetries
<1>1. ASSUME Mutations PROVE UNCHANGED vars \/ \E c \in Calls : Send(c)
    BY <1>1 DEF Mutations, Intend, WriteAdd, WriteUpdate, ReadForDelete, WriteDelete, Written,
                DropIntent
<1>2. ASSUME Recovering PROVE UNCHANGED vars \/ RecoverNext \/ Recovered
    BY <1>2 DEF Recovering, RecoverQuery, RecoverPending, RecoverDrop
<1>3. ASSUME Execution PROVE UNCHANGED vars \/ ExecReturns \/ ExecRetries
    BY <1>3 DEF Execution, WorkStep, ExecRead, AddAsUpdate, Conflicts, PullAnswered, PullRead,
           PullWrite, ExecFails, ConfirmRead, ConfirmWrite, ConfirmDelete, ServerHandles,
           RequestFails
<1> QED BY <1>1, <1>2, <1>3

\* The server changes by what it takes and by what others write.
LEMMA ServerWriters ==
    ASSUME [ClientNext]_allVars
    PROVE  \/ UNCHANGED <<server, accepted>>
           \/ \E lost \in BOOLEAN : ServerHandles(lost)
           \/ \E e \in Docs, status \in {"live", "gone"} : TheirWrite(e, status)
<1>1. CASE Execution
    BY <1>1 DEF Execution, ExecRead, AddAsUpdate, Conflicts, PullAnswered, PullRead, PullWrite,
           ExecFails, ConfirmRead, ConfirmWrite, ConfirmDelete, ExecReturns, ExecRetries,
           RequestFails
<1>2. CASE Remote
    BY <1>2 DEF Remote, IngestReceive, IngestRead, IngestStore
<1>3. CASE QueueStep \/ ClientCrash \/ UNCHANGED allVars
    BY <1>3 DEF QueueStep, ClientCrash, serverVars, allVars
<1> QED BY <1>1, <1>2, <1>3, MutationsKeep, RecoveringKeeps DEF ClientNext, serverVars

\* The client's inductive invariant holds of a fresh client.
LEMMA ClientInitInvariant == ClientInit => ClientIInv
<1> SUFFICES ASSUME ClientInit PROVE ClientIInv
    OBVIOUS
<1>1. IInv
    BY InitInvariant DEF ClientInit
<1>2. "first" \in Values /\ "none" \in Values /\ 0 \in Versions /\ 1 \in Versions
    BY ClientBoundsAssumption DEF Values, Versions
<1>3. Stored("first", 1) \in LocalDocs
    BY <1>2 DEF Stored, NoDoc, LocalDocs
<1>4. [status |-> "live", val |-> "first", version |-> 1] \in ServerDocs
    BY <1>2 DEF ServerDocs
<1>5. doc \in [Docs -> LocalDocs] /\ server \in [Docs -> ServerDocs] /\ created \subseteq Docs
    BY <1>3, <1>4, ConstantRecords DEF ClientInit
<1>6. ClientTypeOK
    <2>1. NoWork.phase # "over"
        BY DEF NoWork
    <2> QED BY <1>5, <2>1, ConstantRecords DEF ClientInit, ClientTypeOK
<1>7. DraftInputs /\ WorkInputs /\ IngestInputs
    BY DEF ClientInit, Init, DraftInputs, WorkInputs, Executing, IngestInputs, NoDraft, NoIngest
<1> QED BY <1>1, <1>6, <1>7 DEF ClientIInv

\* The client's inductive invariant is kept by every step.
LEMMA ClientNextInvariant == ClientIInv /\ [ClientNext]_allVars => ClientIInv'
<1> SUFFICES ASSUME ClientIInv, [ClientNext]_allVars PROVE ClientIInv'
    OBVIOUS
<1> USE DEF ClientIInv
<1>1. [Next]_vars
    BY StepRefines
<1>2. IInv' /\ TypeOK
    BY <1>1, NextInvariant DEF IInv
<1>3. WorkInputs'
    BY <1>1, <1>2, ExecutingHead
<1>4. CASE Mutations
    BY <1>2, <1>3, <1>4, MutationTypes, MutationsKeep DEF IngestInputs
<1>5. CASE Recovering
    BY <1>2, <1>3, <1>5, RecoveryTypes, RecoveringKeeps, ExecutionKeeps DEF IngestInputs, DraftInputs
<1>6. CASE Execution
    <2>1. ClientTypeOK'
        BY <1>6, RequestTypes, AnswerTypes, StoringTypes DEF Execution
    <2> QED BY <1>2, <1>3, <1>6, <2>1, RecoveringKeeps, ExecutionKeeps DEF IngestInputs, DraftInputs
<1>7. CASE Remote
    BY <1>2, <1>3, <1>7, RemoteTypes, RemoteKeeps DEF DraftInputs
<1>8. CASE QueueStep \/ UNCHANGED allVars
    <2>1. UNCHANGED <<clientVars, serverVars, restVars>>
        BY <1>8 DEF QueueStep, allVars
    <2>2. ClientTypeOK' /\ DraftInputs' /\ IngestInputs'
        BY <2>1 DEF ClientTypeOK, DraftInputs, IngestInputs
    <2> QED BY <1>2, <1>3, <2>2
<1>9. CASE ClientCrash
    BY <1>2, <1>3, <1>9, CrashTypes
<1> QED BY <1>4, <1>5, <1>6, <1>7, <1>8, <1>9 DEF ClientNext

\* The client's inductive invariant holds in every reachable state.
THEOREM ClientInvariance == ClientSpec => []ClientIInv
BY ClientInitInvariant, ClientNextInvariant, PTL DEF ClientSpec

\* Every reachable state of the client is well typed.
THEOREM ClientTypeCorrect == ClientSpec => []ClientTypeOK
<1>1. ClientIInv => ClientTypeOK
    BY DEF ClientIInv
<1> QED BY <1>1, ClientInvariance, PTL

\* LivequeryClient drives its write queue only in the ways LivequeryOutbox
\* allows: the client implements the queue's specification.
THEOREM ClientImplementsQueue == ClientSpec => Spec
<1>1. ClientInit => Init
    BY DEF ClientInit
<1>2. ClientIInv /\ [ClientNext]_allVars => [Next]_vars
    BY StepRefines DEF ClientIInv
<1> QED BY <1>1, <1>2, ClientInvariance, PTL DEF ClientSpec, Spec

\* So the client's writes leave in order ...
THEOREM ClientSendsInOrder == ClientSpec => []InOrder
BY ClientImplementsQueue, StrictFifo

\* ... a mutation of the application never waits for an entry that is gone ...
THEOREM ClientNeverOrphans == ClientSpec => []NoOrphanWaiter
BY ClientImplementsQueue, NoOrphans

\* ... and what it recorded is always about to be sent.
THEOREM ClientNeverStranded == ClientSpec => []NoStrandedQueue
BY ClientImplementsQueue, NeverStranded

-----------------------------------------------------------------------------
(* Adds are durable: what makes AddingIsQueued inductive. Mutations wait for  *)
(* #recover (~Early); Client_early_recover shows what happens otherwise.      *)

\* An add that has not been written yet.
IntendsAdd(c, d) ==
    draft[c].phase = "intended" /\ draft[c].op = "add" /\ draft[c].doc = d

\* A document that nobody but its add can have heard of.
Unborn(d) == d \notin created \/ \E c \in Calls : IntendsAdd(c, d)
Unheard(d) ==
    /\ ~doc[d].here
    /\ server[d].status = "absent"
    /\ head.doc # d /\ ingest.doc # d
    /\ \A e \in outbox : e.doc # d
    /\ \A c \in Calls : call[c].doc # d /\ (draft[c].doc = d => IntendsAdd(c, d))
UnbornIsUnheard == \A d \in Docs : Unborn(d) => Unheard(d)
OneAdder == \A b, c \in Calls, d \in Docs : IntendsAdd(b, d) /\ IntendsAdd(c, d) => b = c
DraftsAreBorn == \A c \in Calls : draft[c].doc \in created \cup {"none"}
BirthIInv == UnbornIsUnheard /\ OneAdder /\ DraftsAreBorn

\* A document that is gone has no marks.
Clean(r) == ~r.here => ~r.adding /\ ~r.prev /\ ~r.deleting
GoneIsClean == \A d \in Docs : Clean(doc[d])

\* Mutations are called when #recover is done, unless the application does not wait.
RecoveredFirst ==
    ~Early => \A c \in Calls : draft[c].phase \notin {"idle", "lost"} => recovery.phase = "done"

\* Intents, mutations and calls of the queue speak of the same thing.
IntentsMatch ==
    /\ \A i \in intents :
          /\ draft[i.id].phase # "idle"
          /\ draft[i.id].phase # "lost" => draft[i.id].op = i.op /\ draft[i.id].doc = i.doc
    /\ \A c \in Calls : ~Early /\ draft[c].phase = "intended" /\ draft[c].op = "add" =>
          \E i \in intents : i.op = "add" /\ i.doc = draft[c].doc
    /\ \A c \in Calls : draft[c].op = "add" => draft[c].phase # "nothing"
CallsMatch ==
    /\ \A c \in Calls : draft[c].phase = "sent" =>
          /\ call[c].phase \notin {"new", "lost"}
          /\ call[c].op = draft[c].op /\ call[c].doc = draft[c].doc
    /\ recovery.phase = "drop" =>
          LET c == recovery.caller
          IN  /\ c \in Calls /\ call[c].phase \notin {"new", "lost"}
              /\ call[c].op = recovery.at.op /\ call[c].doc = recovery.at.doc

\* Whoever marks a document for deletion, or deletes it, found it sent or took its
\* add back with it.
DeletesAreHeard ==
    /\ \A d \in Docs : doc[d].deleting => ~doc[d].adding
    /\ \A c \in Calls : call[c].op = "delete" => ~doc[call[c].doc].adding
    /\ \A c \in Calls :
          /\ draft[c].op = "delete"
          /\ \/ draft[c].phase \in {"written", "sent", "nothing"}
             \/ draft[c].phase = "got" /\ ~draft[c].adding
          => ~doc[draft[c].doc].adding
    /\ \A c \in Calls : draft[c].phase = "got" => draft[c].op = "delete"

\* An add that was sent to its end no longer marks the document.
EndedAdd ==
    /\ work.phase # "idle" => Executing
    /\ head.op = "add" /\ (work.phase = "over" \/ loop = "confirming") => ~doc[head.doc].adding

AddQueued(d) == \E e \in outbox : e.doc = d /\ e.op = "add"
AddIntended(d) == \E i \in intents : i.doc = d /\ i.op = "add"

\* What an added document is told by: its entry once it was queued, before that its
\* intent, whatever happens to who was about to queue it.
AddedIsQueued ==
    \A c \in Calls :
        /\ call[c].op = "add"
        /\ call[c].phase \in {"decided", "recorded", "reporting", "waiting"}
        /\ doc[call[c].doc].adding
        => AddQueued(call[c].doc)
CoveredIsQueued ==
    /\ recovery.phase \notin {"next", "drop"} => recovery.queued = {}
    /\ ~Early => \A e \in recovery.queued :
                    e.op = "add" /\ doc[e.doc].adding => AddQueued(e.doc)
AddingIsDurable == ~Early => \A d \in Docs : doc[d].adding => AddQueued(d) \/ AddIntended(d)

MarksIInv == GoneIsClean /\ RecoveredFirst /\ IntentsMatch /\ CallsMatch
SentAddIInv == DeletesAreHeard /\ EndedAdd
DurableIInv == AddedIsQueued /\ CoveredIsQueued /\ AddingIsDurable

-----------------------------------------------------------------------------
(* Who writes what *)

\* A document is written by a mutation, by #execute, or by the ingestion.
LEMMA DocMoves ==
    ASSUME ClientTypeOK, [ClientNext]_allVars, NEW d \in Docs, doc'[d] # doc[d]
    PROVE  \/ \E c \in Calls : /\ draft[c].doc = d
                               /\ WriteAdd(c) \/ WriteUpdate(c) \/ WriteDelete(c)
           \/ d = Target /\ (PullWrite \/ ExecFails \/ ConfirmWrite \/ ConfirmDelete)
           \/ d = ingest.doc /\ IngestStore
<1> USE DEF ClientTypeOK
<1>0. ~UNCHANGED doc
    OBVIOUS
<1>1. ASSUME Mutations
      PROVE  \E c \in Calls : /\ draft[c].doc = d
                              /\ WriteAdd(c) \/ WriteUpdate(c) \/ WriteDelete(c)
    <2>1. PICK c \in Calls : WriteAdd(c) \/ WriteUpdate(c) \/ WriteDelete(c)
        BY <1>0, <1>1 DEF Mutations, Intend, ReadForDelete, Send, DropIntent
    <2>2. \E x : doc' = [doc EXCEPT ![draft[c].doc] = x]
        BY <2>1 DEF WriteAdd, WriteUpdate, WriteDelete, Written
    <2> QED BY <2>1, <2>2
<1>2. ~Recovering
    BY <1>0, RecoveringKeeps
<1>3. ASSUME Execution
      PROVE  d = Target /\ (PullWrite \/ ExecFails \/ ConfirmWrite \/ ConfirmDelete)
    <2>1. PullWrite \/ ExecFails \/ ConfirmWrite \/ ConfirmDelete
        BY <1>0, <1>3 DEF Execution, ExecRead, AddAsUpdate, Conflicts, PullAnswered, PullRead,
                          ConfirmRead, ExecReturns, ExecRetries, ServerHandles, RequestFails
    <2>2. \E x : doc' = [doc EXCEPT ![Target] = x]
        BY <2>1 DEF PullWrite, ExecFails, ConfirmWrite, ConfirmDelete
    <2> QED BY <2>1, <2>2
<1>4. ASSUME Remote PROVE d = ingest.doc /\ IngestStore
    <2>1. IngestStore
        BY <1>0, <1>4 DEF Remote, TheirWrite, IngestReceive, IngestRead
    <2>2. \E x : doc' = [doc EXCEPT ![ingest.doc] = x]
        BY <2>1 DEF IngestStore
    <2> QED BY <2>1, <2>2
<1>5. ~QueueStep /\ ~ClientCrash /\ ~UNCHANGED allVars
    BY <1>0 DEF QueueStep, ClientCrash, allVars
<1> QED BY <1>1, <1>2, <1>3, <1>4, <1>5 DEF ClientNext

\* What the storage call of an ingestion leaves of a document.
LEMMA IngestedFlags ==
    ASSUME NEW old \in LocalDocs, NEW write \in Writes, Clean(old)
    PROVE  LET new == Ingested(old, write)
           IN  /\ new.adding => old.adding
               /\ new.deleting => old.deleting
               /\ new.here => old.here \/ write.do = "put"
               /\ Clean(new)
               /\ write.do # "put" /\ new.here => new.adding = old.adding /\ new.errors = old.errors
<1>1. write.do = "nothing" => Ingested(old, write) = old
    BY DEF Ingested
<1>2. write.do = "delete" => Ingested(old, write) = NoDoc
    BY DEF Ingested
<1>3. write.do = "put" => Ingested(old, write) = Stored(write.val, write.version)
    BY DEF Ingested
<1>4. write.do = "merge" =>
          Ingested(old, write) =
              Patched(old, [old EXCEPT !.val = write.val, !.version = write.version])
    BY DEF Ingested
<1>5. ~NoDoc.here /\ ~NoDoc.adding /\ ~NoDoc.deleting /\ ~NoDoc.prev
    BY DEF NoDoc
<1>6. LET new == Stored(write.val, write.version)
      IN  new.here /\ ~new.adding /\ ~new.deleting
    BY DEF Stored, NoDoc
<1>7. LET new == Patched(old, [old EXCEPT !.val = write.val, !.version = write.version])
      IN  /\ new.here = old.here /\ new.adding = old.adding /\ new.deleting = old.deleting
          /\ new.prev = old.prev /\ new.errors = old.errors
    BY DEF Patched, LocalDocs
<1>8. write.do \in {"nothing", "delete", "put", "merge"}
    BY DEF Writes
<1> QED BY <1>1, <1>2, <1>3, <1>4, <1>5, <1>6, <1>7, <1>8 DEF Clean

\* storage.update brings no document back, whatever it writes.
LEMMA PatchedFlags ==
    ASSUME NEW old \in LocalDocs, NEW new, Clean(old), new.here = old.here
    PROVE  LET r == Patched(old, new)
           IN  /\ r.here = old.here
               /\ r.adding => old.adding \/ new.adding
               /\ r.deleting => old.deleting \/ new.deleting
               /\ Clean(r)
               /\ r.here => r = new
BY DEF Patched, Clean

\* #failed takes the mark of its operation away and says so.
LEMMA FailedFlags ==
    ASSUME ClientTypeOK, WorkInputs, GoneIsClean, ExecFails
    PROVE  LET old == doc[Target]
               new == doc'[Target]
           IN  /\ Target \in Docs /\ head.op \in Ops
               /\ doc' = [doc EXCEPT ![Target] = new]
               /\ new.here = old.here
               /\ new.adding => old.adding
               /\ new.deleting => old.deleting
               /\ Clean(new)
               /\ head.op = "add" => ~new.adding
               /\ new.here => new.errors = old.errors \cup {head.op}
               /\ new.here /\ head.op # "add" => new.adding = old.adding
<1> DEFINE old == doc[Target]
           flagged == [old EXCEPT !.errors = @ \cup {head.op}]
           failed == CASE head.op = "add" -> [flagged EXCEPT !.adding = FALSE]
                       [] head.op = "update" -> [flagged EXCEPT !.prev = FALSE]
                       [] head.op = "delete" -> [flagged EXCEPT !.deleting = FALSE]
<1>1. head.op \in Ops /\ Target \in Docs /\ old \in LocalDocs
    BY DEF ExecFails, WorkInputs, Executing, Entry, Target, ClientTypeOK
<1>2. doc' = [doc EXCEPT ![Target] = Patched(old, failed)] /\ doc \in [Docs -> LocalDocs]
    BY DEF ExecFails, ClientTypeOK
<1>3. Clean(old)
    BY <1>1 DEF GoneIsClean
<1> HIDE DEF old
<1>4. /\ flagged.here = old.here /\ flagged.adding = old.adding
      /\ flagged.deleting = old.deleting /\ flagged.errors = old.errors \cup {head.op}
      /\ flagged \in LocalDocs
    BY <1>1 DEF LocalDocs
<1> HIDE DEF flagged
<1>5. /\ failed.here = old.here /\ failed.errors = old.errors \cup {head.op}
      /\ failed.adding => old.adding
      /\ failed.deleting => old.deleting
      /\ head.op = "add" => ~failed.adding
      /\ head.op # "add" => failed.adding = old.adding
    BY <1>1, <1>4 DEF LocalDocs, Ops
<1> HIDE DEF failed
<1>6. doc'[Target] = Patched(old, failed)
    BY <1>1, <1>2
<1>7. head.op = "add" => ~Patched(old, failed).adding
    BY <1>3, <1>5 DEF Patched, Clean
<1> QED BY <1>1, <1>2, <1>3, <1>5, <1>6, <1>7, PatchedFlags DEF old

\* A confirmation takes the mark of an add away and brings no document back.
LEMMA ConfirmedFlags ==
    ASSUME ClientTypeOK, WorkInputs, GoneIsClean, ConfirmWrite
    PROVE  LET old == doc[Target]
               new == doc'[Target]
           IN  /\ Target \in Docs
               /\ doc' = [doc EXCEPT ![Target] = new]
               /\ new.here = old.here
               /\ new.adding => old.adding
               /\ new.deleting => old.deleting
               /\ Clean(new)
               /\ head.op = "add" => ~new.adding
               /\ new.here => new.errors = old.errors \ {head.op}
               /\ new.here /\ head.op # "add" => new.adding = old.adding
<1> DEFINE old == doc[Target]
           bare == head.op = "add" /\ work.kind = "put"
           version == IF work.version = 0 \/ bare THEN old.version ELSE work.version
           adding == IF head.op = "add" THEN FALSE ELSE old.adding
           val == IF head.op = "add" /\ (work.unsent \/ ~bare) THEN work.sent ELSE old.val
           new == [old EXCEPT !.prev = work.unsent, !.version = version,
                              !.errors = @ \ {head.op}, !.adding = adding, !.val = val]
<1>1. Target \in Docs /\ old \in LocalDocs
    BY DEF ConfirmWrite, WorkInputs, Executing, Entry, Target, ClientTypeOK
<1>2. doc' = [doc EXCEPT ![Target] = Patched(old, new)] /\ doc \in [Docs -> LocalDocs]
    BY DEF ConfirmWrite, ClientTypeOK
<1>3. Clean(old)
    BY <1>1 DEF GoneIsClean
<1> HIDE DEF old, version, val
<1>4. /\ new.here = old.here /\ new.errors = old.errors \ {head.op}
      /\ new.adding = adding /\ new.deleting = old.deleting
    BY <1>1 DEF LocalDocs
<1> HIDE DEF new
<1>6. doc'[Target] = Patched(old, new)
    BY <1>1, <1>2
<1>7. head.op = "add" => ~Patched(old, new).adding
    BY <1>3, <1>4 DEF Patched, Clean
<1> QED BY <1>1, <1>2, <1>3, <1>4, <1>6, <1>7, PatchedFlags DEF old

\* Only an add marks a document as new, only a delete of one that is not new marks it
\* as deleted, and only the server brings one back.
LEMMA DocFlags ==
    ASSUME ClientTypeOK, DraftInputs, WorkInputs, IngestInputs, GoneIsClean,
           [ClientNext]_allVars, NEW d \in Docs,
           ~\E c \in Calls : WriteAdd(c) /\ draft[c].doc = d
    PROVE  /\ doc'[d].adding => doc[d].adding
           /\ doc'[d].here => \/ doc[d].here
                              \/ IngestStore /\ d = ingest.doc
                              \/ PullWrite /\ d = Target /\ work.write.do = "put"
           /\ doc'[d].deleting =>
                  \/ doc[d].deleting
                  \/ \E c \in Calls : WriteDelete(c) /\ draft[c].doc = d /\ ~draft[c].adding
           /\ Clean(doc'[d])
<1>d. doc \in [Docs -> LocalDocs] /\ doc[d] \in LocalDocs /\ Clean(doc[d])
    BY DEF ClientTypeOK, GoneIsClean
<1>1. ASSUME NEW c \in Calls, draft[c].doc = d, WriteUpdate(c)
      PROVE  /\ doc'[d].here = doc[d].here /\ doc'[d].adding = doc[d].adding
             /\ doc'[d].deleting = doc[d].deleting /\ Clean(doc'[d])
    <2> DEFINE old == doc[d]
    <2>1. doc'[d] = Patched(old, [old EXCEPT !.val = c, !.prev = TRUE])
        BY <1>1, <1>d DEF WriteUpdate, Written
    <2> HIDE DEF old
    <2>2. old \in LocalDocs /\ Clean(old)
        BY <1>d DEF old
    <2>3. LET r == Patched(old, [old EXCEPT !.val = c, !.prev = TRUE])
          IN  /\ r.here = old.here /\ r.adding = old.adding /\ r.deleting = old.deleting
              /\ Clean(r)
        BY <2>2 DEF Patched, LocalDocs, Clean
    <2> QED BY <2>1, <2>3 DEF old
<1>2. ASSUME NEW c \in Calls, draft[c].doc = d, WriteDelete(c)
      PROVE  /\ doc'[d].here => doc[d].here
             /\ doc'[d].adding => doc[d].adding
             /\ doc'[d].deleting => doc[d].deleting \/ ~draft[c].adding
             /\ Clean(doc'[d])
    <2> DEFINE old == doc[d]
    <2>1. doc'[d] = IF draft[c].adding THEN NoDoc
                    ELSE Patched(old, [old EXCEPT !.deleting = TRUE])
        BY <1>2, <1>d DEF WriteDelete, Written
    <2> HIDE DEF old
    <2>2. old \in LocalDocs /\ Clean(old)
        BY <1>d DEF old
    <2>3. LET r == Patched(old, [old EXCEPT !.deleting = TRUE])
          IN  r.here = old.here /\ r.adding = old.adding /\ Clean(r)
        BY <2>2 DEF Patched, LocalDocs, Clean
    <2>4. ~NoDoc.here /\ ~NoDoc.adding /\ ~NoDoc.deleting /\ Clean(NoDoc)
        BY DEF NoDoc, Clean
    <2> QED BY <2>1, <2>3, <2>4 DEF old
<1>3. CASE d = Target /\ ExecFails
    BY <1>3, FailedFlags
<1>4. CASE d = Target /\ ConfirmWrite
    BY <1>4, ConfirmedFlags
<1>5. CASE d = Target /\ ConfirmDelete
    <2>1. doc'[d] = NoDoc
        BY <1>5, <1>d DEF ConfirmDelete
    <2> QED BY <2>1 DEF NoDoc, Clean
<1>6. CASE d = Target /\ PullWrite
    <2>1. doc'[d] = Ingested(doc[d], work.write) /\ work.write \in Writes
        BY <1>6, <1>d DEF PullWrite, ClientTypeOK, Works
    <2> QED BY <1>6, <1>d, <2>1, IngestedFlags
<1>7. CASE d = ingest.doc /\ IngestStore
    <2>1. doc'[d] = Ingested(doc[d], ingest.write) /\ ingest.write \in Writes
        BY <1>7, <1>d DEF IngestStore, ClientTypeOK, Ingests
    <2> QED BY <1>7, <1>d, <2>1, IngestedFlags
<1>8. CASE doc'[d] = doc[d]
    BY <1>8, <1>d
<1> QED BY <1>1, <1>2, <1>3, <1>4, <1>5, <1>6, <1>7, <1>8, DocMoves

\* Nothing the server was ever given becomes unknown to it; it is given what the loop
\* executes.
LEMMA ServerMoves ==
    ASSUME ClientTypeOK, [ClientNext]_allVars, NEW d \in Docs
    PROVE  /\ server[d].status # "absent" => server'[d].status # "absent"
           /\ server'[d].status # "absent" => server[d].status # "absent" \/ d = head.doc
<1>s. server \in [Docs -> ServerDocs]
    BY DEF ClientTypeOK
<1>1. ASSUME NEW lost \in BOOLEAN, ServerHandles(lost)
      PROVE  /\ server[d].status # "absent" => server'[d].status # "absent"
             /\ d # head.doc => server'[d] = server[d]
    <2>1. CASE d # Target
        BY <1>1, <1>s, <2>1 DEF ServerHandles, Target
    <2>2. CASE d = Target
        <3> DEFINE s == server[Target]
                   applies == Applies(work.kind, work.base, s)
        <3>1. server'[d].status = IF ~applies THEN s.status
                                  ELSE IF work.kind = "del" THEN "gone" ELSE "live"
            BY <1>1, <1>s, <2>2 DEF ServerHandles
        <3> QED BY <2>2, <3>1 DEF Target
    <2> QED BY <2>1, <2>2
<1>2. ASSUME NEW e \in Docs, NEW status \in {"live", "gone"}, TheirWrite(e, status)
      PROVE  (server[d].status # "absent") = (server'[d].status # "absent")
    BY <1>2, <1>s DEF TheirWrite
<1>3. CASE UNCHANGED server
    BY <1>3
<1> QED BY <1>1, <1>2, <1>3, ServerWriters

\* A mutation is called, reads, writes, is sent, and is lost in a crash.
LEMMA DraftMoves ==
    ASSUME ClientTypeOK, [ClientNext]_allVars, NEW c \in Calls, draft'[c] # draft[c]
    PROVE  LET r == draft[c]
               s == draft'[c]
           IN  \/ /\ \E op \in Ops, d \in Docs :
                        Intend(c, op, d) /\ s.op = op /\ s.doc = d
                  /\ s.phase = "intended"
               \/ /\ WriteAdd(c) \/ WriteUpdate(c) \/ WriteDelete(c)
                  /\ s.op = r.op /\ s.doc = r.doc /\ s.adding = r.adding
                  /\ r.phase \in {"intended", "got"} /\ s.phase \in {"written", "nothing"}
                  /\ s.phase = "nothing" => r.op # "add" /\ ~doc[r.doc].here
                  /\ s.unsynced = (r.op # "add" /\ doc[r.doc].adding)
               \/ /\ ReadForDelete(c)
                  /\ s.op = r.op /\ s.doc = r.doc /\ s.adding = doc[r.doc].adding
                  /\ s.phase = "got"
               \/ /\ Send(c)
                  /\ s.op = r.op /\ s.doc = r.doc /\ s.adding = r.adding
                  /\ s.unsynced = r.unsynced
                  /\ s.phase = "sent"
               \/ ClientCrash /\ s.phase \in {"idle", "lost"} /\ s.op = "none" /\ s.doc = "none"
<1>t. draft \in [Calls -> Drafts] /\ draft[c] \in Drafts
    BY DEF ClientTypeOK
<1>1. ASSUME NEW b \in Calls, NEW op \in Ops, NEW d \in Docs, Intend(b, op, d)
      PROVE  b = c /\ draft'[c].op = op /\ draft'[c].doc = d /\ draft'[c].phase = "intended"
    <2>1. b = c
        BY <1>1, <1>t DEF Intend
    <2>2. draft'[c] = [NoDraft EXCEPT !.phase = "intended", !.op = op, !.doc = d]
        BY <1>1, <1>t, <2>1 DEF Intend
    <2> QED BY <2>1, <2>2 DEF NoDraft
<1>2. ASSUME NEW b \in Calls, NEW new, Written(b, new)
      PROVE  LET r == draft[c]
                 s == draft'[c]
             IN  /\ b = c
                 /\ s.op = r.op /\ s.doc = r.doc /\ s.adding = r.adding
                 /\ s.phase \in {"written", "nothing"}
                 /\ s.phase = "nothing" => r.op # "add" /\ ~doc[r.doc].here
                 /\ s.unsynced = (r.op # "add" /\ doc[r.doc].adding)
    <2>1. b = c
        BY <1>2, <1>t DEF Written
    <2> DEFINE p == IF draft[c].op = "add" \/ doc[draft[c].doc].here THEN "written" ELSE "nothing"
               u == draft[c].op # "add" /\ doc[draft[c].doc].adding
    <2>2. draft'[c] = [draft[c] EXCEPT !.phase = p, !.unsynced = u]
        BY <1>2, <1>t, <2>1 DEF Written
    <2> HIDE DEF p, u
    <2>3. /\ draft'[c].op = draft[c].op /\ draft'[c].doc = draft[c].doc
          /\ draft'[c].adding = draft[c].adding
          /\ draft'[c].phase = p /\ draft'[c].unsynced = u
        BY <2>2, <1>t DEF Drafts
    <2>4. /\ p \in {"written", "nothing"}
          /\ p = "nothing" => draft[c].op # "add" /\ ~doc[draft[c].doc].here
        BY DEF p
    <2> QED BY <2>1, <2>3, <2>4 DEF u
<1>3. ASSUME NEW b \in Calls, WriteAdd(b) \/ WriteUpdate(b) \/ WriteDelete(b)
      PROVE  (\E new : Written(b, new)) /\ draft[b].phase \in {"intended", "got"}
    BY <1>3 DEF WriteAdd, WriteUpdate, WriteDelete
<1>4. ASSUME NEW b \in Calls, ReadForDelete(b)
      PROVE  /\ b = c
             /\ draft'[c].op = draft[c].op /\ draft'[c].doc = draft[c].doc
             /\ draft'[c].adding = doc[draft[c].doc].adding /\ draft'[c].phase = "got"
    <2>1. b = c
        BY <1>4, <1>t DEF ReadForDelete
    <2>2. draft'[c] = [draft[c] EXCEPT !.phase = "got", !.adding = doc[draft[c].doc].adding]
        BY <1>4, <1>t, <2>1 DEF ReadForDelete
    <2> QED BY <2>1, <2>2, <1>t DEF Drafts
<1>5. ASSUME NEW b \in Calls, Send(b)
      PROVE  /\ b = c
             /\ draft'[c].op = draft[c].op /\ draft'[c].doc = draft[c].doc
             /\ draft'[c].adding = draft[c].adding /\ draft'[c].unsynced = draft[c].unsynced
             /\ draft'[c].phase = "sent"
    <2>1. b = c
        BY <1>5, <1>t DEF Send
    <2>2. draft'[c] = [draft[c] EXCEPT !.phase = "sent"]
        BY <1>5, <1>t, <2>1 DEF Send
    <2> QED BY <2>1, <2>2, <1>t DEF Drafts
<1>6. \A b \in Calls : ~DropIntent(b)
    BY DEF DropIntent
<1>7. CASE Mutations
    BY <1>1, <1>2, <1>3, <1>4, <1>5, <1>6, <1>7 DEF Mutations
<1>8. ASSUME ClientCrash
      PROVE  draft'[c].phase \in {"idle", "lost"} /\ draft'[c].op = "none" /\ draft'[c].doc = "none"
    <2>1. draft'[c] \in {NoDraft, [NoDraft EXCEPT !.phase = "lost"]}
        BY <1>8 DEF ClientCrash
    <2> QED BY <2>1 DEF NoDraft
<1>9. ~Recovering /\ ~Execution /\ ~Remote /\ ~QueueStep /\ ~UNCHANGED allVars
    BY RecoveringKeeps, ExecutionKeeps, RemoteKeeps DEF QueueStep, allVars
<1> QED BY <1>7, <1>8, <1>9 DEF ClientNext

\* A call as Enqueue makes it.
LEMMA QueuedCall ==
    ASSUME NEW op, NEW d, NEW u
    PROVE  LET r == [NoCall EXCEPT !.phase = "queued", !.op = op, !.doc = d, !.unsynced = u]
           IN  r.phase = "queued" /\ r.op = op /\ r.doc = d /\ r.unsynced = u
BY DEF NoCall

\* Calls of the queue are those mutations send and #recover makes, until a crash.
LEMMA CallOrigins ==
    ASSUME TypeOK, ClientTypeOK, [ClientNext]_allVars, NEW c \in Calls, call'[c] # call[c]
    PROVE  LET r == call'[c]
           IN  \/ CallStep(c) /\ UNCHANGED <<clientVars, serverVars, restVars>>
               \/ /\ Send(c) /\ call[c].phase = "new"
                  /\ r.phase = "queued" /\ r.op = draft[c].op /\ r.doc = draft[c].doc
                  /\ r.unsynced = draft[c].unsynced
               \/ /\ RecoverNext /\ call[c].phase = "new"
                  /\ \E i \in recovery.todo :
                        /\ StillWaits(i)
                        /\ r.phase = "queued" /\ r.op = i.op /\ r.doc = i.doc
                        /\ r.unsynced = (i.op # "add" /\ doc[i.doc].adding)
               \/ ClientCrash /\ r.phase \in {"new", "lost"} /\ r.op = "none" /\ r.doc = "none"
<1>t. call \in [Calls -> CallRecord]
    BY DEF TypeOK
<1>1. ASSUME NEW b \in Calls, NEW op, NEW d, NEW u, Enqueue(b, op, d, u)
      PROVE  /\ b = c /\ call[c].phase = "new"
             /\ call'[c].phase = "queued" /\ call'[c].op = op /\ call'[c].doc = d
             /\ call'[c].unsynced = u
    <2>1. b = c
        BY <1>1, <1>t DEF Enqueue
    <2> DEFINE r == [NoCall EXCEPT !.phase = "queued", !.op = op, !.doc = d, !.unsynced = u]
    <2>2. call'[c] = r /\ call[c].phase = "new"
        BY <1>1, <1>t, <2>1 DEF Enqueue
    <2>3. r.phase = "queued" /\ r.op = op /\ r.doc = d /\ r.unsynced = u
        BY QueuedCall
    <2> HIDE DEF r
    <2> QED BY <2>1, <2>2, <2>3
<1>2. CASE Mutations
    <2>1. PICK b \in Calls : Send(b)
        BY <1>2, QueueHears DEF vars
    <2>2. Enqueue(b, draft[b].op, draft[b].doc, draft[b].unsynced)
        BY <2>1 DEF Send
    <2> QED BY <2>1, <2>2, <1>1
<1>3. CASE Recovering
    <2>1. RecoverNext
        BY <1>3, QueueHears DEF Recovered, Start, vars
    <2>2. PICK i \in recovery.todo :
              /\ StillWaits(i)
              /\ \E b \in Recoveries :
                     Enqueue(b, i.op, i.doc, i.op # "add" /\ doc[i.doc].adding)
        BY <2>1 DEF RecoverNext, vars
    <2> DEFINE u == i.op # "add" /\ doc[i.doc].adding
    <2>3. PICK b \in Recoveries : Enqueue(b, i.op, i.doc, u)
        BY <2>2
    <2> HIDE DEF u
    <2>4. /\ b = c /\ call[c].phase = "new"
          /\ call'[c].phase = "queued" /\ call'[c].op = i.op /\ call'[c].doc = i.doc
          /\ call'[c].unsynced = u
        BY <2>3, <1>1, RecoveriesAssumption
    <2> QED BY <2>1, <2>2, <2>4 DEF u
<1>4. ~Execution
    BY QueueHears DEF ExecReturns, ExecRetries, ExecuteEnds, ExecuteRetries, vars
<1>5. ~Remote /\ ~UNCHANGED allVars
    BY RemoteKeeps DEF allVars, vars
<1>6. CASE QueueStep
    <2>1. ~LoopStep /\ ~TimerFires
        BY OthersKeepCalls DEF TimerFires, Wake
    <2>2. PICK b \in Calls : CallStep(b)
        BY <1>6, <2>1 DEF QueueStep
    <2>3. b = c
        BY <2>2, CallsKeepInputs
    <2> QED BY <1>6, <2>2, <2>3 DEF QueueStep
<1>7. CASE ClientCrash
    <2>1. call'[c] \in {NoCall, [NoCall EXCEPT !.phase = "lost"]}
        BY <1>7 DEF ClientCrash, Crash
    <2> QED BY <1>7, <2>1 DEF NoCall
<1> QED BY <1>2, <1>3, <1>4, <1>5, <1>6, <1>7 DEF ClientNext

\* The client has its storage to itself, and does not flush it.
LEMMA ClientIsAlone ==
    ASSUME [ClientNext]_allVars
    PROVE  UNCHANGED <<flushes, sending>>
<1>1. ASSUME NEW c \in Calls, NEW op, NEW d, NEW u, Enqueue(c, op, d, u)
      PROVE  UNCHANGED <<flushes, sending>>
    BY <1>1 DEF Enqueue
<1>2. CASE Mutations
    BY <1>1, <1>2, QueueHears DEF Send, vars
<1>3. CASE Recovering
    <2>1. CASE RecoverNext
        BY <1>1, <2>1, RecoveriesAssumption DEF RecoverNext, vars
    <2> QED BY <1>3, <2>1, QueueHears DEF Recovered, Start, vars
<1>4. CASE Execution
    BY <1>4, QueueHears DEF ExecReturns, ExecRetries, ExecuteEnds, ExecuteRetries, vars
<1>5. CASE Remote \/ UNCHANGED allVars
    BY <1>5, RemoteKeeps DEF allVars, vars
<1>6. CASE QueueStep
    <2>1. ASSUME NEW c \in Calls, CallStep(c) PROVE UNCHANGED <<flushes, sending>>
        BY <2>1 DEF CallStep, StartJob, Decide, Drop, EndDrops, AddEntry, EndJob, Resume, Reported
    <2>2. CASE LoopStep
        BY <2>2 DEF LoopStep, LockGranted, LockBusy, GiveUp, LoopRead, LoopIdle, LoopExecute,
                    ConfirmHead, PersistRetry, RetryReported, LoopEnd
    <2>3. CASE TimerFires
        BY <2>3 DEF TimerFires, Wake
    <2> QED BY <1>6, <2>1, <2>2, <2>3 DEF QueueStep
<1>7. CASE ClientCrash
    BY <1>7 DEF ClientCrash, Crash
<1> QED BY <1>2, <1>3, <1>4, <1>5, <1>6, <1>7 DEF ClientNext

-----------------------------------------------------------------------------
(* An add is the first to speak of its document *)

\* A document is created by a call; what is ingested the server has.
LEMMA CreatedMoves ==
    ASSUME [ClientNext]_allVars
    PROVE  /\ created \subseteq created'
           /\ \A c \in Calls, op \in Ops, d \in Docs : Intend(c, op, d) => d \in created'
           /\ \A c \in Calls : WriteAdd(c) => created' = created
<1>1. UNCHANGED created \/ \E c \in Calls, op \in Ops, d \in Docs : Intend(c, op, d)
    <2>1. CASE Mutations
        BY <2>1 DEF Mutations, WriteAdd, WriteUpdate, ReadForDelete, WriteDelete, Written, Send,
                    DropIntent
    <2>2. CASE QueueStep \/ ClientCrash \/ UNCHANGED allVars
        BY <2>2 DEF QueueStep, ClientCrash, restVars, allVars
    <2> QED BY <2>1, <2>2, RecoveringKeeps, ExecutionKeeps, RemoteKeeps DEF ClientNext, restVars
<1>2. \A c \in Calls, op \in Ops, d \in Docs : Intend(c, op, d) => created' = created \cup {d}
    BY DEF Intend
<1>3. \A c \in Calls : WriteAdd(c) => created' = created
    BY DEF WriteAdd, Written
<1> QED BY <1>1, <1>2, <1>3

LEMMA IngestMoves ==
    ASSUME ClientTypeOK, [ClientNext]_allVars
    PROVE  ingest'.doc \in {"none", ingest.doc} \cup {d \in Docs : server[d].status # "absent"}
<1>t. ingest \in Ingests
    BY DEF ClientTypeOK
<1>1. ASSUME NEW d \in Docs, NEW kind \in {"added", "modified", "removed", "tombstone"},
             IngestReceive(d, kind)
      PROVE  ingest'.doc = d /\ server[d].status # "absent"
    <2>1. ingest' = [ingest EXCEPT !.phase = "read", !.doc = d, !.change = AsChange(server[d], kind)]
        BY <1>1 DEF IngestReceive
    <2>2. ingest'.doc = d
        BY <2>1, <1>t DEF Ingests
    <2>3. server[d].status # "absent"
        BY <1>1 DEF IngestReceive
    <2> QED BY <2>2, <2>3
<1>2. ASSUME IngestRead PROVE ingest'.doc = ingest.doc
    BY <1>2, <1>t DEF IngestRead, Ingests
<1>3. ASSUME IngestStore \/ ClientCrash PROVE ingest'.doc = "none"
    BY <1>3 DEF IngestStore, ClientCrash, NoIngest
<1>4. CASE UNCHANGED ingest
    BY <1>4
<1>5. CASE Remote
    BY <1>1, <1>2, <1>3, <1>4, <1>5 DEF Remote, TheirWrite
<1>6. CASE QueueStep \/ UNCHANGED allVars
    BY <1>4, <1>6 DEF QueueStep, allVars
<1> QED BY <1>3, <1>4, <1>5, <1>6, MutationsKeep, RecoveringKeeps, ExecutionKeeps DEF ClientNext

\* What is known of the queue, as the client uses it.
QueueFacts == IInv /\ SentIInv /\ EntriesMeant

\* Nobody writes, queues, sends or hears of a document before its add writes it.
LEMMA BirthPreserved ==
    ASSUME ClientIInv, QueueFacts, GoneIsClean, BirthIInv, [ClientNext]_allVars
    PROVE  BirthIInv'
<1>q. TypeOK /\ ClientTypeOK /\ [Next]_vars /\ DraftInputs /\ WorkInputs /\ IngestInputs
      /\ CallsShaped
    BY StepRefines DEF ClientIInv, QueueFacts, IInv, SentIInv
<1>u. ASSUME NEW d \in Docs, Unborn(d) PROVE Unheard(d)
    BY <1>u DEF BirthIInv, UnbornIsUnheard
<1>i. ASSUME NEW c \in Calls, NEW d \in Docs, IntendsAdd(c, d)'
      PROVE  IntendsAdd(c, d) \/ (Intend(c, "add", d) /\ d \notin created)
    <2>1. CASE draft'[c] = draft[c]
        BY <1>i, <2>1 DEF IntendsAdd
    <2>2. CASE draft'[c] # draft[c]
        <3>1. Intend(c, "add", d)
            BY <1>i, <1>q, <2>2, DraftMoves DEF IntendsAdd
        <3> QED BY <3>1 DEF Intend
    <2> QED BY <2>1, <2>2
<1>1. ASSUME NEW d \in Docs, Unborn(d)' PROVE Unheard(d)'
    <2>1. Unborn(d)
        BY <1>1, <1>i, CreatedMoves DEF Unborn
    <2>2. Unheard(d)
        BY <2>1, <1>u
    <2>3. ASSUME NEW c \in Calls, WriteAdd(c), draft[c].doc = d PROVE FALSE
        <3>1. IntendsAdd(c, d) /\ d \in created /\ d \in created'
            BY <2>2, <2>3, CreatedMoves, DocsAssumption DEF Unheard, BirthIInv, DraftsAreBorn
        <3>2. PICK b \in Calls : IntendsAdd(b, d)'
            BY <3>1, <1>1 DEF Unborn
        <3>3. IntendsAdd(b, d)
            BY <3>1, <3>2, <1>i
        <3>4. b = c
            BY <3>1, <3>3 DEF BirthIInv, OneAdder
        <3>5. draft'[c].phase # "intended"
            <4>1. PICK new : Written(c, new)
                BY <2>3 DEF WriteAdd
            <4>2. draft'[c] = [draft[c] EXCEPT
                        !.phase = IF draft[c].op = "add" \/ doc[draft[c].doc].here
                                  THEN "written" ELSE "nothing",
                        !.unsynced = draft[c].op # "add" /\ doc[draft[c].doc].adding]
                BY <4>1, <1>q DEF Written, ClientTypeOK
            <4> DEFINE p == IF draft[c].op = "add" \/ doc[draft[c].doc].here
                            THEN "written" ELSE "nothing"
                       u == draft[c].op # "add" /\ doc[draft[c].doc].adding
            <4>3. draft'[c] = [draft[c] EXCEPT !.phase = p, !.unsynced = u] /\ p # "intended"
                BY <4>2
            <4> HIDE DEF p, u
            <4> QED BY <4>3, <1>q DEF ClientTypeOK, Drafts
        <3> QED BY <3>2, <3>4, <3>5 DEF IntendsAdd
    <2>4. ~doc'[d].here
        BY <2>2, <2>3, <1>q, DocFlags DEF Unheard, Target
    <2>5. server'[d].status = "absent"
        BY <2>2, <1>q, ServerMoves DEF Unheard
    <2>6. head'.doc # d
        BY <2>2, <1>q, HeadMoves, DocsAssumption DEF Unheard, NoEntry
    <2>7. ingest'.doc # d
        BY <2>2, <1>q, IngestMoves, DocsAssumption DEF Unheard
    <2>8. \A f \in outbox' : f.doc # d
        BY <2>2, <1>q, EntriesStep DEF Unheard
    <2>9. ASSUME NEW c \in Calls PROVE call'[c].doc # d
        <3>1. CASE call'[c] = call[c]
            BY <2>2, <3>1 DEF Unheard
        <3>2. CASE CallStep(c)
            BY <2>2, <3>2, <1>q, CallsKeepInputs DEF Unheard
        <3>3. CASE Send(c) /\ call'[c].doc = draft[c].doc
            BY <2>2, <3>3 DEF Unheard, IntendsAdd, Send
        <3>4. ASSUME NEW i \in recovery.todo, StillWaits(i), call'[c].doc = i.doc
              PROVE  call'[c].doc # d
            BY <2>2, <3>4 DEF Unheard, StillWaits
        <3>5. CASE call'[c].doc = "none"
            BY <3>5, DocsAssumption
        <3> QED BY <3>1, <3>2, <3>3, <3>4, <3>5, <1>q, CallOrigins
    <2>10. ASSUME NEW c \in Calls, draft'[c].doc = d PROVE IntendsAdd(c, d)'
        <3>1. CASE draft'[c] = draft[c]
            BY <2>2, <2>10, <3>1 DEF Unheard, IntendsAdd
        <3>2. ASSUME NEW op \in Ops, Intend(c, op, d), draft'[c].op = op,
                     draft'[c].phase = "intended"
              PROVE  IntendsAdd(c, d)'
            BY <2>2, <2>10, <3>2 DEF Unheard, Intend, IntendsAdd
        <3>3. ASSUME draft[c].doc = d,
                     \/ WriteAdd(c) \/ WriteUpdate(c) \/ WriteDelete(c)
                     \/ ReadForDelete(c) \/ Send(c)
              PROVE  FALSE
            <4>1. IntendsAdd(c, d)
                BY <2>2, <3>3 DEF Unheard
            <4> QED BY <2>3, <3>3, <4>1 DEF IntendsAdd, WriteUpdate, WriteDelete, ReadForDelete, Send
        <3> QED BY <2>10, <3>1, <3>2, <3>3, <1>q, DraftMoves, DocsAssumption
    <2> QED BY <2>4, <2>5, <2>6, <2>7, <2>8, <2>9, <2>10 DEF Unheard
<1>2. ASSUME NEW b \in Calls, NEW c \in Calls, NEW d \in Docs,
             IntendsAdd(b, d)', IntendsAdd(c, d)'
      PROVE  b = c
    <2>1. \A a \in Calls : d \notin created => ~IntendsAdd(a, d)
        BY DocsAssumption DEF BirthIInv, DraftsAreBorn, IntendsAdd
    <2>2. Intend(b, "add", d) /\ Intend(c, "add", d) => b = c
        <3>1. ASSUME Intend(b, "add", d), Intend(c, "add", d), b # c PROVE FALSE
            <4>1. draft'[c] = draft[c] /\ draft[c].phase = "idle"
                BY <3>1, <1>q DEF Intend, ClientTypeOK
            <4> QED BY <4>1, <1>2 DEF IntendsAdd
        <3> QED BY <3>1
    <2> QED BY <1>2, <1>i, <2>1, <2>2 DEF BirthIInv, OneAdder
<1>3. ASSUME NEW c \in Calls PROVE draft'[c].doc \in created' \cup {"none"}
    BY <1>q, DraftMoves, CreatedMoves DEF BirthIInv, DraftsAreBorn
<1> QED BY <1>1, <1>2, <1>3 DEF BirthIInv, UnbornIsUnheard, OneAdder, DraftsAreBorn

-----------------------------------------------------------------------------
(* Marks, intents, mutations and calls agree *)

\* After a crash no mutation is on its way.
LEMMA CrashedDrafts ==
    ASSUME ClientCrash, NEW c \in Calls
    PROVE  /\ draft'[c].phase \in {"idle", "lost"}
           /\ draft[c].phase # "idle" => draft'[c].phase = "lost"
           /\ draft'[c].op = "none" /\ draft'[c].doc = "none"
<1>1. draft'[c] = IF draft[c].phase = "idle" THEN NoDraft ELSE [NoDraft EXCEPT !.phase = "lost"]
    BY DEF ClientCrash
<1> QED BY <1>1 DEF NoDraft

\* #recover goes its way once, and starts again after a crash.
LEMMA RecoveryMoves ==
    ASSUME [ClientNext]_allVars
    PROVE  \/ UNCHANGED recovery
           \/ Recovering /\ recovery.phase # "done"
           \/ ClientCrash /\ recovery'.phase = "query" /\ recovery'.queued = {}
<1>1. CASE Recovering
    BY <1>1 DEF Recovering, RecoverQuery, RecoverPending, RecoverNext, RecoverDrop, Recovered
<1>2. CASE ClientCrash
    BY <1>2 DEF ClientCrash, NoRecovery
<1>3. CASE QueueStep \/ UNCHANGED allVars
    BY <1>3 DEF QueueStep, clientVars, allVars
<1> QED BY <1>1, <1>2, <1>3, MutationsKeep, ExecutionKeeps, RemoteKeeps DEF ClientNext

\* An intent is stored by its mutation, and removed by it or by #recover.
LEMMA IntentMoves ==
    ASSUME [ClientNext]_allVars
    PROVE  /\ \A i \in intents' :
                 \/ i \in intents
                 \/ \E c \in Calls, op \in Ops, d \in Docs :
                       Intend(c, op, d) /\ i = [id |-> c, op |-> op, doc |-> d]
           /\ \A i \in intents :
                 \/ i \in intents'
                 \/ \E c \in Calls : DropIntent(c) /\ i.id = c
                 \/ RecoverNext /\ (~StillWaits(i) \/ Covered(i))
                 \/ RecoverDrop /\ i = recovery.at
<1>1. CASE Mutations
    BY <1>1 DEF Mutations, Intend, WriteAdd, WriteUpdate, ReadForDelete, WriteDelete, Written,
                Send, DropIntent
<1>2. CASE Recovering
    BY <1>2 DEF Recovering, RecoverQuery, RecoverPending, RecoverNext, RecoverDrop, Recovered
<1>3. CASE ClientCrash
    BY <1>3 DEF ClientCrash
<1>4. CASE QueueStep \/ UNCHANGED allVars
    BY <1>4 DEF QueueStep, clientVars, allVars
<1> QED BY <1>1, <1>2, <1>3, <1>4, ExecutionKeeps, RemoteKeeps DEF ClientNext

\* What WriteAdd stores.
LEMMA AddWrites ==
    ASSUME ClientTypeOK, DraftInputs, NEW c \in Calls, WriteAdd(c)
    PROVE  LET d == draft[c].doc
           IN  /\ d \in Docs /\ IntendsAdd(c, d)
               /\ doc'[d].here /\ doc'[d].adding /\ ~doc'[d].deleting /\ doc'[d].errors = {}
               /\ \A e \in Docs \ {d} : doc'[e] = doc[e]
<1> DEFINE d == draft[c].doc
<1>1. d \in Docs /\ IntendsAdd(c, d) /\ doc \in [Docs -> LocalDocs]
    BY DEF ClientTypeOK, DraftInputs, WriteAdd, IntendsAdd
<1>2. doc' = [doc EXCEPT ![d] = [Stored(c, 0) EXCEPT !.adding = TRUE]]
    BY DEF WriteAdd, Written
<1>3. LET r == [Stored(c, 0) EXCEPT !.adding = TRUE]
      IN  r.here /\ r.adding /\ ~r.deleting /\ r.errors = {}
    BY DEF Stored, NoDoc
<1> HIDE DEF d
<1>4. doc'[d] = [Stored(c, 0) EXCEPT !.adding = TRUE] /\ \A e \in Docs \ {d} : doc'[e] = doc[e]
    BY <1>1, <1>2
<1> QED BY <1>1, <1>3, <1>4 DEF d

\* Every step keeps intents, mutations and calls in agreement.
LEMMA MarksPreserved ==
    ASSUME ClientIInv, QueueFacts, BirthIInv, MarksIInv, [ClientNext]_allVars
    PROVE  MarksIInv'
<1>q. TypeOK /\ ClientTypeOK /\ [Next]_vars /\ DraftInputs /\ WorkInputs /\ IngestInputs
      /\ CallsShaped /\ GoneIsClean /\ RecoveredFirst /\ IntentsMatch /\ CallsMatch
    BY StepRefines DEF ClientIInv, QueueFacts, IInv, SentIInv, MarksIInv
<1>1. ASSUME NEW d \in Docs PROVE Clean(doc'[d])
    <2>1. ASSUME NEW c \in Calls, WriteAdd(c), draft[c].doc = d PROVE Clean(doc'[d])
        BY <2>1, <1>q, AddWrites DEF Clean
    <2> QED BY <2>1, <1>q, DocFlags
<1>2. ASSUME ~Early, NEW c \in Calls, draft'[c].phase \notin {"idle", "lost"}
      PROVE  recovery'.phase = "done"
    <2>1. ~ClientCrash
        BY <1>2, CrashedDrafts
    <2>2. recovery.phase = "done"
        <3>1. CASE draft[c].phase \notin {"idle", "lost"}
            BY <1>2, <1>q, <3>1 DEF RecoveredFirst
        <3>2. ASSUME NEW op \in Ops, NEW d \in Docs, Intend(c, op, d)
              PROVE  recovery.phase = "done"
            BY <1>2, <3>2 DEF Intend
        <3>3. CASE draft'[c] = draft[c]
            BY <1>2, <3>1, <3>3
        <3>4. CASE ReadForDelete(c) \/ Send(c)
            BY <3>1, <3>4 DEF ReadForDelete, Send
        <3> QED BY <2>1, <3>1, <3>2, <3>3, <3>4, <1>q, DraftMoves
    <2> QED BY <2>1, <2>2, RecoveryMoves
<1>3. ASSUME NEW i \in intents'
      PROVE  /\ draft'[i.id].phase # "idle"
             /\ draft'[i.id].phase # "lost" => draft'[i.id].op = i.op /\ draft'[i.id].doc = i.doc
    <2>1. ASSUME NEW c \in Calls, NEW op \in Ops, NEW d \in Docs,
                 Intend(c, op, d), i = [id |-> c, op |-> op, doc |-> d]
          PROVE  draft'[c].phase = "intended" /\ draft'[c].op = op /\ draft'[c].doc = d
        <3>1. draft'[c] = [NoDraft EXCEPT !.phase = "intended", !.op = op, !.doc = d]
            BY <2>1, <1>q DEF Intend, ClientTypeOK
        <3> QED BY <3>1 DEF NoDraft
    <2>2. ASSUME i \in intents
          PROVE  /\ draft'[i.id].phase # "idle"
                 /\ draft'[i.id].phase # "lost" =>
                        draft'[i.id].op = i.op /\ draft'[i.id].doc = i.doc
        <3>1. i.id \in Calls
            BY <2>2, <1>q DEF ClientTypeOK, Intents
        <3>2. /\ draft[i.id].phase # "idle"
              /\ draft[i.id].phase # "lost" => draft[i.id].op = i.op /\ draft[i.id].doc = i.doc
            BY <2>2, <1>q DEF IntentsMatch
        <3>3. \A op \in Ops, d \in Docs : ~Intend(i.id, op, d)
            BY <3>2 DEF Intend
        <3>4. draft[i.id].phase = "lost" =>
                  ~ReadForDelete(i.id) /\ ~Send(i.id) /\ ~WriteAdd(i.id) /\ ~WriteUpdate(i.id)
                  /\ ~WriteDelete(i.id)
            BY DEF ReadForDelete, Send, WriteAdd, WriteUpdate, WriteDelete
        <3> QED BY <3>1, <3>2, <3>3, <3>4, <1>q, DraftMoves, CrashedDrafts
    <2> QED BY <2>1, <2>2, IntentMoves
<1>4. ASSUME NEW c \in Calls, ~Early, draft'[c].phase = "intended", draft'[c].op = "add"
      PROVE  \E i \in intents' : i.op = "add" /\ i.doc = draft'[c].doc
    <2>1. CASE draft'[c] = draft[c]
        <3>1. PICK i \in intents : i.op = "add" /\ i.doc = draft[c].doc
            BY <1>4, <2>1, <1>q DEF IntentsMatch
        <3>2. recovery.phase = "done"
            BY <1>4, <2>1, <1>q DEF RecoveredFirst
        <3>3. ASSUME NEW b \in Calls, DropIntent(b), i.id = b PROVE FALSE
            <4>1. draft[b].doc = draft[c].doc /\ draft[b].phase \in {"sent", "nothing"}
                BY <3>1, <3>3, <1>q DEF IntentsMatch, DropIntent
            <4>2. draft[c].doc \in Docs /\ IntendsAdd(c, draft[c].doc)
                BY <1>4, <2>1, <1>q DEF DraftInputs, IntendsAdd
            <4>3. IntendsAdd(b, draft[c].doc)
                BY <4>1, <4>2 DEF BirthIInv, UnbornIsUnheard, Unborn, Unheard
            <4> QED BY <4>1, <4>3 DEF IntendsAdd
        <3>4. i \in intents'
            BY <3>1, <3>2, <3>3, IntentMoves DEF RecoverNext, RecoverDrop
        <3> QED BY <2>1, <3>1, <3>4
    <2>2. ASSUME NEW op \in Ops, NEW d \in Docs, Intend(c, op, d),
                 draft'[c].op = op, draft'[c].doc = d
          PROVE  \E i \in intents' : i.op = "add" /\ i.doc = draft'[c].doc
        <3>1. [id |-> c, op |-> op, doc |-> d] \in intents'
            BY <2>2 DEF Intend
        <3> QED BY <3>1, <2>2, <1>4
    <2> QED BY <2>1, <2>2, <1>4, <1>q, DraftMoves, CrashedDrafts
<1>5. ASSUME NEW c \in Calls, draft'[c].op = "add" PROVE draft'[c].phase # "nothing"
    BY <1>5, <1>q, DraftMoves, CrashedDrafts DEF IntentsMatch
<1>c. ASSUME NEW c \in Calls, call[c].phase \notin {"new", "lost"}, ~ClientCrash
      PROVE  /\ call'[c].phase \notin {"new", "lost"}
             /\ call'[c].op = call[c].op /\ call'[c].doc = call[c].doc
    <2>1. CASE CallStep(c)
        BY <2>1, <1>q, CallMoves, CallsKeepInputs
    <2> QED BY <2>1, <1>c, <1>q, CallOrigins
<1>6. ASSUME NEW c \in Calls, draft'[c].phase = "sent"
      PROVE  /\ call'[c].phase \notin {"new", "lost"}
             /\ call'[c].op = draft'[c].op /\ call'[c].doc = draft'[c].doc
    <2>1. CASE draft'[c] = draft[c]
        BY <1>6, <2>1, <1>c, <1>q, CrashedDrafts DEF CallsMatch
    <2>2. CASE Send(c) /\ draft'[c].op = draft[c].op /\ draft'[c].doc = draft[c].doc
        <3> DEFINE r == [NoCall EXCEPT !.phase = "queued", !.op = draft[c].op,
                                       !.doc = draft[c].doc, !.unsynced = draft[c].unsynced]
        <3>1. call'[c] = r
            BY <2>2, <1>q DEF Send, Enqueue, TypeOK
        <3>2. r.phase = "queued" /\ r.op = draft[c].op /\ r.doc = draft[c].doc
            BY QueuedCall
        <3> HIDE DEF r
        <3> QED BY <2>2, <3>1, <3>2
    <2> QED BY <1>6, <2>1, <2>2, <1>q, DraftMoves
<1>7. ASSUME recovery'.phase = "drop"
      PROVE  LET c == recovery'.caller
             IN  /\ c \in Calls /\ call'[c].phase \notin {"new", "lost"}
                 /\ call'[c].op = recovery'.at.op /\ call'[c].doc = recovery'.at.doc
    <2>1. CASE UNCHANGED recovery /\ ~ClientCrash
        BY <1>7, <2>1, <1>c, <1>q DEF CallsMatch
    <2>2. ASSUME Recovering, recovery' # recovery
          PROVE  LET c == recovery'.caller
                 IN  /\ c \in Calls /\ call'[c].phase \notin {"new", "lost"}
                     /\ call'[c].op = recovery'.at.op /\ call'[c].doc = recovery'.at.doc
        <3>t. recovery \in Recoverings
            BY <1>q DEF ClientTypeOK
        <3>1. ~RecoverQuery
            <4>1. RecoverQuery => recovery' = [recovery EXCEPT
                      !.phase = IF intents = {} THEN "start" ELSE "pending", !.todo = intents]
                BY DEF RecoverQuery
            <4> DEFINE p == IF intents = {} THEN "start" ELSE "pending"
            <4>2. p # "drop"
                OBVIOUS
            <4>3. RecoverQuery => recovery' = [recovery EXCEPT !.phase = p, !.todo = intents]
                BY <4>1
            <4> HIDE DEF p
            <4> QED BY <1>7, <3>t, <4>2, <4>3 DEF Recoverings
        <3>2. ~RecoverPending /\ ~RecoverDrop
            BY <1>7, <3>t DEF RecoverPending, RecoverDrop, Recoverings
        <3>3. ~Recovered
            BY <1>7 DEF Recovered, NoRecovery
        <3>4. RecoverNext
            BY <2>2, <3>1, <3>2, <3>3 DEF Recovering
        <3>5. PICK i \in recovery.todo, c \in Calls :
                  /\ Enqueue(c, i.op, i.doc, i.op # "add" /\ doc[i.doc].adding)
                  /\ recovery' = [recovery EXCEPT !.phase = "drop", !.at = i, !.caller = c]
            BY <1>7, <3>4, <3>t, RecoveriesAssumption DEF RecoverNext, Recoverings
        <3>6. recovery'.at = i /\ recovery'.caller = c
            BY <3>5, <3>t DEF Recoverings
        <3> DEFINE u == i.op # "add" /\ doc[i.doc].adding
                   r == [NoCall EXCEPT !.phase = "queued", !.op = i.op, !.doc = i.doc,
                                       !.unsynced = u]
        <3>7. call'[c] = r
            BY <3>5, <1>q DEF Enqueue, TypeOK
        <3>8. r.phase = "queued" /\ r.op = i.op /\ r.doc = i.doc
            BY QueuedCall
        <3> HIDE DEF r
        <3> QED BY <3>6, <3>7, <3>8
    <2> QED BY <1>7, <2>1, <2>2, RecoveryMoves DEF ClientCrash, NoRecovery
<1>8. GoneIsClean'
    BY <1>1 DEF GoneIsClean
<1>9. RecoveredFirst'
    BY <1>2 DEF RecoveredFirst
<1>10. IntentsMatch'
    BY <1>3, <1>4, <1>5 DEF IntentsMatch
<1>11. CallsMatch'
    BY <1>6, <1>7 DEF CallsMatch
<1> QED BY <1>8, <1>9, <1>10, <1>11 DEF MarksIInv

-----------------------------------------------------------------------------
(* What an execution leaves behind *)

\* Where each step of #execute goes.
LEMMA WorkFields ==
    ASSUME ClientTypeOK
    PROVE  /\ ExecRead =>
                  \/ /\ work'.phase = "over"
                     /\ head.op = "add" => ~doc[Target].here
                     /\ work'.kind = "none" /\ work'.write.do # "put"
                  \/ /\ work'.phase = "request" /\ work'.write = work.write
                     /\ \/ head.op = "add" /\ work'.kind = "post"
                        \/ head.op = "update" /\ work'.kind = "put"
                        \/ head.op = "delete" /\ work'.kind = "del"
           /\ AddAsUpdate => /\ work'.phase = "request" /\ work'.kind = "put"
                             /\ work'.write = work.write
           /\ Conflicts => /\ work'.phase = "pulling" /\ work'.kind = work.kind
                           /\ work'.write = work.write
           /\ PullAnswered => /\ work'.phase = "pulled" /\ work'.kind = work.kind
                              /\ work'.write = work.write
           /\ PullRead => /\ work'.phase = "rebasing" /\ work'.kind = work.kind
                          /\ work'.write.do # "put"
           /\ PullWrite => /\ work'.phase = "again" /\ work'.kind = work.kind
                           /\ work'.write.do # "put"
           /\ ExecFails \/ ConfirmWrite \/ ConfirmDelete =>
                  work'.phase = "over" /\ work'.kind = "none" /\ work'.write.do # "put"
           /\ ConfirmRead => /\ work'.phase = "confirming" /\ work'.kind = work.kind
                             /\ work'.answer = work.answer /\ work'.write = work.write
           /\ ExecReturns \/ ExecRetries =>
                  work'.phase = "idle" /\ work'.kind = "none" /\ work'.write.do # "put"
           /\ \A lost \in BOOLEAN : ServerHandles(lost) =>
                  /\ work'.phase = "answered" /\ work'.kind = work.kind
                  /\ work'.answer \in {"network", Reply(work.kind, work.base, server[Target])}
                  /\ work'.write = work.write
           /\ \A answer \in {"network", "refused"} : RequestFails(answer) =>
                  /\ work'.phase = "answered" /\ work'.kind = work.kind
                  /\ work'.answer = answer /\ work'.write = work.write
<1> USE DEF ClientTypeOK, WorkStep
<1>o. /\ NoWork.phase = "idle" /\ NoWork.kind = "none" /\ NoWork.write.do # "put"
      /\ \A s : Over(s).phase = "over" /\ Over(s).kind = "none" /\ Over(s).write.do # "put"
    BY DEF NoWork, Over, NoWrite
<1>r. \A kind, base : LET r == Request(kind, base)
                      IN  r.phase = "request" /\ r.kind = kind /\ r.write = work.write
    BY DEF Request, Works
<1>w. NoWrite.do # "put"
      /\ \A s, d : IngestWrite(AsChange(s, "modified"), d).do # "put"
    <2>1. NoWrite.do # "put"
        BY DEF NoWrite
    <2>2. \A change, d : change.kind = "modified" => IngestWrite(change, d).do # "put"
        BY <2>1 DEF IngestWrite
    <2>3. \A s : AsChange(s, "modified").kind = "modified"
        BY DEF AsChange
    <2> QED BY <2>1, <2>2, <2>3
<1>1. ASSUME ExecRead
      PROVE  \/ /\ work'.phase = "over"
                /\ head.op = "add" => ~doc[Target].here
                /\ work'.kind = "none" /\ work'.write.do # "put"
             \/ /\ work'.phase = "request" /\ work'.write = work.write
                /\ \/ head.op = "add" /\ work'.kind = "post"
                   \/ head.op = "update" /\ work'.kind = "put"
                   \/ head.op = "delete" /\ work'.kind = "del"
    <2>1. \/ head.op = "add" /\ work' = Request("post", 0)
          \/ head.op = "add" /\ ~doc[Target].here /\ work' = Over("done")
          \/ head.op = "update" /\ work' = Request("put", doc[Target].version)
          \/ head.op = "update" /\ work' = Over("done")
          \/ head.op = "delete" /\ work' = Request("del", 0)
        BY <1>1 DEF ExecRead
    <2> QED BY <2>1, <1>o, <1>r
<1>2. AddAsUpdate => /\ work'.phase = "request" /\ work'.kind = "put"
                     /\ work'.write = work.write
    BY DEF AddAsUpdate, Works
<1>3. Conflicts => /\ work'.phase = "pulling" /\ work'.kind = work.kind
                   /\ work'.write = work.write
    BY DEF Conflicts, Works
<1>4. PullAnswered => /\ work'.phase = "pulled" /\ work'.kind = work.kind
                      /\ work'.write = work.write
    BY DEF PullAnswered, Works
<1>5. ASSUME PullRead
      PROVE  work'.phase = "rebasing" /\ work'.kind = work.kind /\ work'.write.do # "put"
    <2> DEFINE w == IF work.pulled.status = "live"
                    THEN IngestWrite(AsChange(work.pulled, "modified"), doc[Target]) ELSE NoWrite
    <2>1. work' = [work EXCEPT !.phase = "rebasing", !.write = w]
        BY <1>5 DEF PullRead
    <2>2. w.do # "put"
        BY <1>w
    <2> HIDE DEF w
    <2> QED BY <2>1, <2>2 DEF Works
<1>6. ASSUME PullWrite
      PROVE  work'.phase = "again" /\ work'.kind = work.kind /\ work'.write.do # "put"
    <2>1. work' = [work EXCEPT !.phase = "again", !.pulled = Missing, !.write = NoWrite]
        BY <1>6 DEF PullWrite
    <2> QED BY <2>1, <1>w DEF Works
<1>7. ExecFails \/ ConfirmWrite \/ ConfirmDelete => \E s : work' = Over(s)
    BY DEF ExecFails, ConfirmWrite, ConfirmDelete
<1>8. ASSUME ConfirmRead
      PROVE  /\ work'.phase = "confirming" /\ work'.kind = work.kind
             /\ work'.answer = work.answer /\ work'.write = work.write
    <2> DEFINE edited == doc[Target].prev /\ doc[Target].val # work.sent
               sent == IF edited THEN doc[Target].val ELSE work.sent
    <2>1. work' = [work EXCEPT !.phase = "confirming", !.unsent = edited, !.sent = sent]
        BY <1>8 DEF ConfirmRead
    <2> HIDE DEF edited, sent
    <2> QED BY <2>1 DEF Works
<1>9. ExecReturns \/ ExecRetries => work' = NoWork
    BY DEF ExecReturns, ExecRetries
<1>10. ASSUME NEW lost \in BOOLEAN, ServerHandles(lost)
       PROVE  /\ work'.phase = "answered" /\ work'.kind = work.kind
              /\ work'.answer \in {"network", Reply(work.kind, work.base, server[Target])}
              /\ work'.write = work.write
    <2> DEFINE reply == Reply(work.kind, work.base, server[Target])
    <2>1. \/ work' = [work EXCEPT !.phase = "answered", !.answer = "network"]
          \/ \E v : work' = [work EXCEPT !.phase = "answered", !.answer = reply, !.version = v]
        BY <1>10 DEF ServerHandles
    <2> HIDE DEF reply
    <2>2. /\ work'.phase = "answered" /\ work'.kind = work.kind
          /\ work'.answer \in {"network", reply} /\ work'.write = work.write
        BY <2>1 DEF Works
    <2> QED BY <2>2 DEF reply
<1>11. ASSUME NEW answer \in {"network", "refused"}, RequestFails(answer)
       PROVE  /\ work'.phase = "answered" /\ work'.kind = work.kind
              /\ work'.answer = answer /\ work'.write = work.write
    BY <1>11 DEF RequestFails, Works
<1> QED BY <1>1, <1>2, <1>3, <1>4, <1>5, <1>6, <1>7, <1>8, <1>9, <1>10, <1>11, <1>o

\* An execution goes on while the loop waits for it.
LEMMA WorkMoves ==
    ASSUME [ClientNext]_allVars
    PROVE  \/ UNCHANGED work /\ (Executing => Executing')
              /\ \A s \in {"done", "failed"} : ~ExecuteEnds(s)
           \/ Execution /\ Executing /\ UNCHANGED vars
           \/ /\ ExecReturns \/ ExecRetries
              /\ work' = NoWork /\ Executing /\ ~Executing' /\ UNCHANGED doc
           \/ ClientCrash /\ work' = NoWork
<1> USE DEF Executing
<1>1. ASSUME NEW c \in Calls, NEW op, NEW d, NEW u, Enqueue(c, op, d, u)
      PROVE  UNCHANGED loop
    BY <1>1 DEF Enqueue
<1>2. CASE Mutations
    <2>1. UNCHANGED work /\ UNCHANGED loop
        BY <1>1, <1>2, MutationsKeep, QueueHears DEF Send, vars, loopVars
    <2> QED BY <2>1 DEF ExecuteEnds
<1>3. CASE Recovering
    <2>1. UNCHANGED work
        BY <1>3, RecoveringKeeps
    <2>2. CASE RecoverNext
        BY <1>1, <2>1, <2>2, RecoveriesAssumption DEF RecoverNext, vars, loopVars, ExecuteEnds
    <2>3. CASE Recovered
        BY <2>1, <2>3 DEF Recovered, Start, Running, ExecuteEnds
    <2> QED BY <1>3, <2>1, <2>2, <2>3, QueueHears DEF vars, loopVars, ExecuteEnds
<1>4. CASE Execution
    <2>1. CASE ExecReturns \/ ExecRetries
        BY <2>1 DEF ExecReturns, ExecRetries, ExecuteEnds, ExecuteRetries
    <2> QED BY <1>4, <2>1 DEF Execution, WorkStep, ExecRead, AddAsUpdate, Conflicts, PullAnswered,
           PullRead, PullWrite, ExecFails, ConfirmRead, ConfirmWrite, ConfirmDelete,
           ServerHandles, RequestFails
<1>5. CASE Remote \/ UNCHANGED allVars
    BY <1>5, RemoteKeeps DEF clientVars, allVars, vars, loopVars, ExecuteEnds
<1>6. CASE QueueStep
    <2>1. UNCHANGED work
        BY <1>6 DEF QueueStep, clientVars
    <2>2. ASSUME NEW s, ExecuteEnds(s) PROVE FALSE
        <3>1. loop = "executing" /\ loop' = "confirming"
            BY <2>2 DEF ExecuteEnds
        <3>2. ~LoopStep
            BY <3>1 DEF LoopStep, LockGranted, LockBusy, GiveUp, LoopRead, LoopIdle, LoopExecute,
                        ConfirmHead, PersistRetry, RetryReported, LoopEnd
        <3>3. ~Trigger
            BY <3>1 DEF Trigger, Running
        <3> QED BY <1>6, <3>1, <3>2, <3>3 DEF QueueStep, CallStep, StartJob, Decide, Drop, EndDrops,
                   AddEntry, EndJob, Resume, Reported, TimerFires, Wake
    <2>3. Trigger /\ loop = "executing" => loop' = "executing"
        BY DEF Trigger, Running
    <2>4. loop = "executing" => loop' = "executing"
        <3>1. ASSUME loop = "executing" PROVE ~LoopStep
            BY <3>1 DEF LoopStep, LockGranted, LockBusy, GiveUp, LoopRead, LoopIdle, LoopExecute,
                        ConfirmHead, PersistRetry, RetryReported, LoopEnd
        <3>2. ASSUME NEW c \in Calls, CallStep(c), loop = "executing" PROVE loop' = "executing"
            BY <2>3, <3>2 DEF CallStep, StartJob, Decide, Drop, EndDrops, AddEntry, EndJob, Resume,
                              Reported
        <3> QED BY <1>6, <2>3, <3>1, <3>2 DEF QueueStep, TimerFires, Wake
    <2> QED BY <2>1, <2>2, <2>4
<1>7. CASE ClientCrash
    BY <1>7 DEF ClientCrash
<1> QED BY <1>2, <1>3, <1>4, <1>5, <1>6, <1>7 DEF ClientNext

\* Nobody but its add marks a document, and nobody speaks of it before.
LEMMA AddingMoves ==
    ASSUME ClientTypeOK, DraftInputs, WorkInputs, IngestInputs, GoneIsClean, BirthIInv,
           [ClientNext]_allVars, NEW d \in Docs, doc'[d].adding
    PROVE  \/ doc[d].adding /\ ~\E c \in Calls : WriteAdd(c) /\ draft[c].doc = d
           \/ \E c \in Calls : WriteAdd(c) /\ draft[c].doc = d /\ Unheard(d)
<1>1. ASSUME NEW c \in Calls, WriteAdd(c), draft[c].doc = d PROVE Unheard(d)
    BY <1>1, AddWrites DEF BirthIInv, UnbornIsUnheard, Unborn
<1> QED BY <1>1, DocFlags

\* Deletes of a document, and executions of an add, leave no mark of an add.
LEMMA SentAddPreserved ==
    ASSUME ClientIInv, QueueFacts, BirthIInv, MarksIInv, SentAddIInv, [ClientNext]_allVars
    PROVE  SentAddIInv'
<1>q. TypeOK /\ ClientTypeOK /\ [Next]_vars /\ DraftInputs /\ WorkInputs /\ IngestInputs
      /\ CallsShaped /\ GoneIsClean /\ DeletesAreHeard /\ EndedAdd /\ CallInputs /\ CallInputs'
    BY StepRefines, ClientNextInvariant DEF ClientIInv, QueueFacts, IInv, SentIInv, MarksIInv,
                                            SentAddIInv
<1>a. ASSUME NEW d \in Docs, doc'[d].adding
      PROVE  \/ doc[d].adding /\ ~\E c \in Calls : WriteAdd(c) /\ draft[c].doc = d
             \/ \E c \in Calls : WriteAdd(c) /\ draft[c].doc = d /\ Unheard(d)
    BY <1>a, <1>q, AddingMoves
<1>1. ASSUME NEW d \in Docs, doc'[d].deleting, doc'[d].adding PROVE FALSE
    <2>1. CASE \E c \in Calls : WriteAdd(c) /\ draft[c].doc = d
        BY <1>1, <2>1, <1>q, AddWrites
    <2>2. CASE ~\E c \in Calls : WriteAdd(c) /\ draft[c].doc = d
        <3>1. doc[d].adding
            BY <1>1, <1>a, <2>2
        <3>2. PICK c \in Calls : WriteDelete(c) /\ draft[c].doc = d /\ ~draft[c].adding
            BY <1>1, <2>2, <3>1, <1>q, DocFlags DEF DeletesAreHeard
        <3>3. draft[c].phase = "got" /\ draft[c].op = "delete"
            BY <3>2, <1>q DEF WriteDelete, DeletesAreHeard
        <3> QED BY <3>1, <3>2, <3>3, <1>q DEF DeletesAreHeard
    <2> QED BY <2>1, <2>2
<1>2. ASSUME NEW c \in Calls, call'[c].op = "delete", doc'[call'[c].doc].adding PROVE FALSE
    <2> DEFINE d == call'[c].doc
    <2>1. ASSUME call[c].op = "delete", call[c].doc = d, d \in Docs PROVE FALSE
        BY <1>2, <2>1, <1>a, <1>q DEF Unheard, DeletesAreHeard
    <2>2. CASE call'[c] = call[c]
        <3>1. d \in Docs
            <4>1. call[c].phase \notin {"new", "lost"}
                BY <1>2, <2>2, <1>q DEF CallsShaped, CallShaped
            <4> QED BY <4>1, <2>2, <1>q DEF CallInputs
        <3> QED BY <1>2, <2>1, <2>2, <3>1
    <2>3. CASE CallStep(c)
        <3>1. call[c].op = "delete" /\ call[c].doc = d
            BY <1>2, <2>3, <1>q, CallsKeepInputs
        <3>2. d \in Docs
            <4>1. call'[c].phase \notin {"new", "lost"}
                BY <2>3, <1>q, CallMoves
            <4> QED BY <4>1, <1>q DEF CallInputs
        <3> QED BY <2>1, <3>1, <3>2
    <2>4. ASSUME Send(c), call'[c].op = draft[c].op, d = draft[c].doc PROVE FALSE
        <3>1. doc' = doc /\ draft[c].phase = "written"
            BY <2>4 DEF Send
        <3> QED BY <1>2, <2>4, <3>1, <1>q DEF DeletesAreHeard
    <2>5. ASSUME RecoverNext, NEW i \in recovery.todo, StillWaits(i),
                 call'[c].op = i.op, d = i.doc
          PROVE  FALSE
        <3>1. doc' = doc /\ doc[i.doc].deleting /\ i.doc \in Docs
            <4>1. i \in Intents
                BY <1>q DEF ClientTypeOK, Recoverings
            <4> QED BY <1>2, <2>5, <4>1 DEF RecoverNext, StillWaits, Intents
        <3> QED BY <1>2, <2>5, <3>1, <1>q DEF DeletesAreHeard
    <2> QED BY <1>2, <2>2, <2>3, <2>4, <2>5, <1>q, CallOrigins
<1>3. ASSUME NEW c \in Calls, draft'[c].op = "delete",
             \/ draft'[c].phase \in {"written", "sent", "nothing"}
             \/ draft'[c].phase = "got" /\ ~draft'[c].adding,
             doc'[draft'[c].doc].adding
      PROVE  FALSE
    <2> DEFINE d == draft'[c].doc
    <2>1. ASSUME draft[c].op = "delete", draft[c].doc = d,
                 draft[c].phase \notin {"idle", "lost", "intended"}
          PROVE  doc[d].adding /\ d \in Docs
        <3>1. d \in Docs
            BY <2>1, <1>q DEF DraftInputs
        <3>2. ~Unheard(d)
            BY <2>1 DEF Unheard, IntendsAdd
        <3> QED BY <1>3, <3>1, <3>2, <1>a
    <2>2. CASE draft'[c] = draft[c]
        BY <1>3, <2>1, <2>2, <1>q DEF DeletesAreHeard
    <2>3. CASE WriteDelete(c) /\ draft[c].op = "delete" /\ draft[c].doc = d
        <3>1. draft[c].phase = "got"
            BY <2>3 DEF WriteDelete
        <3>2. doc[d].adding /\ d \in Docs
            BY <2>1, <2>3, <3>1
        <3>3. draft[c].adding
            BY <2>3, <3>1, <3>2, <1>q DEF DeletesAreHeard
        <3>4. doc'[d] = NoDoc
            BY <2>3, <3>2, <3>3, <1>q DEF WriteDelete, Written, ClientTypeOK
        <3> QED BY <1>3, <3>4 DEF NoDoc
    <2>4. CASE (WriteAdd(c) \/ WriteUpdate(c)) /\ draft[c].op = "delete"
        BY <2>4 DEF WriteAdd, WriteUpdate
    <2>5. CASE ReadForDelete(c) /\ draft'[c].adding = doc[draft[c].doc].adding
               /\ draft[c].doc = d /\ draft'[c].phase = "got"
        BY <1>3, <2>5 DEF ReadForDelete
    <2>6. CASE Send(c) /\ draft[c].op = "delete" /\ draft[c].doc = d
        BY <2>1, <2>6, <1>q DEF Send, DeletesAreHeard
    <2> QED BY <1>3, <2>2, <2>3, <2>4, <2>5, <2>6, <1>q, DraftMoves
<1>4. ASSUME NEW c \in Calls, draft'[c].phase = "got" PROVE draft'[c].op = "delete"
    <2>1. draft'[c] = draft[c] => draft'[c].op = "delete"
        BY <1>4, <1>q DEF DeletesAreHeard
    <2>2. ReadForDelete(c) => draft[c].op = "delete"
        BY DEF ReadForDelete
    <2> QED BY <1>4, <2>1, <2>2, <1>q, DraftMoves
<1>5. ASSUME work'.phase # "idle" PROVE Executing'
    BY <1>5, <1>q, WorkMoves DEF EndedAdd, NoWork, Executing, vars, loopVars
<1>6. ASSUME head'.op = "add", work'.phase = "over" \/ loop' = "confirming",
             doc'[head'.doc].adding
      PROVE  FALSE
    <2> DEFINE d == head'.doc
    <2>1. head' = head
        <3>1. work'.phase = "over" => loop' = "executing"
            BY <1>5 DEF Executing
        <3> QED BY <1>6, <3>1, <1>q, LoopSteps
    <2>2. d \in Docs
        BY <1>6, <2>1, <1>q DEF TypeOK, Entry, NoEntry
    <2>3. doc[d].adding
        BY <1>6, <2>1, <2>2, <1>a DEF Unheard
    <2>4. ASSUME UNCHANGED work, \A s \in {"done", "failed"} : ~ExecuteEnds(s) PROVE FALSE
        <3>1. loop' = "confirming" => loop = "confirming"
            BY <2>4, <1>q, LoopSteps
        <3> QED BY <1>6, <2>1, <2>3, <2>4, <3>1, <1>q DEF EndedAdd
    <2>5. ASSUME Execution, Executing, UNCHANGED vars PROVE FALSE
        <3>1. work'.phase = "over"
            BY <1>6, <2>5 DEF Executing, vars, loopVars
        <3>2. ~ExecRead
            BY <1>6, <2>1, <2>2, <2>3, <3>1, <1>q, WorkFields DEF GoneIsClean, Clean, Target
        <3>3. ~ExecFails /\ ~ConfirmWrite
            BY <1>6, <2>1, <1>q, FailedFlags, ConfirmedFlags DEF Target
        <3>4. ~ConfirmDelete
            BY <1>6, <2>1 DEF ConfirmDelete
        <3> QED BY <2>5, <3>1, <3>2, <3>3, <3>4, <1>q, WorkFields DEF Execution
    <2>6. ASSUME ExecReturns \/ ExecRetries, work' = NoWork PROVE FALSE
        <3>1. loop' = "confirming"
            BY <1>6, <2>6 DEF NoWork
        <3>2. work.phase = "over"
            BY <2>6, <3>1 DEF ExecReturns, ExecRetries, ExecuteRetries
        <3> QED BY <1>6, <2>1, <2>3, <3>2, <1>q DEF EndedAdd
    <2>7. ~ClientCrash
        BY <1>6 DEF ClientCrash, Crash, NoEntry
    <2> QED BY <2>4, <2>5, <2>6, <2>7, WorkMoves
<1>7. DeletesAreHeard'
    BY <1>1, <1>2, <1>3, <1>4 DEF DeletesAreHeard
<1>8. EndedAdd'
    BY <1>5, <1>6 DEF EndedAdd
<1> QED BY <1>7, <1>8 DEF SentAddIInv

\* The entry of an add stays while the document is marked: only its confirmation and
\* a delete that takes it back remove it.
LEMMA AddsStay ==
    ASSUME ClientIInv, QueueFacts, BirthIInv, MarksIInv, SentAddIInv, [ClientNext]_allVars,
           NEW e \in outbox, e.op = "add", doc'[e.doc].adding
    PROVE  \E f \in outbox' : f.id = e.id /\ f.doc = e.doc /\ f.op = "add"
<1>q. TypeOK /\ ClientTypeOK /\ [Next]_vars /\ DraftInputs /\ WorkInputs /\ IngestInputs
      /\ CallsShaped /\ GoneIsClean /\ DeletesAreHeard /\ EndedAdd /\ DropsOwn /\ HeadIsItself
    BY StepRefines DEF ClientIInv, QueueFacts, IInv, SentIInv, EntriesMeant, MarksIInv, SentAddIInv
<1>1. e.doc \in Docs
    BY <1>q DEF TypeOK, Entry
<1>2. doc[e.doc].adding
    BY <1>1, <1>q, AddingMoves DEF Unheard
<1>3. ASSUME NEW c \in Calls, Drop(c), e.id \in call[c].drop PROVE FALSE
    <2>1. call[c].op = "delete" /\ e.doc = call[c].doc
        BY <1>3, <1>q DEF Drop, CallsShaped, CallShaped, DropsOwn
    <2> QED BY <2>1, <1>2, <1>q DEF DeletesAreHeard
<1>4. ASSUME ConfirmHead, e.id = head.id PROVE FALSE
    <2>1. head.op = "add" /\ head.doc = e.doc /\ loop = "confirming"
        BY <1>4, <1>q DEF ConfirmHead, HeadIsItself
    <2> QED BY <2>1, <1>2, <1>q DEF EndedAdd
<1> QED BY <1>3, <1>4, <1>q, EntriesStay, ClientIsAlone

\* The queue that #recover compares with is what it read of it once.
LEMMA RecoveryQueues ==
    ASSUME ClientTypeOK, [ClientNext]_allVars
    PROVE  /\ recovery'.queued \subseteq recovery.queued \cup outbox
           /\ recovery'.phase \notin {"next", "drop"} =>
                 \/ recovery'.queued = {}
                 \/ /\ recovery'.queued = recovery.queued
                    /\ recovery.phase \notin {"next", "drop"}
<1>t. recovery \in Recoverings
    BY DEF ClientTypeOK
<1>1. ASSUME RecoverQuery
      PROVE  recovery'.queued = recovery.queued /\ recovery.phase \notin {"next", "drop"}
    <2> DEFINE p == IF intents = {} THEN "start" ELSE "pending"
    <2>1. recovery' = [recovery EXCEPT !.phase = p, !.todo = intents]
        BY <1>1 DEF RecoverQuery
    <2> HIDE DEF p
    <2>2. recovery'.queued = recovery.queued
        BY <2>1, <1>t DEF Recoverings
    <2> QED BY <1>1, <2>2 DEF RecoverQuery
<1>2. ASSUME RecoverPending PROVE recovery'.queued = outbox /\ recovery'.phase = "next"
    BY <1>2, <1>t DEF RecoverPending, Recoverings
<1>3. ASSUME RecoverNext
      PROVE  recovery'.queued = recovery.queued /\ recovery'.phase \in {"next", "drop"}
    <2>1. \/ \E i, c : recovery' = [recovery EXCEPT !.phase = "drop", !.at = i, !.caller = c]
          \/ \E i : recovery' = [recovery EXCEPT !.todo = @ \ {i}]
        BY <1>3 DEF RecoverNext
    <2>2. recovery.phase = "next"
        BY <1>3 DEF RecoverNext
    <2> QED BY <2>1, <2>2, <1>t DEF Recoverings
<1>4. ASSUME RecoverDrop
      PROVE  recovery'.queued = recovery.queued /\ recovery'.phase = "next"
    BY <1>4, <1>t DEF RecoverDrop, Recoverings
<1>5. ASSUME Recovered PROVE recovery'.queued = {}
    BY <1>5 DEF Recovered, NoRecovery
<1> QED BY <1>1, <1>2, <1>3, <1>4, <1>5, RecoveryMoves DEF Recovering

\* An add that is queued, or that #recover can queue again, stays either.
LEMMA DurablePreserved ==
    ASSUME ClientIInv, QueueFacts, BirthIInv, MarksIInv, SentAddIInv, DurableIInv,
           [ClientNext]_allVars
    PROVE  DurableIInv'
<1>q. TypeOK /\ ClientTypeOK /\ [Next]_vars /\ DraftInputs /\ WorkInputs /\ IngestInputs
      /\ CallsShaped /\ GoneIsClean /\ RecoveredFirst /\ IntentsMatch /\ CallsMatch
      /\ DeletesAreHeard /\ EndedAdd /\ CallInputs' /\ ClientTypeOK'
      /\ AddedIsQueued /\ CoveredIsQueued /\ AddingIsDurable
    BY StepRefines, ClientNextInvariant DEF ClientIInv, QueueFacts, IInv, SentIInv, MarksIInv,
                                            SentAddIInv, DurableIInv
<1>s. ASSUME NEW d \in Docs, AddQueued(d), doc'[d].adding PROVE AddQueued(d)'
    BY <1>s, AddsStay DEF AddQueued
<1>1. ASSUME NEW c \in Calls, NEW d, d = call'[c].doc, call'[c].op = "add",
             call'[c].phase \in {"decided", "recorded", "reporting", "waiting"},
             doc'[d].adding
      PROVE  AddQueued(d)'
    <2>d. d \in Docs
        BY <1>1, <1>q DEF CallInputs
    <2>1. ASSUME call[c].op = "add", call[c].doc = d,
                 call[c].phase \in {"decided", "recorded", "reporting", "waiting"}
          PROVE  AddQueued(d)'
        <3>1. doc[d].adding
            BY <1>1, <2>1, <2>d, <1>q, AddingMoves DEF Unheard
        <3>2. AddQueued(d)
            BY <2>1, <3>1, <1>q DEF AddedIsQueued
        <3> QED BY <1>1, <2>d, <3>2, <1>s
    <2>2. CASE call'[c] = call[c]
        BY <1>1, <2>1, <2>2
    <2>3. CASE CallStep(c)
        <3>1. call[c].op = "add" /\ call[c].doc = d
            BY <1>1, <2>3, <1>q, CallsKeepInputs
        <3>2. CASE AddEntry(c)
            <4> DEFINE f == [id |-> nextId, op |-> call[c].op, doc |-> call[c].doc, attempts |-> 0]
            <4>1. f \in outbox' /\ f.op = "add" /\ f.doc = d
                BY <3>1, <3>2 DEF AddEntry
            <4> HIDE DEF f
            <4> QED BY <4>1 DEF AddQueued
        <3>3. CASE EndJob(c) \/ Resume(c) \/ Reported(c)
            <4>1. call[c].phase \in {"decided", "recorded", "reporting", "waiting"}
                BY <3>3 DEF EndJob, Resume, Reported
            <4> QED BY <2>1, <3>1, <4>1
        <3>4. ASSUME Decide(c) PROVE FALSE
            <4>1. call'[c] = [call[c] EXCEPT !.phase = "adding"]
                BY <3>1, <3>4, <1>q DEF Decide, TypeOK
            <4> QED BY <1>1, <4>1, <1>q DEF TypeOK, CallRecord
        <3>5. ASSUME Drop(c) \/ EndDrops(c) PROVE FALSE
            BY <3>1, <3>5, <1>q DEF Drop, EndDrops, CallsShaped, CallShaped
        <3>6. ASSUME StartJob(c) PROVE FALSE
            <4>1. call'[c] = [call[c] EXCEPT !.phase = "reading", !.seen = inflight]
                BY <3>6, <1>q DEF StartJob, TypeOK
            <4> QED BY <1>1, <4>1, <1>q DEF TypeOK, CallRecord
        <3> QED BY <2>3, <3>2, <3>3, <3>4, <3>5, <3>6 DEF CallStep
    <2> QED BY <1>1, <2>2, <2>3, <1>q, CallOrigins
<1>2. ASSUME ~Early, NEW e \in recovery'.queued, e.op = "add", doc'[e.doc].adding
      PROVE  AddQueued(e.doc)'
    <2>1. e.doc \in Docs
        BY <1>q DEF ClientTypeOK, Recoverings, Entry
    <2>2. ASSUME NEW c \in Calls, WriteAdd(c) PROVE FALSE
        <3>1. recovery.phase = "done" /\ UNCHANGED recovery
            BY <1>2, <2>2, <1>q DEF RecoveredFirst, WriteAdd, Written
        <3> QED BY <1>2, <3>1, <1>q DEF CoveredIsQueued
    <2>3. doc[e.doc].adding
        BY <1>2, <2>1, <2>2, <1>q, AddingMoves
    <2>4. e \in recovery.queued \/ e \in outbox
        BY <1>2, <1>q, RecoveryQueues
    <2>5. AddQueued(e.doc)
        BY <1>2, <2>3, <2>4, <1>q DEF CoveredIsQueued, AddQueued
    <2> QED BY <1>2, <2>1, <2>5, <1>s
<1>3. ASSUME recovery'.phase \notin {"next", "drop"} PROVE recovery'.queued = {}
    BY <1>3, <1>q, RecoveryQueues DEF CoveredIsQueued
<1>4. ASSUME ~Early, NEW d \in Docs, doc'[d].adding
      PROVE  AddQueued(d)' \/ AddIntended(d)'
    <2>1. CASE AddQueued(d)
        BY <1>4, <2>1, <1>s
    <2>2. ASSUME NEW i \in intents, i.doc = d, i.op = "add", i \in intents'
          PROVE  AddIntended(d)'
        BY <2>2 DEF AddIntended
    <2>3. ASSUME NEW c \in Calls, WriteAdd(c), draft[c].doc = d PROVE AddIntended(d)'
        <3>1. UNCHANGED intents
            BY <2>3 DEF WriteAdd, Written
        <3>2. PICK i \in intents : i.op = "add" /\ i.doc = draft[c].doc
            BY <1>4, <2>3, <1>q DEF IntentsMatch, WriteAdd
        <3> QED BY <2>2, <2>3, <3>1, <3>2
    <2>4. ASSUME doc[d].adding, ~AddQueued(d) PROVE AddIntended(d)'
        <3>1. PICK i \in intents : i.doc = d /\ i.op = "add"
            BY <1>4, <2>4, <1>q DEF AddingIsDurable, AddIntended
        <3>2. ASSUME NEW c \in Calls, DropIntent(c), i.id = c PROVE FALSE
            <4>1. draft[c].op = "add" /\ draft[c].doc = d
                BY <3>1, <3>2, <1>q DEF IntentsMatch, DropIntent
            <4>2. draft[c].phase = "sent" /\ call[c].phase \in {"reporting", "waiting"}
                BY <3>2, <4>1, <1>q DEF IntentsMatch, DropIntent
            <4> QED BY <2>4, <4>1, <4>2, <1>q DEF CallsMatch, AddedIsQueued
        <3>3. ASSUME RecoverNext, ~StillWaits(i) \/ Covered(i) PROVE FALSE
            <4>1. StillWaits(i)
                BY <2>4, <3>1, <1>q DEF StillWaits, GoneIsClean, Clean
            <4>2. PICK e \in recovery.queued : e.doc = d /\ e.op = "add"
                BY <3>1, <3>3, <4>1 DEF Covered
            <4> QED BY <1>4, <2>4, <4>2, <1>q DEF CoveredIsQueued
        <3>4. ASSUME RecoverDrop, i = recovery.at PROVE FALSE
            <4> DEFINE c == recovery.caller
            <4>1. c \in Calls /\ call[c].op = "add" /\ call[c].doc = d
                BY <3>1, <3>4, <1>q DEF CallsMatch, RecoverDrop
            <4>2. call[c].phase \in {"reporting", "waiting"}
                BY <3>4 DEF RecoverDrop
            <4> QED BY <2>4, <4>1, <4>2, <1>q DEF AddedIsQueued
        <3> QED BY <2>2, <3>1, <3>2, <3>3, <3>4, IntentMoves
    <2> QED BY <1>4, <2>1, <2>3, <2>4, <1>q, AddingMoves
<1>5. AddedIsQueued'
    BY <1>1 DEF AddedIsQueued, AddQueued
<1>6. CoveredIsQueued'
    BY <1>2, <1>3 DEF CoveredIsQueued
<1>7. AddingIsDurable'
    BY <1>4 DEF AddingIsDurable
<1> QED BY <1>5, <1>6, <1>7 DEF DurableIInv

\* What is known of the queue holds in the client.
LEMMA ClientQueueFacts == ClientSpec => []QueueFacts
<1>1. IInv /\ SentIInv /\ EntriesMeant => QueueFacts
    BY DEF QueueFacts
<1> QED BY <1>1, ClientImplementsQueue, Invariance, SendingInvariance, EntriesMeanOne, PTL

\* The invariants about adds, their intents and their entries hold in every reachable
\* state, whatever crashes, whether or not the application waits for #recover.
THEOREM AddsInvariance == ClientSpec => [](BirthIInv /\ MarksIInv /\ SentAddIInv /\ DurableIInv)
<1>1. ClientInit => BirthIInv /\ MarksIInv /\ SentAddIInv /\ DurableIInv
    <2> SUFFICES ASSUME ClientInit PROVE BirthIInv /\ MarksIInv /\ SentAddIInv /\ DurableIInv
        OBVIOUS
    <2> USE DEF ClientInit
    <2>1. PICK known \in SUBSET Docs :
              /\ doc = [d \in Docs |-> IF d \in known THEN Stored("first", 1) ELSE NoDoc]
              /\ server = [d \in Docs |-> IF d \in known
                              THEN [status |-> "live", val |-> "first", version |-> 1] ELSE Missing]
              /\ created = known
        OBVIOUS
    <2>2. Stored("first", 1).here /\ ~Stored("first", 1).adding /\ ~Stored("first", 1).deleting
          /\ ~NoDoc.here /\ ~NoDoc.adding /\ ~NoDoc.deleting /\ ~NoDoc.prev
        BY DEF Stored, NoDoc
    <2>3. \A c \in Calls : /\ draft[c].phase = "idle" /\ draft[c].op = "none"
                           /\ draft[c].doc = "none" /\ call[c].phase = "new"
                           /\ call[c].op = "none" /\ call[c].doc = "none"
        BY DEF NoDraft, Init, NoCall
    <2>4. \A d \in Docs : Clean(doc[d]) /\ ~doc[d].adding /\ ~doc[d].deleting
        BY <2>1, <2>2 DEF Clean
    <2>5. \A d \in Docs : Unborn(d) => d \notin known
        BY <2>1, <2>3 DEF Unborn, IntendsAdd
    <2>6. \A d \in Docs : d \notin known => Unheard(d)
        <3>1. Missing.status = "absent" /\ ingest.doc = "none" /\ head.doc = "none" /\ outbox = {}
            BY DEF Missing, NoIngest, Init, NoEntry
        <3> QED BY <2>1, <2>2, <2>3, <3>1, DocsAssumption DEF Unheard
    <2>7. BirthIInv
        BY <2>3, <2>5, <2>6 DEF BirthIInv, UnbornIsUnheard, OneAdder, IntendsAdd, DraftsAreBorn
    <2>8. work.phase = "idle" /\ recovery.phase = "query" /\ recovery.queued = {}
          /\ head.op = "none"
        BY DEF NoWork, NoRecovery, Init, NoEntry
    <2>9. MarksIInv
        BY <2>3, <2>4, <2>8 DEF MarksIInv, GoneIsClean, RecoveredFirst, IntentsMatch, CallsMatch
    <2>10. SentAddIInv
        BY <2>3, <2>4, <2>8 DEF SentAddIInv, DeletesAreHeard, EndedAdd
    <2>11. DurableIInv
        BY <2>3, <2>4, <2>8 DEF DurableIInv, AddedIsQueued, CoveredIsQueued, AddingIsDurable
    <2> QED BY <2>7, <2>9, <2>10, <2>11
<1>2. /\ ClientIInv /\ QueueFacts /\ [ClientNext]_allVars
      /\ BirthIInv /\ MarksIInv /\ SentAddIInv /\ DurableIInv
      => BirthIInv' /\ MarksIInv' /\ SentAddIInv' /\ DurableIInv'
    BY BirthPreserved, MarksPreserved, SentAddPreserved, DurablePreserved DEF MarksIInv
<1> QED BY <1>1, <1>2, ClientInvariance, ClientQueueFacts, PTL DEF ClientSpec

\* A document created offline is not lost: while it is marked `_adding` there is an
\* entry for its add in the queue or a mutation on its way to make one, or the intent
\* from which #recover makes one; with any number of calls, documents, crashes, lost
\* answers and other clients. Needed of the application: it calls no mutation before
\* #recover is done.
THEOREM AddsAreDurable ==
    ASSUME ~Early
    PROVE  ClientSpec => []AddingIsQueued
<1>1. DurableIInv => AddingIsQueued
    BY DEF DurableIInv, AddingIsDurable, AddQueued, AddIntended, AddingIsQueued, OnItsWay
<1> QED BY <1>1, AddsInvariance, PTL

\* No entry is sent twice at a time, and a mutation that resolves as done was read by
\* an execution of its entry or taken back: in the whole client, where the executions
\* are those of #execute.
THEOREM ClientSentByOne == ClientSpec => []SentByOne
BY ClientImplementsQueue, SentByOneAndAfter, PTL

-----------------------------------------------------------------------------
(* Updates follow adds: what makes AddFirst inductive. *)

\* The server was given the document, or refused it and the document says so.
Known(d) == server[d].status # "absent" \/ "add" \in doc[d].errors
KnownOrAdding == \A d \in Docs : doc[d].here /\ ~doc[d].adding => Known(d)

\* What is ingested the server has; what is requested is the operation of the head,
\* and an add that was answered for the server has.
Informed ==
    /\ ingest.doc \in Docs => server[ingest.doc].status # "absent"
    /\ work.write.do # "put"
    /\ work.phase # "idle" =>
          /\ work.kind = "post" => head.op = "add"
          /\ work.kind = "del" => head.op = "delete"
          /\ work.kind = "put" =>
                head.op = "update" \/ (head.op = "add" /\ server[Target].status # "absent")
          /\ work.phase = "request" => work.kind # "none"
          /\ head.op = "add" /\ \/ work.phase = "confirming"
                                \/ /\ work.phase = "answered"
                                   /\ work.answer \in {"ok", "nothing", "exists"}
             => server[Target].status # "absent"
KnownIInv == KnownOrAdding /\ Informed

\* The queue and the head of the loop keep the order: the add is before its updates.
UpdatesAfterAdds ==
    \A e \in outbox : e.op = "update" /\ doc[e.doc].adding =>
        \E f \in outbox : f.op = "add" /\ f.doc = e.doc /\ f.id < e.id
HeadAfterAdd ==
    loop \in {"got", "executing"} /\ head # NoEntry /\ doc[head.doc].adding =>
        /\ head.op # "update"
        /\ head.op = "add" => AddQueued(head.doc)

\* Calls know whether the add is still waiting: from what the mutation read before it
\* wrote, and from what was executed when their job started.
CallKnows(c) ==
    /\ call[c].op \in {"update", "delete"} /\ ~call[c].unsynced => ~doc[call[c].doc].adding
    /\ AddingNow(c) /\ doc[call[c].doc].adding => AddQueued(call[c].doc)
    /\ call[c].phase = "adding" /\ call[c].op = "update" /\ doc[call[c].doc].adding =>
           AddQueued(call[c].doc)
    /\ /\ draft[c].phase \in {"written", "sent", "nothing"}
       /\ draft[c].op # "add" /\ ~draft[c].unsynced
       => ~doc[draft[c].doc].adding
CallsKnow == \A c \in Calls : CallKnows(c)
OrderIInv == UpdatesAfterAdds /\ HeadAfterAdd /\ CallsKnow

\* What the server answers about an add.
LEMMA AddAnswered ==
    ASSUME ClientTypeOK, WorkInputs, Informed, NEW lost \in BOOLEAN, ServerHandles(lost),
           head.op = "add"
    PROVE  server'[Target].status # "absent"
<1> DEFINE s == server[Target]
           applies == Applies(work.kind, work.base, s)
<1>1. Target \in Docs /\ work.phase = "request"
    BY DEF ServerHandles, WorkInputs, Entry, Target
<1>2. work.kind \in {"post", "put"} /\ (work.kind = "put" => s.status # "absent")
    BY <1>1 DEF Informed, ClientTypeOK, Works
<1>3. server'[Target].status = IF ~applies THEN s.status
                               ELSE IF work.kind = "del" THEN "gone" ELSE "live"
    BY <1>1 DEF ServerHandles, ClientTypeOK
<1>4. work.kind = "post" => (applies <=> s.status = "absent")
    BY DEF Applies
<1> QED BY <1>2, <1>3, <1>4

\* Whoever is told of a document is told by the server, and asks for what the loop has.
LEMMA InformedPreserved ==
    ASSUME ClientIInv, SentAddIInv, Informed, [ClientNext]_allVars
    PROVE  Informed'
<1>q. TypeOK /\ ClientTypeOK /\ [Next]_vars /\ WorkInputs /\ EndedAdd
    BY StepRefines DEF ClientIInv, IInv, SentAddIInv
<1>1. ASSUME ingest'.doc \in Docs PROVE server'[ingest'.doc].status # "absent"
    BY <1>1, <1>q, IngestMoves, ServerMoves, DocsAssumption DEF Informed
<1>2. ASSUME work' = NoWork PROVE Informed'
    BY <1>1, <1>2 DEF Informed, NoWork, NoWrite
<1>3. ASSUME UNCHANGED work, Executing => Executing' PROVE Informed'
    <2>1. CASE work.phase = "idle"
        BY <1>1, <1>3, <2>1 DEF Informed
    <2>2. CASE work.phase # "idle"
        <3>1. Executing /\ Target \in Docs /\ head' = head
            BY <1>3, <1>q, <2>2, LoopSteps DEF EndedAdd, Executing, WorkInputs, Entry, Target
        <3>2. server[Target].status # "absent" => server'[Target].status # "absent"
            BY <3>1, <1>q, ServerMoves
        <3> QED BY <1>1, <1>3, <2>2, <3>1, <3>2 DEF Informed, Target
    <2> QED BY <2>1, <2>2
<1>4. ASSUME Execution, Executing, UNCHANGED vars PROVE Informed'
    <2>1. Target \in Docs /\ head' = head /\ Target' = Target
        BY <1>4, <1>q DEF Executing, WorkInputs, Entry, Target, vars, loopVars
    <2>2. server[Target].status # "absent" => server'[Target].status # "absent"
        BY <2>1, <1>q, ServerMoves
    <2> USE DEF Informed
    <2>3. CASE ExecRead
        BY <1>1, <2>1, <2>3, <1>q, WorkFields
    <2>4. CASE AddAsUpdate
        <3>1. head.op = "add" /\ server[Target].status # "absent"
            BY <2>4 DEF AddAsUpdate
        <3> QED BY <1>1, <2>1, <2>2, <2>4, <3>1, <1>q, WorkFields
    <2>5. CASE Conflicts \/ PullAnswered \/ PullRead \/ PullWrite
        <3>1. work.phase # "idle"
            BY <2>5 DEF Conflicts, PullAnswered, PullRead, PullWrite
        <3> QED BY <1>1, <2>1, <2>2, <2>5, <3>1, <1>q, WorkFields
    <2>6. CASE ExecFails \/ ConfirmWrite \/ ConfirmDelete \/ ExecReturns \/ ExecRetries
        BY <1>1, <2>1, <2>6, <1>q, WorkFields
    <2>7. CASE ConfirmRead
        <3>1. work.phase = "answered" /\ work.answer \in {"ok", "nothing"}
            BY <2>7 DEF ConfirmRead
        <3> QED BY <1>1, <2>1, <2>2, <2>7, <3>1, <1>q, WorkFields
    <2>8. ASSUME NEW lost \in BOOLEAN, ServerHandles(lost) PROVE Informed'
        <3>1. work.phase = "request"
            BY <2>8 DEF ServerHandles
        <3>2. head.op = "add" => server'[Target].status # "absent"
            BY <2>8, <1>q, AddAnswered
        <3> QED BY <1>1, <2>1, <2>2, <2>8, <3>1, <3>2, <1>q, WorkFields
    <2>9. ASSUME NEW answer \in {"network", "refused"}, RequestFails(answer) PROVE Informed'
        <3>1. work.phase # "idle"
            BY <2>9 DEF RequestFails
        <3> QED BY <1>1, <2>1, <2>2, <2>9, <3>1, <1>q, WorkFields
    <2> QED BY <1>4, <2>3, <2>4, <2>5, <2>6, <2>7, <2>8, <2>9 DEF Execution
<1> QED BY <1>2, <1>3, <1>4, WorkMoves

\* A document that is not marked as new is one the server was given, or refused.
LEMMA KnownPreserved ==
    ASSUME ClientIInv, MarksIInv, KnownIInv, [ClientNext]_allVars
    PROVE  KnownOrAdding'
<1>q. TypeOK /\ ClientTypeOK /\ DraftInputs /\ WorkInputs /\ IngestInputs /\ GoneIsClean
      /\ KnownOrAdding /\ Informed
    BY DEF ClientIInv, IInv, MarksIInv, KnownIInv
<1> SUFFICES ASSUME NEW d \in Docs, doc'[d].here, ~doc'[d].adding,
                    server'[d].status = "absent"
             PROVE  "add" \in doc'[d].errors
    BY DEF KnownOrAdding, Known
<1>s. server[d].status = "absent"
    BY <1>q, ServerMoves
<1>k. doc[d].here /\ ~doc[d].adding => "add" \in doc[d].errors
    BY <1>s, <1>q DEF KnownOrAdding, Known
<1>d. doc \in [Docs -> LocalDocs] /\ doc[d] \in LocalDocs /\ Clean(doc[d])
    BY <1>q DEF ClientTypeOK, GoneIsClean
<1>1. CASE doc'[d] = doc[d]
    BY <1>1, <1>k
<1>2. ASSUME NEW c \in Calls, draft[c].doc = d, WriteAdd(c) PROVE FALSE
    BY <1>2, <1>q, AddWrites
<1>3. ASSUME NEW c \in Calls, draft[c].doc = d, WriteUpdate(c) \/ WriteDelete(c)
      PROVE  "add" \in doc'[d].errors
    <2> DEFINE old == doc[d]
    <2>1. \/ doc'[d] = NoDoc
          \/ doc'[d] = Patched(old, [old EXCEPT !.val = c, !.prev = TRUE])
          \/ doc'[d] = Patched(old, [old EXCEPT !.deleting = TRUE])
        BY <1>3, <1>d DEF WriteUpdate, WriteDelete, Written
    <2>2. ~NoDoc.here
        BY DEF NoDoc
    <2> HIDE DEF old
    <2>3. old \in LocalDocs
        BY <1>d DEF old
    <2>4. \A r \in {Patched(old, [old EXCEPT !.val = c, !.prev = TRUE]),
                    Patched(old, [old EXCEPT !.deleting = TRUE])} :
              r.here => old.here /\ r.adding = old.adding /\ r.errors = old.errors
        BY <2>3 DEF Patched, LocalDocs
    <2> QED BY <1>k, <2>1, <2>2, <2>4 DEF old
<1>4. ASSUME d = Target, ExecFails PROVE "add" \in doc'[d].errors
    BY <1>4, <1>k, <1>q, FailedFlags
<1>5. ASSUME d = Target, ConfirmWrite PROVE "add" \in doc'[d].errors
    <2>1. work.phase = "confirming" /\ head.op # "add"
        BY <1>5, <1>s, <1>q DEF ConfirmWrite, Informed
    <2> QED BY <1>5, <2>1, <1>k, <1>q, ConfirmedFlags
<1>6. ASSUME d = Target, ConfirmDelete PROVE FALSE
    <2>1. doc'[d] = NoDoc
        BY <1>6, <1>d DEF ConfirmDelete
    <2> QED BY <2>1 DEF NoDoc
<1>7. ASSUME d = Target, PullWrite PROVE "add" \in doc'[d].errors
    <2>1. doc'[d] = Ingested(doc[d], work.write) /\ work.write \in Writes /\ work.write.do # "put"
        BY <1>7, <1>d, <1>q DEF PullWrite, ClientTypeOK, Works, Informed
    <2> QED BY <2>1, <1>d, <1>k, IngestedFlags
<1>8. ASSUME d = ingest.doc, IngestStore PROVE FALSE
    BY <1>8, <1>s, <1>q DEF Informed
<1> QED BY <1>1, <1>2, <1>3, <1>4, <1>5, <1>6, <1>7, <1>8, <1>q, DocMoves

\* What a call knows of the add it learns when it is made and when its job starts.
LEMMA CallLearns ==
    ASSUME TypeOK, NEW c \in Calls, CallStep(c)
    PROVE  /\ call'[c].unsynced = call[c].unsynced
           /\ \/ call'[c].seen = call[c].seen
              \/ call'[c].seen = NoEntry
              \/ call'[c].seen = inflight /\ StartJob(c)
           /\ call'[c].phase = "adding" /\ call[c].op = "update" =>
                  ~OnlyLocal(c) /\ call'[c].seen = call[c].seen
<1>t. call \in [Calls -> CallRecord] /\ call[c] \in CallRecord
    BY DEF TypeOK
<1>1. CASE StartJob(c)
    <2>1. call'[c] = [call[c] EXCEPT !.phase = "reading", !.seen = inflight]
        BY <1>1, <1>t DEF StartJob
    <2> QED BY <1>1, <2>1, <1>t DEF CallRecord
<1>2. CASE Decide(c)
    <2>1. ASSUME NEW e, call' = [call EXCEPT ![c] = [@ EXCEPT !.phase = "decided", !.target = e.id]]
          PROVE  call'[c].unsynced = call[c].unsynced /\ call'[c].seen = call[c].seen
                 /\ call'[c].phase = "decided"
        <3>1. call'[c] = [call[c] EXCEPT !.phase = "decided", !.target = e.id]
            BY <2>1, <1>t
        <3> QED BY <3>1, <1>t DEF CallRecord
    <2>2. ASSUME call' = [call EXCEPT ![c] = [@ EXCEPT
                         !.phase = "dropping",
                         !.drop = {e.id : e \in Same(c)},
                         !.hadAdd = \E e \in Same(c) : e.op = "add"]]
          PROVE  call'[c].unsynced = call[c].unsynced /\ call'[c].seen = call[c].seen
                 /\ call'[c].phase = "dropping"
        <3> DEFINE s == {e.id : e \in Same(c)}
                   b == \E e \in Same(c) : e.op = "add"
        <3>1. call'[c] = [call[c] EXCEPT !.phase = "dropping", !.drop = s, !.hadAdd = b]
            BY <2>2, <1>t
        <3> HIDE DEF s, b
        <3> QED BY <3>1, <1>t DEF CallRecord
    <2>3. ASSUME NEW p, call' = [call EXCEPT ![c].phase = p]
          PROVE  call'[c].unsynced = call[c].unsynced /\ call'[c].seen = call[c].seen
                 /\ call'[c].phase = p
        <3>1. call'[c] = [call[c] EXCEPT !.phase = p]
            BY <2>3, <1>t
        <3> QED BY <3>1, <1>t DEF CallRecord
    <2> QED BY <1>2, <2>1, <2>2, <2>3 DEF Decide, DecideDone
<1>3. CASE Drop(c)
    <2>1. \E s : call'[c] = [call[c] EXCEPT !.drop = s]
        BY <1>3, <1>t DEF Drop
    <2>2. call[c].phase = "dropping"
        BY <1>3 DEF Drop
    <2> QED BY <2>1, <2>2, <1>t DEF CallRecord
<1>4. CASE EndDrops(c)
    <2>1. \/ call'[c] = [call[c] EXCEPT !.phase = "decided"]
          \/ call'[c] = [call[c] EXCEPT !.phase = "adding"] /\ ~OnlyLocal(c)
        BY <1>4, <1>t DEF EndDrops, DecideDone
    <2> QED BY <2>1, <1>t DEF CallRecord
<1>5. CASE AddEntry(c)
    <2>1. call'[c] = [call[c] EXCEPT !.phase = "decided", !.target = nextId, !.created = TRUE]
        BY <1>5, <1>t DEF AddEntry
    <2> QED BY <2>1, <1>t DEF CallRecord
<1>6. CASE EndJob(c)
    <2>1. call'[c] = [call[c] EXCEPT !.phase = "recorded", !.seen = NoEntry, !.hadAdd = FALSE]
        BY <1>6, <1>t DEF EndJob
    <2> QED BY <2>1, <1>t DEF CallRecord
<1>7. CASE Resume(c) \/ Reported(c)
    <2>1. \E p \in {"waiting", "reporting"} : call'[c] = [call[c] EXCEPT !.phase = p]
        BY <1>7, <1>t DEF Resume, Reported
    <2> QED BY <2>1, <1>t DEF CallRecord
<1> QED BY <1>1, <1>2, <1>3, <1>4, <1>5, <1>6, <1>7 DEF CallStep

\* A call that was just made, or lost, has seen nothing.
LEMMA FreshSeen ==
    ASSUME TypeOK, ClientTypeOK, [ClientNext]_allVars, NEW c \in Calls,
           call'[c] # call[c], ~CallStep(c)
    PROVE  call'[c].seen.op = "none"
<1>n. NoEntry.op = "none" /\ NoCall.seen = NoEntry /\ NoCall.phase = "new"
    BY DEF NoEntry, NoCall
<1>1. ASSUME NEW b \in Calls, NEW op, NEW d, NEW u, Enqueue(b, op, d, u)
      PROVE  call'[c].seen = NoEntry
    <2>1. b = c
        BY <1>1 DEF Enqueue, TypeOK
    <2>2. call'[c] = [NoCall EXCEPT !.phase = "queued", !.op = op, !.doc = d, !.unsynced = u]
        BY <1>1, <2>1 DEF Enqueue, TypeOK
    <2> QED BY <2>2 DEF NoCall
<1>2. ASSUME Send(c) PROVE call'[c].seen = NoEntry
    BY <1>1, <1>2 DEF Send
<1>3. ASSUME RecoverNext PROVE call'[c].seen = NoEntry
    <2>1. ~UNCHANGED vars
        BY DEF vars, callVars
    <2>2. PICK i \in recovery.todo, b \in Recoveries :
              Enqueue(b, i.op, i.doc, i.op # "add" /\ doc[i.doc].adding)
        BY <1>3, <2>1 DEF RecoverNext
    <2> QED BY <2>2, <1>1, RecoveriesAssumption
<1>4. ASSUME ClientCrash PROVE call'[c].seen = NoEntry
    <2>1. call'[c] \in {NoCall, [NoCall EXCEPT !.phase = "lost"]}
        BY <1>4 DEF ClientCrash, Crash
    <2> QED BY <2>1 DEF NoCall
<1> QED BY <1>2, <1>3, <1>4, <1>n, CallOrigins

\* Every step keeps adds before their updates, in the queue and in who is about to queue.
LEMMA OrderPreserved ==
    ASSUME ClientIInv, QueueFacts, BirthIInv, MarksIInv, SentAddIInv, OrderIInv,
           [ClientNext]_allVars
    PROVE  OrderIInv'
<1>q. TypeOK /\ ClientTypeOK /\ [Next]_vars /\ DraftInputs /\ WorkInputs /\ IngestInputs
      /\ CallsShaped /\ GoneIsClean /\ CallInputs /\ CallInputs' /\ TypeOK' /\ ClientTypeOK'
      /\ DraftInputs' /\ IdsGrow /\ HeadIsOldest
      /\ UpdatesAfterAdds /\ HeadAfterAdd /\ CallsKnow
    BY StepRefines, ClientNextInvariant DEF ClientIInv, QueueFacts, IInv, SentIInv, MarksIInv,
                                            SentAddIInv, OrderIInv
<1>a. ASSUME NEW d \in Docs, doc'[d].adding, ~Unheard(d) PROVE doc[d].adding
    BY <1>a, <1>q, AddingMoves
<1>s. ASSUME NEW d \in Docs, AddQueued(d), doc'[d].adding PROVE AddQueued(d)'
    BY <1>s, AddsStay DEF AddQueued
<1>1. ASSUME NEW e \in outbox', e.op = "update", doc'[e.doc].adding
      PROVE  \E f \in outbox' : f.op = "add" /\ f.doc = e.doc /\ f.id < e.id
    <2>d. e.doc \in Docs
        BY <1>q DEF TypeOK, Entry
    <2>1. ASSUME NEW f \in outbox, f.op = "add", f.doc = e.doc, f.id < e.id
          PROVE  \E g \in outbox' : g.op = "add" /\ g.doc = e.doc /\ g.id < e.id
        BY <1>1, <2>1, AddsStay
    <2>2. ASSUME NEW g \in outbox, e.id = g.id, e.doc = g.doc, e.op = g.op
          PROVE  \E f \in outbox : f.op = "add" /\ f.doc = e.doc /\ f.id < e.id
        <3>1. doc[e.doc].adding
            BY <1>1, <1>a, <2>d, <2>2 DEF Unheard
        <3> QED BY <1>1, <2>2, <3>1, <1>q DEF UpdatesAfterAdds
    <2>3. ASSUME NEW c \in Calls, AddEntry(c), e.id = nextId,
                 e.doc = call[c].doc, e.op = call[c].op
          PROVE  \E f \in outbox : f.op = "add" /\ f.doc = e.doc /\ f.id < e.id
        <3>1. doc[e.doc].adding
            BY <1>1, <1>a, <2>d, <2>3 DEF Unheard
        <3>2. AddQueued(e.doc)
            BY <1>1, <2>3, <3>1, <1>q DEF CallsKnow, CallKnows, AddEntry
        <3> QED BY <3>2, <2>3, <1>q DEF AddQueued, IdsGrow
    <2> QED BY <2>1, <2>2, <2>3, <1>q, EntriesStep
<1>2. ASSUME loop' \in {"got", "executing"}, head' # NoEntry, doc'[head'.doc].adding
      PROVE  head'.op # "update" /\ (head'.op = "add" => \E e \in outbox' : e.doc = head'.doc /\ e.op = "add")
    <2> DEFINE d == head'.doc
    <2>d. d \in Docs
        BY <1>2, <1>q DEF TypeOK, Entry
    <2>1. CASE head' = head /\ loop \in {"got", "executing"}
        <3>1. doc[d].adding
            BY <1>2, <1>a, <2>d, <2>1 DEF Unheard
        <3>2. head.op # "update" /\ (head.op = "add" => AddQueued(head.doc))
            BY <1>2, <2>1, <3>1, <1>q DEF HeadAfterAdd
        <3>3. AddQueued(head.doc) => AddQueued(head.doc)'
            BY <1>2, <2>d, <2>1, <1>s DEF AddQueued
        <3> QED BY <2>1, <3>2, <3>3 DEF AddQueued
    <2>2. CASE head' \in Oldest(outbox)
        <3>1. head' \in outbox /\ \A f \in outbox : head'.id <= f.id
            BY <2>2 DEF Oldest
        <3>2. doc[d].adding
            BY <1>2, <1>a, <2>d, <3>1 DEF Unheard
        <3>3. \A f \in outbox : ~(f.id < head'.id)
            BY <3>1, <1>q DEF TypeOK, Entry
        <3>4. head'.op # "update"
            BY <3>1, <3>2, <3>3, <1>q DEF UpdatesAfterAdds
        <3>5. ASSUME head'.op = "add" PROVE \E e \in outbox' : e.doc = head'.doc /\ e.op = "add"
            BY <1>2, <3>1, <3>5, AddsStay
        <3> QED BY <3>4, <3>5
    <2> QED BY <1>2, <2>1, <2>2, <1>q, LoopSteps
\* What a call and its document were, when the call was made before this step.
<1>c. ASSUME NEW c \in Calls, NEW d \in Docs, doc'[d].adding, call[c].doc = d
      PROVE  doc[d].adding
    BY <1>c, <1>a DEF Unheard
<1>3. ASSUME NEW c \in Calls, call'[c].op \in {"update", "delete"}, ~call'[c].unsynced,
             NEW d, d = call'[c].doc, doc'[d].adding
      PROVE  FALSE
    <2>d. d \in Docs
        <3>1. call'[c].phase \notin {"new", "lost"}
            <4>1. CallsShaped'
                BY <1>q, CallsShapedPreserved
            <4> QED BY <4>1, <1>3 DEF CallsShaped, CallShaped
        <3> QED BY <3>1, <1>3, <1>q DEF CallInputs
    <2>1. ASSUME call[c].op = call'[c].op, call[c].doc = d, call[c].unsynced = call'[c].unsynced
          PROVE  FALSE
        BY <1>3, <1>c, <2>d, <2>1, <1>q DEF CallsKnow, CallKnows
    <2>2. CASE CallStep(c)
        BY <1>3, <2>1, <2>2, <1>q, CallsKeepInputs, CallLearns
    <2>3. ASSUME Send(c), call'[c].op = draft[c].op, d = draft[c].doc,
                 call'[c].unsynced = draft[c].unsynced
          PROVE  FALSE
        <3>1. doc' = doc /\ draft[c].phase = "written"
            BY <2>3 DEF Send
        <3> QED BY <1>3, <2>3, <3>1, <1>q DEF CallsKnow, CallKnows
    <2>4. ASSUME RecoverNext, NEW i \in recovery.todo, call'[c].op = i.op, d = i.doc,
                 call'[c].unsynced = (i.op # "add" /\ doc[i.doc].adding)
          PROVE  FALSE
        BY <1>3, <2>4 DEF RecoverNext
    <2> QED BY <1>3, <2>1, <2>2, <2>3, <2>4, <1>q, CallOrigins
<1>4. ASSUME NEW c \in Calls, call'[c].seen.op = "add", NEW d, d = call'[c].doc,
             call'[c].seen.doc = d, doc'[d].adding
      PROVE  AddQueued(d)'
    <2>d. d \in Docs
        <3>1. call' \in [Calls -> CallRecord]
            BY <1>q DEF TypeOK
        <3>2. call'[c].seen \in Entry \cup {NoEntry}
            BY <3>1 DEF CallRecord
        <3> QED BY <1>4, <3>2 DEF Entry, NoEntry
    <2>1. ASSUME call[c].seen = call'[c].seen, call[c].doc = d PROVE AddQueued(d)'
        BY <1>4, <1>c, <1>s, <2>d, <2>1, <1>q DEF CallsKnow, CallKnows, AddingNow
    <2>2. ASSUME CallStep(c), call'[c].doc = call[c].doc PROVE AddQueued(d)'
        <3>1. ASSUME call'[c].seen = inflight, StartJob(c) PROVE AddQueued(d)'
            <4>1. inflight # NoEntry
                BY <1>4, <3>1 DEF NoEntry
            <4>2. loop = "executing" /\ head # NoEntry /\ head.op = "add" /\ head.doc = d
                BY <1>4, <3>1, <4>1, <1>q DEF HeadIsOldest
            <4>3. doc[d].adding
                BY <1>4, <1>c, <2>d, <2>2
            <4> QED BY <1>4, <1>s, <2>d, <4>2, <4>3, <1>q DEF HeadAfterAdd
        <3>2. call'[c].seen # NoEntry
            BY <1>4 DEF NoEntry
        <3> QED BY <1>4, <2>1, <2>2, <3>1, <3>2, <1>q, CallLearns
    <2>3. ASSUME call'[c] # call[c], ~CallStep(c) PROVE FALSE
        BY <1>4, <2>3, <1>q, FreshSeen
    <2> QED BY <1>4, <2>1, <2>2, <2>3, <1>q, CallsKeepInputs
<1>5. ASSUME NEW c \in Calls, call'[c].phase = "adding", call'[c].op = "update",
             NEW d, d = call'[c].doc, doc'[d].adding
      PROVE  AddQueued(d)'
    <2>d. d \in Docs
        BY <1>5, <1>q DEF CallInputs
    <2>1. CASE call'[c] = call[c]
        BY <1>5, <1>c, <1>s, <2>d, <2>1, <1>q DEF CallsKnow, CallKnows
    <2>2. CASE CallStep(c)
        <3>1. call[c].op = "update" /\ call[c].doc = d
            BY <1>5, <2>2, <1>q, CallsKeepInputs
        <3>2. ~OnlyLocal(c) /\ call'[c].seen = call[c].seen
            BY <1>5, <2>2, <3>1, <1>q, CallLearns
        <3>3. doc[d].adding
            BY <1>5, <1>c, <2>d, <3>1
        <3>4. AddingNow(c)
            BY <3>1, <3>2, <3>3, <1>q DEF OnlyLocal, CallsKnow, CallKnows
        <3> QED BY <1>5, <1>s, <2>d, <3>1, <3>3, <3>4, <1>q DEF CallsKnow, CallKnows
    <2> QED BY <1>5, <2>1, <2>2, <1>q, CallOrigins
<1>6. ASSUME NEW c \in Calls, draft'[c].phase \in {"written", "sent", "nothing"},
             draft'[c].op # "add", ~draft'[c].unsynced, NEW d, d = draft'[c].doc, doc'[d].adding
      PROVE  FALSE
    <2>d. d \in Docs
        BY <1>6, <1>q DEF DraftInputs
    <2>1. ASSUME draft[c].doc = d, draft[c].op # "add" PROVE doc[d].adding
        BY <1>6, <1>a, <2>d, <2>1 DEF Unheard, IntendsAdd
    <2>2. CASE draft'[c] = draft[c]
        BY <1>6, <2>1, <2>2, <1>q DEF CallsKnow, CallKnows
    <2>3. ASSUME draft'[c].op = draft[c].op, draft'[c].doc = draft[c].doc,
                 draft'[c].unsynced = (draft[c].op # "add" /\ doc[draft[c].doc].adding)
          PROVE  FALSE
        BY <1>6, <2>1, <2>3
    <2>4. ASSUME Send(c), draft'[c].op = draft[c].op, draft'[c].doc = draft[c].doc,
                 draft'[c].unsynced = draft[c].unsynced
          PROVE  FALSE
        BY <1>6, <2>1, <2>4, <1>q DEF CallsKnow, CallKnows, Send
    <2> QED BY <1>6, <2>2, <2>3, <2>4, <1>q, DraftMoves
<1>7. UpdatesAfterAdds'
    BY <1>1 DEF UpdatesAfterAdds
<1>8. HeadAfterAdd'
    BY <1>2 DEF HeadAfterAdd, AddQueued
<1>9. CallsKnow'
    BY <1>3, <1>4, <1>5, <1>6 DEF CallsKnow, CallKnows, AddingNow, AddQueued
<1> QED BY <1>7, <1>8, <1>9 DEF OrderIInv

\* The invariants about the order of adds and updates, and about what the server knows,
\* hold in every reachable state.
THEOREM OrderInvariance == ClientSpec => [](KnownIInv /\ OrderIInv)
<1>1. ClientInit => KnownIInv /\ OrderIInv
    <2> SUFFICES ASSUME ClientInit PROVE KnownIInv /\ OrderIInv
        OBVIOUS
    <2> USE DEF ClientInit
    <2>1. PICK known \in SUBSET Docs :
              /\ doc = [d \in Docs |-> IF d \in known THEN Stored("first", 1) ELSE NoDoc]
              /\ server = [d \in Docs |-> IF d \in known
                              THEN [status |-> "live", val |-> "first", version |-> 1] ELSE Missing]
        OBVIOUS
    <2>2. Stored("first", 1).here /\ ~NoDoc.here
        BY DEF Stored, NoDoc
    <2>3. KnownOrAdding
        BY <2>1, <2>2 DEF KnownOrAdding, Known
    <2>4. work.phase = "idle" /\ work.write.do # "put" /\ ingest.doc = "none"
        BY DEF NoWork, NoWrite, NoIngest
    <2>5. Informed
        BY <2>4, DocsAssumption DEF Informed
    <2>6. \A c \in Calls : /\ draft[c].phase = "idle" /\ call[c].phase = "new"
                           /\ call[c].op = "none" /\ call[c].seen.op = "none"
        BY DEF NoDraft, Init, NoCall, NoEntry
    <2>7. OrderIInv
        BY <2>6 DEF Init, OrderIInv, UpdatesAfterAdds, HeadAfterAdd, CallsKnow, CallKnows, AddingNow
    <2> QED BY <2>3, <2>5, <2>7 DEF KnownIInv
<1>2. /\ ClientIInv /\ QueueFacts /\ BirthIInv /\ MarksIInv /\ SentAddIInv
      /\ KnownIInv /\ OrderIInv /\ [ClientNext]_allVars
      => KnownIInv' /\ OrderIInv'
    BY InformedPreserved, KnownPreserved, OrderPreserved DEF KnownIInv
<1> QED BY <1>1, <1>2, ClientInvariance, ClientQueueFacts, AddsInvariance, PTL DEF ClientSpec

\* "An update must not overtake the add that creates its document": the server is
\* asked to update only what it was given, unless it refused the add and the document
\* says so, or the user deletes the document while the request runs; whatever other
\* clients write, whatever crashes and however often requests are retried.
THEOREM UpdatesFollowAdds == ClientSpec => []AddFirst
<1>1. /\ ClientIInv /\ SentAddIInv /\ KnownIInv /\ OrderIInv => AddFirst
    <2> SUFFICES ASSUME ClientIInv, SentAddIInv, KnownIInv, OrderIInv,
                        work.phase = "request", work.kind = "put", doc[Target].here,
                        server[Target].status = "absent"
                 PROVE  "add" \in doc[Target].errors
        BY DEF AddFirst
    <2>1. Executing /\ Target \in Docs /\ head # NoEntry
        BY DEF SentAddIInv, EndedAdd, ClientIInv, WorkInputs, Entry, Target, NoEntry
    <2>2. head.op = "update"
        BY DEF KnownIInv, Informed
    <2>3. ~doc[Target].adding
        BY <2>1, <2>2 DEF OrderIInv, HeadAfterAdd, Executing, Target
    <2> QED BY <2>1, <2>3 DEF KnownIInv, KnownOrAdding, Known
<1> QED BY <1>1, ClientInvariance, AddsInvariance, OrderInvariance, PTL
-----------------------------------------------------------------------------
(* What a call waits for: a delete for the delete of its document, any other  *)
(* call for an add or an update of it.                                        *)

MeantBy(c, e) == e.doc = call[c].doc /\ (e.op = "delete") = (call[c].op = "delete")
TargetsMeant ==
    \A c \in Calls :
        /\ call[c].target < nextId
        /\ \A e \in outbox : e.id = call[c].target => MeantBy(c, e)
        /\ call[c].target # 0 /\ call[c].target = head.id => MeantBy(c, head)

\* How a call comes to its target.
LEMMA TargetMoves ==
    ASSUME TypeOK, [Next]_vars, NEW c \in Calls
    PROVE  LET r == call[c]
               s == call'[c]
           IN  \/ s.target = r.target /\ s.op = r.op /\ s.doc = r.doc
               \/ s.target = 0
               \/ /\ s.op = r.op /\ s.doc = r.doc /\ r.op = "update"
                  /\ UNCHANGED <<outbox, nextId, head>>
                  /\ \E e \in Foldable(c) : s.target = e.id
               \/ s.op = r.op /\ s.doc = r.doc /\ AddEntry(c) /\ s.target = nextId
<1>t. call \in [Calls -> CallRecord] /\ call[c] \in CallRecord
    BY DEF TypeOK
<1> DEFINE r == call[c]
           s == call'[c]
           same == s.target = r.target /\ s.op = r.op /\ s.doc = r.doc
<1>n. NoCall.target = 0
    BY DEF NoCall
<1>0. CASE call'[c] = call[c]
    BY <1>0
<1>1. ASSUME NEW b \in Calls, NEW op \in Ops, NEW d \in Docs, NEW u \in BOOLEAN,
             Enqueue(b, op, d, u), b = c
      PROVE  s.target = 0
    <2>1. s = [NoCall EXCEPT !.phase = "queued", !.op = op, !.doc = d, !.unsynced = u]
        BY <1>1, <1>t DEF Enqueue
    <2> QED BY <2>1 DEF NoCall
<1>2. ASSUME CallStep(c)
      PROVE  \/ same
             \/ /\ s.op = r.op /\ s.doc = r.doc /\ r.op = "update"
                /\ UNCHANGED <<outbox, nextId, head>>
                /\ \E e \in Foldable(c) : s.target = e.id
             \/ s.op = r.op /\ s.doc = r.doc /\ AddEntry(c) /\ s.target = nextId
    <2>k. s.op = r.op /\ s.doc = r.doc
        BY <1>2, CallsKeepInputs
    <2>m. \A p : [r EXCEPT !.phase = p].target = r.target
        BY <1>t DEF CallRecord
    <2>1. CASE StartJob(c)
        <3>1. s = [r EXCEPT !.phase = "reading", !.seen = inflight]
            BY <2>1, <1>t DEF StartJob
        <3>2. s.target = r.target
            BY <3>1, <1>t DEF CallRecord
        <3> QED BY <2>k, <3>2
    <2>2. CASE Decide(c)
        <3>1. ASSUME call[c].op = "update", NEW e \in Oldest(Foldable(c)),
                     call' = [call EXCEPT ![c] = [@ EXCEPT !.phase = "decided", !.target = e.id]]
              PROVE  r.op = "update" /\ \E f \in Foldable(c) : s.target = f.id
            <4>1. s = [r EXCEPT !.phase = "decided", !.target = e.id]
                BY <3>1, <1>t
            <4>2. s.target = e.id
                BY <4>1, <1>t DEF CallRecord
            <4> QED BY <3>1, <4>2 DEF Oldest
        <3>2. ASSUME call' = [call EXCEPT ![c] = [@ EXCEPT
                         !.phase = "dropping",
                         !.drop = {e.id : e \in Same(c)},
                         !.hadAdd = \E e \in Same(c) : e.op = "add"]]
              PROVE  s.target = r.target
            <4> DEFINE D == {e.id : e \in Same(c)}
                       b == \E e \in Same(c) : e.op = "add"
            <4>1. s = [r EXCEPT !.phase = "dropping", !.drop = D, !.hadAdd = b]
                BY <3>2, <1>t
            <4> HIDE DEF D, b
            <4> QED BY <4>1, <1>t DEF CallRecord
        <3>3. ASSUME NEW p, call' = [call EXCEPT ![c].phase = p]
              PROVE  s.target = r.target
            <4>1. s = [r EXCEPT !.phase = p]
                BY <3>3, <1>t
            <4> QED BY <4>1, <2>m
        <3>4. UNCHANGED <<outbox, nextId, head>>
            BY <2>2 DEF Decide
        <3> HIDE DEF s, r
        <3>5. \/ call[c].op = "update" /\ \E e \in Oldest(Foldable(c)) :
                     call' = [call EXCEPT ![c] = [@ EXCEPT !.phase = "decided", !.target = e.id]]
              \/ call' = [call EXCEPT ![c] = [@ EXCEPT
                         !.phase = "dropping",
                         !.drop = {e.id : e \in Same(c)},
                         !.hadAdd = \E e \in Same(c) : e.op = "add"]]
              \/ call' = [call EXCEPT ![c].phase = "adding"]
              \/ call' = [call EXCEPT ![c].phase = "decided"]
            BY <2>2 DEF Decide, DecideDone
        <3> QED BY <2>k, <3>1, <3>2, <3>3, <3>4, <3>5
    <2>3. CASE Drop(c)
        <3>1. PICK D : s = [r EXCEPT !.drop = D]
            BY <2>3, <1>t DEF Drop
        <3>2. s.target = r.target
            BY <3>1, <1>t DEF CallRecord
        <3> QED BY <2>k, <3>2
    <2>4. CASE EndDrops(c) \/ Resume(c) \/ Reported(c)
        <3>1. PICK p : s = [r EXCEPT !.phase = p]
            BY <2>4, <1>t DEF EndDrops, DecideDone, Resume, Reported
        <3> QED BY <2>k, <2>m, <3>1
    <2>5. CASE AddEntry(c)
        <3>1. s = [r EXCEPT !.phase = "decided", !.target = nextId, !.created = TRUE]
            BY <2>5, <1>t DEF AddEntry
        <3>2. s.target = nextId
            BY <3>1, <1>t DEF CallRecord
        <3> QED BY <2>k, <2>5, <3>2
    <2>6. CASE EndJob(c)
        <3>1. s = [r EXCEPT !.phase = "recorded", !.seen = NoEntry, !.hadAdd = FALSE]
            BY <2>6, <1>t DEF EndJob
        <3>2. s.target = r.target
            BY <3>1, <1>t DEF CallRecord
        <3> QED BY <2>k, <3>2
    <2> QED BY <1>2, <2>1, <2>2, <2>3, <2>4, <2>5, <2>6 DEF CallStep
<1>3. ASSUME Crash PROVE s.target = 0
    <2>1. s \in {NoCall, [NoCall EXCEPT !.phase = "lost"]}
        BY <1>3 DEF Crash
    <2> QED BY <2>1 DEF NoCall
<1>4. ASSUME NEW b \in Calls, NEW op \in Ops, NEW d \in Docs, NEW u \in BOOLEAN,
             Enqueue(b, op, d, u), b # c
      PROVE  call'[c] = call[c]
    BY <1>4, <1>t DEF Enqueue
<1>5. ASSUME NEW b \in Calls, CallStep(b), b # c PROVE call'[c] = call[c]
    BY <1>5, CallsKeepInputs
<1> HIDE DEF s, r
<1> QED BY <1>0, <1>1, <1>2, <1>3, <1>4, <1>5, OthersKeepCalls DEF Next, s, r

\* What a call waits for stays what it means.
LEMMA TargetsPreserved ==
    ASSUME TypeOK, IdsGrow, CallsShaped, EntriesMeant, TargetsMeant, [Next]_vars
    PROVE  TargetsMeant'
<1>n. /\ nextId \in Nat /\ nextId # 0 /\ nextId' \in Nat /\ nextId' >= nextId
      /\ \A e \in outbox : e.id \in Nat /\ e.id < nextId
      /\ head.id \in Nat /\ head.id < nextId
      /\ \A c \in Calls : AddEntry(c) => nextId' = nextId + 1
    BY EntryFields, NextIdGrows DEF TypeOK, IdsGrow, Entry
<1> SUFFICES ASSUME NEW c \in Calls
             PROVE  /\ call'[c].target < nextId'
                    /\ \A e \in outbox' : e.id = call'[c].target =>
                          e.doc = call'[c].doc /\ (e.op = "delete") = (call'[c].op = "delete")
                    /\ call'[c].target # 0 /\ call'[c].target = head'.id =>
                          head'.doc = call'[c].doc /\ (head'.op = "delete") = (call'[c].op = "delete")
    BY DEF TargetsMeant, MeantBy
<1>c. call[c].target \in Nat /\ call[c].target < nextId /\ call \in [Calls -> CallRecord]
    BY DEF TypeOK, CallRecord, TargetsMeant
<1>e. NoEntry.id = 0
    BY DEF NoEntry
<1> DEFINE Old(f) == \E e \in outbox : f.id = e.id /\ f.doc = e.doc /\ f.op = e.op
           New(f) == \E b \in Calls : /\ AddEntry(b) /\ f.id = nextId
                                      /\ f.doc = call[b].doc /\ f.op = call[b].op
<1>f. \A f \in outbox' : Old(f) \/ New(f)
    BY EntriesStep
<1>h. head' = NoEntry \/ head' \in outbox \/ head' = head
    BY HeadMoves
<1>o. \A b \in Calls : AddEntry(b) /\ AddEntry(c) => b = c
    BY DEF AddEntry, AtHead
<1>1. CASE call'[c].target = call[c].target /\ call'[c].op = call[c].op /\ call'[c].doc = call[c].doc
    <2>1. \A e \in outbox' : e.id = call'[c].target => Old(e)
        BY <1>1, <1>c, <1>f, <1>n
    <2> QED BY <1>1, <1>c, <1>e, <1>h, <1>n, <2>1 DEF TargetsMeant, MeantBy
<1>2. CASE call'[c].target = 0
    <2>1. \A e \in outbox' : e.id # 0
        BY <1>f, <1>n DEF TypeOK, Entry
    <2> QED BY <1>2, <1>n, <2>1
<1>3. CASE /\ call'[c].op = call[c].op /\ call'[c].doc = call[c].doc /\ call[c].op = "update"
           /\ UNCHANGED <<outbox, nextId, head>>
           /\ \E e \in Foldable(c) : call'[c].target = e.id
    <2>1. PICK e \in outbox : /\ e.doc = call[c].doc /\ e.op \in {"add", "update"}
                              /\ call'[c].target = e.id
        BY <1>3 DEF Foldable, Same
    <2> QED BY <1>3, <1>n, <2>1 DEF EntriesMeant, IdsTell, HeadIsItself
<1>4. CASE /\ call'[c].op = call[c].op /\ call'[c].doc = call[c].doc
           /\ AddEntry(c) /\ call'[c].target = nextId
    <2>1. \A e \in outbox' : e.id = nextId => New(e)
        BY <1>f, <1>n
    <2>2. head'.id # nextId
        <3>1. UNCHANGED head
            BY <1>4 DEF AddEntry
        <3> QED BY <3>1, <1>n
    <2> QED BY <1>4, <1>n, <1>o, <2>1, <2>2
<1> QED BY <1>1, <1>2, <1>3, <1>4, TargetMoves

\* A call waits for an entry that speaks of its document, and a delete for a delete.
THEOREM TargetsAreMeant == Spec => []TargetsMeant
<1>1. Init => TargetsMeant
    BY DEF Init, NoCall, NoEntry, TargetsMeant
<1>2. IInv /\ SentIInv /\ EntriesMeant /\ TargetsMeant /\ [Next]_vars => TargetsMeant'
    BY TargetsPreserved DEF IInv, SentIInv
<1> QED BY <1>1, <1>2, Invariance, SendingInvariance, EntriesMeanOne, PTL DEF Spec

-----------------------------------------------------------------------------
(* A document is added once, and before anything else is queued for it, while *)
(* mutations wait for #recover (~Early).                                      *)

\* An add of the document that is written, or read again by #recover, and not queued yet.
Adder(c, d) ==
    \/ draft[c].op = "add" /\ draft[c].doc = d /\ draft[c].phase = "written"
    \/ call[c].op = "add" /\ call[c].doc = d /\ call[c].phase \in {"queued", "reading", "adding"}
PendingAdd(d) == \E c \in Calls : Adder(c, d)
HeadIs(op, d) == loop \in {"got", "executing", "confirming"} /\ head.op = op /\ head.doc = d

\* What the server tells is left aside; what it answers is not.
NothingTold == ingests \in Nat /\ (ingests = 0 => ingest.phase = "idle")

\* #recover runs before the queue and before the mutations.
DraftFirst ==
    \A c \in Calls : draft[c].phase \in {"intended", "got", "written"} => call[c].phase = "new"
NotStarted == recovery.phase # "done" => ~started /\ loop = "off"
NoCallYet ==
    recovery.phase \in {"query", "pending", "start"} =>
        \A c \in Calls : call[c].phase \in {"new", "lost"}
AddIntents == {i \in intents \cup recovery.todo : i.op = "add"}
IntentsOnce ==
    /\ \A i \in AddIntents : i.doc \in created
    /\ \A i, j \in AddIntents : i.doc = j.doc => i = j
\* An intent that #recover still has to look at is not being queued, and if it was
\* queued before, the queue that was read says so.
ToRecover ==
    \A i \in recovery.todo :
        /\ recovery.phase \in {"next", "drop"} /\ i.op = "add"
        /\ recovery.phase = "drop" => i # recovery.at
        => /\ ~PendingAdd(i.doc)
           /\ AddQueued(i.doc) => \E e \in recovery.queued : e.op = "add" /\ e.doc = i.doc
RecoveryIInv ==
    NothingTold /\ DraftFirst /\ NotStarted /\ NoCallYet /\ IntentsOnce /\ ToRecover

AddedOnce ==
    /\ \A e, f \in outbox : e.op = "add" /\ f.op = "add" /\ e.doc = f.doc => e.id = f.id
    /\ \A e \in outbox : e.op = "add" /\ HeadIs("add", e.doc) => e.id = head.id
    /\ \A c \in Calls, d \in Docs : Adder(c, d) => ~AddQueued(d) /\ ~HeadIs("add", d)
    /\ \A b, c \in Calls, d \in Docs : Adder(b, d) /\ Adder(c, d) => b = c
PendingMarked ==
    \A c \in Calls, d \in Docs : Adder(c, d) /\ doc[d].here => doc[d].adding
AddsOldest ==
    /\ \A e, f \in outbox :
          e.op = "add" /\ f.op = "update" /\ e.doc = f.doc /\ doc[e.doc].here => e.id < f.id
    /\ \A f \in outbox, c \in Calls : f.op = "update" /\ doc[f.doc].here => ~Adder(c, f.doc)
    /\ \A d \in Docs : HeadIs("update", d) /\ doc[d].here =>
          ~AddQueued(d) /\ \A c \in Calls : ~Adder(c, d)
OnceIInv ==
    RecoveryIInv /\ AddedOnce /\ (ingests = 0 => PendingMarked /\ AddsOldest)

\* What is proved of the client so far.
ClientFacts ==
    /\ ClientIInv /\ QueueFacts /\ TargetsMeant
    /\ BirthIInv /\ MarksIInv /\ SentAddIInv /\ KnownIInv /\ OrderIInv

LEMMA ClientFactsHold == ClientSpec => []ClientFacts
<1>1. /\ ClientIInv /\ QueueFacts /\ TargetsMeant
      /\ BirthIInv /\ MarksIInv /\ SentAddIInv /\ KnownIInv /\ OrderIInv
      => ClientFacts
    BY DEF ClientFacts
<1> QED BY <1>1, ClientInvariance, ClientQueueFacts, ClientImplementsQueue, TargetsAreMeant,
           AddsInvariance, OrderInvariance, PTL

\* The parts of it that a step leans on.
LEMMA StepFacts ==
    ASSUME ClientFacts, ClientFacts', [ClientNext]_allVars
    PROVE  /\ TypeOK /\ ClientTypeOK /\ CallInputs /\ DraftInputs /\ WorkInputs /\ IngestInputs
           /\ TypeOK' /\ ClientTypeOK' /\ CallInputs' /\ DraftInputs' /\ WorkInputs'
           /\ [Next]_vars
           /\ IdsGrow /\ HeadIsOldest /\ CallsShaped /\ CallsShaped' /\ HeadCarried
           /\ IdsTell /\ DropsOwn /\ HeadIsItself /\ TargetsMeant /\ TargetsMeant'
           /\ UnbornIsUnheard /\ OneAdder /\ GoneIsClean
           /\ IntentsMatch /\ RecoveredFirst /\ CallsMatch /\ CallsMatch'
           /\ DeletesAreHeard /\ EndedAdd /\ EndedAdd' /\ KnownOrAdding /\ Informed
           /\ UpdatesAfterAdds /\ HeadAfterAdd /\ CallsKnow
BY StepRefines DEF ClientFacts, ClientIInv, QueueFacts, IInv, SentIInv, EntriesMeant, BirthIInv,
                   MarksIInv, SentAddIInv, KnownIInv, OrderIInv

\* Once the server has told something it has.
LEMMA ToldMoves ==
    ASSUME NothingTold, [ClientNext]_allVars
    PROVE  NothingTold' /\ (ingests' = 0 => ingests = 0 /\ ~IngestStore)
<1>1. ASSUME NEW d \in Docs, NEW kind, IngestReceive(d, kind)
      PROVE  ingests' = ingests + 1
    BY <1>1 DEF IngestReceive
<1>2. ASSUME UNCHANGED <<ingests, ingest>>
      PROVE  NothingTold' /\ (ingests' = 0 => ingests = 0 /\ ~IngestStore)
    BY <1>2 DEF NothingTold, IngestStore
<1>6. CASE Remote
    <2>1. CASE \E d \in Docs, status \in {"live", "gone"} : TheirWrite(d, status)
        BY <1>2, <2>1 DEF TheirWrite
    <2>2. CASE \E d \in Docs, kind \in {"added", "modified", "removed", "tombstone"} :
                  IngestReceive(d, kind)
        BY <1>1, <2>2 DEF NothingTold
    <2>3. CASE IngestRead \/ IngestStore
        BY <2>3 DEF IngestRead, IngestStore, NothingTold
    <2> QED BY <1>6, <2>1, <2>2, <2>3 DEF Remote
<1>7. CASE ClientCrash
    BY <1>7 DEF ClientCrash, NoIngest, NothingTold, IngestStore
<1>8. CASE QueueStep \/ UNCHANGED allVars
    BY <1>2, <1>8 DEF QueueStep, allVars
<1> QED BY <1>2, <1>6, <1>7, <1>8, MutationsKeep, RecoveringKeeps, ExecutionKeeps
        DEF ClientNext, restVars

\* Nothing starts the queue but #recover.
LEMMA StartMoves ==
    ASSUME NotStarted, EndedAdd, [ClientNext]_allVars
    PROVE  NotStarted'
<1> SUFFICES ASSUME recovery'.phase # "done" PROVE ~started' /\ loop' = "off"
    BY DEF NotStarted
<1>1. CASE ClientCrash
    BY <1>1 DEF ClientCrash, Crash
<1>2. CASE ~ClientCrash
    <2>1. recovery.phase # "done"
        BY <1>2, RecoveryMoves
    <2>2. ~started /\ loop = "off"
        BY <2>1 DEF NotStarted
    <2>3. ASSUME NEW c \in Calls, NEW op, NEW d, NEW u, Enqueue(c, op, d, u)
          PROVE  UNCHANGED <<started, loop>>
        BY <2>3 DEF Enqueue
    <2>k. UNCHANGED <<started, loop>> => ~started' /\ loop' = "off"
        BY <2>2
    <2>v. UNCHANGED vars => UNCHANGED <<started, loop>>
        BY DEF vars
    <2>4. CASE Mutations
        <3>1. UNCHANGED vars \/ \E c \in Calls : Send(c)
            BY <2>4 DEF Mutations, Intend, WriteAdd, WriteUpdate, ReadForDelete, WriteDelete,
                        Written, DropIntent
        <3>2. ASSUME NEW c \in Calls, Send(c) PROVE UNCHANGED <<started, loop>>
            BY <2>3, <3>2 DEF Send
        <3> QED BY <2>k, <2>v, <3>1, <3>2
    <2>5. CASE Recovering
        <3>1. ~Recovered
            BY DEF Recovered, NoRecovery
        <3>2. CASE RecoverNext
            <4>1. \/ UNCHANGED vars
                  \/ \E i \in recovery.todo, c \in Recoveries :
                        Enqueue(c, i.op, i.doc, i.op # "add" /\ doc[i.doc].adding)
                BY <3>2 DEF RecoverNext
            <4> QED BY <2>3, <2>k, <2>v, <4>1, RecoveriesAssumption
        <3> QED BY <2>k, <2>v, <2>5, <3>1, <3>2, QueueHears
    <2>6. ~Execution
        BY <2>2 DEF EndedAdd, Execution, Executing, ExecRead, AddAsUpdate, Conflicts, PullAnswered, PullRead,
               PullWrite, ExecFails, ConfirmRead, ConfirmWrite, ConfirmDelete, ExecReturns,
               ExecRetries, ServerHandles, RequestFails
    <2>7. CASE Remote \/ UNCHANGED allVars
        <3>1. UNCHANGED vars
            BY <2>7, RemoteKeeps DEF allVars
        <3> QED BY <2>k, <2>v, <3>1
    <2>8. CASE QueueStep
        <3>1. ~LoopStep /\ ~TimerFires
            BY <2>2 DEF LoopStep, LockGranted, LockBusy, GiveUp, LoopRead, LoopIdle, LoopExecute,
                        ConfirmHead, PersistRetry, RetryReported, LoopEnd, TimerFires, Wake
        <3>2. Trigger => UNCHANGED loop
            BY <2>2 DEF Trigger
        <3>3. ASSUME NEW c \in Calls, CallStep(c) PROVE UNCHANGED <<started, loop>>
            BY <3>2, <3>3 DEF CallStep, StartJob, Decide, Drop, EndDrops, AddEntry, EndJob, Resume,
                              Reported
        <3> QED BY <2>2, <2>8, <3>1, <3>3 DEF QueueStep
    <2> QED BY <1>2, <2>4, <2>5, <2>6, <2>7, <2>8 DEF ClientNext
<1> QED BY <1>1, <1>2

\* A mutation that is sent says so.
LEMMA SentDraft ==
    ASSUME ClientTypeOK, NEW c \in Calls, Send(c)
    PROVE  draft'[c].phase = "sent"
<1>1. draft \in [Calls -> Drafts] /\ draft[c] \in Drafts
    BY DEF ClientTypeOK
<1>2. draft'[c] = [draft[c] EXCEPT !.phase = "sent"]
    BY <1>1 DEF Send
<1> QED BY <1>1, <1>2 DEF Drafts

\* #recover queues what an intent announced, or passes it by.
LEMMA RecoverSteps ==
    ASSUME ClientTypeOK, RecoverNext
    PROVE  \E i \in recovery.todo :
              \/ \E c \in Calls :
                    /\ StillWaits(i) /\ ~Covered(i)
                    /\ Enqueue(c, i.op, i.doc, i.op # "add" /\ doc[i.doc].adding)
                    /\ recovery'.phase = "drop" /\ recovery'.at = i
                    /\ recovery'.todo = recovery.todo /\ recovery'.queued = recovery.queued
              \/ /\ ~StillWaits(i) \/ Covered(i)
                 /\ UNCHANGED vars
                 /\ recovery'.phase = "next" /\ recovery'.at = recovery.at
                 /\ recovery'.todo = recovery.todo \ {i} /\ recovery'.queued = recovery.queued
<1>t. recovery \in Recoverings /\ recovery.phase = "next"
    BY DEF ClientTypeOK, RecoverNext
<1>1. PICK i \in recovery.todo :
          \/ /\ StillWaits(i) /\ ~Covered(i)
             /\ \E c \in Recoveries :
                   /\ Enqueue(c, i.op, i.doc, i.op # "add" /\ doc[i.doc].adding)
                   /\ recovery' = [recovery EXCEPT !.phase = "drop", !.at = i, !.caller = c]
          \/ /\ ~StillWaits(i) \/ Covered(i)
             /\ recovery' = [recovery EXCEPT !.todo = @ \ {i}]
             /\ UNCHANGED vars
    BY DEF RecoverNext
<1> DEFINE queues == StillWaits(i) /\ ~Covered(i)
           u == i.op # "add" /\ doc[i.doc].adding
<1>2. ASSUME NEW c \in Recoveries, queues, Enqueue(c, i.op, i.doc, u),
             recovery' = [recovery EXCEPT !.phase = "drop", !.at = i, !.caller = c]
      PROVE  \E b \in Calls :
                    /\ queues
                    /\ Enqueue(b, i.op, i.doc, u)
                    /\ recovery'.phase = "drop" /\ recovery'.at = i
                    /\ recovery'.todo = recovery.todo /\ recovery'.queued = recovery.queued
    <2> HIDE DEF queues, u
    <2>1. /\ recovery'.phase = "drop" /\ recovery'.at = i
          /\ recovery'.todo = recovery.todo /\ recovery'.queued = recovery.queued
        BY <1>2, <1>t DEF Recoverings
    <2> QED BY <1>2, <2>1, RecoveriesAssumption
<1>3. ASSUME recovery' = [recovery EXCEPT !.todo = @ \ {i}]
      PROVE  /\ recovery'.phase = "next" /\ recovery'.at = recovery.at
             /\ recovery'.todo = recovery.todo \ {i} /\ recovery'.queued = recovery.queued
    BY <1>3, <1>t DEF Recoverings
<1> QED BY <1>1, <1>2, <1>3

\* Calls of mutations come when #recover is done.
LEMMA CallsWait ==
    ASSUME ~Early, ClientFacts, ClientFacts', DraftFirst, NoCallYet, [ClientNext]_allVars
    PROVE  DraftFirst' /\ NoCallYet'
<1>q. TypeOK /\ ClientTypeOK /\ RecoveredFirst
    BY StepFacts
<1>1. ASSUME NEW c \in Calls, draft'[c].phase \in {"intended", "got", "written"}
      PROVE  call'[c].phase = "new"
    <2>1. call[c].phase = "new" /\ ~Send(c) /\ ~ClientCrash
        <3>1. CASE draft'[c] = draft[c]
            <4>1. ~Send(c)
                BY <1>1, <1>q, SentDraft
            <4> QED BY <1>1, <3>1, <4>1, CrashedDrafts DEF DraftFirst
        <3>2. CASE draft'[c] # draft[c]
            <4>1. ASSUME NEW op \in Ops, NEW d \in Docs, Intend(c, op, d)
                  PROVE  call[c].phase = "new"
                BY <4>1 DEF Intend
            <4>2. ASSUME draft[c].phase \in {"intended", "got"} PROVE call[c].phase = "new"
                BY <4>2 DEF DraftFirst
            <4>3. ReadForDelete(c) => draft[c].phase = "intended"
                BY DEF ReadForDelete
            <4>4. ~Send(c)
                BY <1>1, <1>q, SentDraft
            <4>5. ~ClientCrash
                BY <1>1, CrashedDrafts
            <4> QED BY <1>q, <3>2, <4>1, <4>2, <4>3, <4>4, <4>5, DraftMoves
        <3> QED BY <3>1, <3>2
    <2>2. CASE call'[c] = call[c]
        BY <2>1, <2>2
    <2>3. ~CallStep(c)
        BY <2>1, <1>q, CallsKeepInputs
    <2>4. ASSUME RecoverNext PROVE FALSE
        <3>1. UNCHANGED draft /\ recovery.phase = "next"
            BY <2>4, RecoveringKeeps, ExecutionKeeps DEF Recovering, RecoverNext
        <3> QED BY <1>1, <3>1, <1>q DEF RecoveredFirst
    <2> QED BY <1>q, <2>1, <2>2, <2>3, <2>4, CallOrigins
<1>2. ASSUME recovery'.phase \in {"query", "pending", "start"}, NEW c \in Calls
      PROVE  call'[c].phase \in {"new", "lost"}
    <2>1. CASE ClientCrash
        <3>1. call'[c] \in {NoCall, [NoCall EXCEPT !.phase = "lost"]}
            BY <2>1 DEF ClientCrash, Crash
        <3> QED BY <3>1 DEF NoCall
    <2>2. CASE ~ClientCrash
        <3>1. recovery.phase \in {"query", "pending", "start"} /\ ~RecoverNext
            <4>1. ASSUME RecoverPending \/ RecoverNext \/ RecoverDrop \/ Recovered
                  PROVE  FALSE
                <5>1. RecoverPending => recovery'.phase = "next"
                    BY <1>q DEF RecoverPending, ClientTypeOK, Recoverings
                <5>2. RecoverDrop => recovery'.phase = "next"
                    BY <1>q DEF RecoverDrop, ClientTypeOK, Recoverings
                <5>3. Recovered => recovery'.phase = "done"
                    BY DEF Recovered, NoRecovery
                <5>4. RecoverNext => recovery'.phase \in {"next", "drop"}
                    BY <1>q, RecoverSteps
                <5> QED BY <1>2, <4>1, <5>1, <5>2, <5>3, <5>4
            <4>2. UNCHANGED recovery => recovery.phase \in {"query", "pending", "start"}
                BY <1>2
            <4>3. RecoverQuery => recovery.phase = "query"
                BY DEF RecoverQuery
            <4> QED BY <2>2, <4>1, <4>2, <4>3, RecoveryMoves DEF Recovering
        <3>2. call[c].phase \in {"new", "lost"}
            BY <3>1 DEF NoCallYet
        <3>3. ~CallStep(c)
            BY <3>2, <1>q, CallsKeepInputs
        <3>4. ~Send(c)
            BY <3>1, <1>q DEF RecoveredFirst, Send
        <3> QED BY <2>2, <3>1, <3>2, <3>3, <3>4, <1>q, CallOrigins
    <2> QED BY <2>1, <2>2
<1> QED BY <1>1, <1>2 DEF DraftFirst, NoCallYet

-----------------------------------------------------------------------------
(* What becomes of a document the client has, when nothing is ingested *)

\* Only its add brings a document here.
LEMMA HereMoves ==
    ASSUME ClientFacts, ClientFacts', [ClientNext]_allVars, ~IngestStore, NEW d \in Docs,
           doc'[d].here
    PROVE  doc[d].here \/ \E c \in Calls : WriteAdd(c) /\ draft[c].doc = d
<1>1. /\ ClientTypeOK /\ DraftInputs /\ WorkInputs /\ IngestInputs /\ GoneIsClean
      /\ work.write.do # "put"
    BY StepFacts DEF Informed
<1> QED BY <1>1, DocFlags

\* Whoever adds a document is the first to hear of it.
LEMMA AddIsFirst ==
    ASSUME ClientFacts, ClientFacts', [ClientNext]_allVars, NEW c \in Calls, WriteAdd(c)
    PROVE  /\ Unheard(draft[c].doc) /\ UNCHANGED vars
           /\ doc'[draft[c].doc].adding /\ doc'[draft[c].doc].errors = {}
<1>1. ClientTypeOK /\ DraftInputs /\ UnbornIsUnheard
    BY StepFacts
<1>2. IntendsAdd(c, draft[c].doc) /\ draft[c].doc \in Docs
    BY <1>1, AddWrites
<1>3. Unheard(draft[c].doc)
    BY <1>1, <1>2 DEF UnbornIsUnheard, Unborn
<1> QED BY <1>1, <1>3, AddWrites DEF WriteAdd, Written

\* A document that stays is edited, marked for deletion, merged with what the server
\* has, or its write fails or is confirmed.
Kept(old, new) ==
    /\ new.val = old.val /\ new.prev = old.prev
    /\ new.adding = old.adding /\ new.errors = old.errors
Edited(c, old, new) ==
    new.val = c /\ new.prev /\ new.adding = old.adding /\ new.errors = old.errors
Merged(old, new) ==
    /\ new.prev = old.prev /\ new.adding = old.adding /\ new.errors = old.errors
    /\ new.val = old.val \/ (work.write.do = "merge" /\ new.val = work.write.val)
Refused(old, new) ==
    /\ new.val = old.val /\ new.version = old.version
    /\ new.errors = old.errors \cup {head.op}
    /\ new.prev = (head.op # "update" /\ old.prev)
    /\ new.adding = (head.op # "add" /\ old.adding)
Confirmed(old, new) ==
    /\ new.prev = work.unsent /\ new.errors = old.errors \ {head.op}
    /\ new.adding = (head.op # "add" /\ old.adding)
    /\ new.val = old.val \/ (head.op = "add" /\ new.val = work.sent)

\* A write that fails for good is flagged and is no longer pending.
LEMMA RefusedHere ==
    ASSUME ClientTypeOK, WorkInputs, ExecFails, doc[Target].here
    PROVE  Refused(doc[Target], doc'[Target])
<1> DEFINE old == doc[Target]
           new == doc'[Target]
           flagged == [old EXCEPT !.errors = @ \cup {head.op}]
           failed == CASE head.op = "add" -> [flagged EXCEPT !.adding = FALSE]
                       [] head.op = "update" -> [flagged EXCEPT !.prev = FALSE]
                       [] head.op = "delete" -> [flagged EXCEPT !.deleting = FALSE]
<1>d. Target \in Docs /\ doc \in [Docs -> LocalDocs] /\ old \in LocalDocs
    BY DEF ClientTypeOK, ExecFails, WorkInputs, Entry, Target
<1>1. new = Patched(old, failed)
    BY <1>d DEF ExecFails
<1>2. new = failed
    BY <1>1 DEF Patched
<1>3. head.op \in Ops
    BY DEF ExecFails, WorkInputs, Entry
<1> HIDE DEF old, new
<1>4. /\ flagged.val = old.val /\ flagged.version = old.version
      /\ flagged.errors = old.errors \cup {head.op}
      /\ flagged.prev = old.prev /\ flagged.adding = old.adding /\ flagged \in LocalDocs
    BY <1>d, <1>3 DEF LocalDocs
<1> HIDE DEF flagged
<1>5. /\ failed.val = flagged.val /\ failed.version = flagged.version
      /\ failed.errors = flagged.errors
      /\ failed.prev = (head.op # "update" /\ flagged.prev)
      /\ failed.adding = (head.op # "add" /\ flagged.adding)
    <2>1. CASE head.op = "add"
        <3>1. failed = [flagged EXCEPT !.adding = FALSE]
            BY <2>1
        <3> QED BY <1>4, <2>1, <3>1 DEF LocalDocs
    <2>2. CASE head.op = "update"
        <3>1. failed = [flagged EXCEPT !.prev = FALSE]
            BY <2>2
        <3> QED BY <1>4, <2>2, <3>1 DEF LocalDocs
    <2>3. CASE head.op = "delete"
        <3>1. failed = [flagged EXCEPT !.deleting = FALSE]
            BY <2>3
        <3> QED BY <1>4, <2>3, <3>1 DEF LocalDocs
    <2> QED BY <1>3, <2>1, <2>2, <2>3 DEF Ops
<1> HIDE DEF failed
<1>6. Refused(old, new)
    BY <1>2, <1>4, <1>5 DEF Refused
<1> QED BY <1>6 DEF old, new

\* Every step leaves such a document in one of these ways.
LEMMA DocSteps ==
    ASSUME ClientFacts, ClientFacts', [ClientNext]_allVars, ~IngestStore, NEW d \in Docs,
           doc[d].here, doc'[d].here
    PROVE  LET old == doc[d]
               new == doc'[d]
           IN  \/ Kept(old, new)
               \/ \E c \in Calls : draft[c].doc = d /\ WriteUpdate(c) /\ Edited(c, old, new)
               \/ d = Target /\ PullWrite /\ Merged(old, new)
               \/ d = Target /\ ExecFails /\ Refused(old, new)
               \/ d = Target /\ ConfirmWrite /\ Confirmed(old, new)
<1>q. /\ ClientTypeOK /\ DraftInputs /\ WorkInputs /\ IngestInputs /\ GoneIsClean
      /\ work.write.do # "put" /\ work.write \in Writes
    BY StepFacts DEF Informed, ClientTypeOK, Works
<1> DEFINE old == doc[d]
           new == doc'[d]
<1>d. doc \in [Docs -> LocalDocs] /\ old \in LocalDocs /\ doc' \in [Docs -> LocalDocs]
    BY StepFacts DEF ClientTypeOK
<1>p. \A r : Patched(old, r) = r
    BY DEF Patched
<1>n. ~NoDoc.here
    BY DEF NoDoc
<1>1. CASE new = old
    BY <1>1 DEF Kept
<1>2. ASSUME NEW c \in Calls, draft[c].doc = d, WriteAdd(c) PROVE FALSE
    BY <1>2, AddIsFirst DEF Unheard
<1>3. ASSUME NEW c \in Calls, draft[c].doc = d, WriteUpdate(c) PROVE Edited(c, old, new)
    <2>1. new = Patched(old, [old EXCEPT !.val = c, !.prev = TRUE])
        BY <1>3, <1>d DEF WriteUpdate, Written
    <2>2. new = [old EXCEPT !.val = c, !.prev = TRUE]
        BY <2>1, <1>p
    <2> HIDE DEF old, new
    <2> QED BY <2>2, <1>d DEF Edited, LocalDocs
<1>4. ASSUME NEW c \in Calls, draft[c].doc = d, WriteDelete(c) PROVE Kept(old, new)
    <2>1. new = NoDoc \/ new = Patched(old, [old EXCEPT !.deleting = TRUE])
        BY <1>4, <1>d DEF WriteDelete, Written
    <2>2. new = [old EXCEPT !.deleting = TRUE]
        BY <2>1, <1>p, <1>n
    <2> HIDE DEF old, new
    <2> QED BY <2>2, <1>d DEF Kept, LocalDocs
<1>5. ASSUME d = Target, PullWrite PROVE Merged(old, new)
    <2> DEFINE w == work.write
    <2>1. new = Ingested(old, w)
        BY <1>5, <1>d DEF PullWrite
    <2>2. w.do \in {"nothing", "delete", "merge"}
        BY <1>q DEF Writes
    <2>3. CASE w.do = "nothing"
        <3>1. new = old
            BY <2>1, <2>3 DEF Ingested
        <3> QED BY <3>1 DEF Merged
    <2>4. CASE w.do = "delete"
        BY <2>1, <2>4, <1>n DEF Ingested
    <2>5. CASE w.do = "merge"
        <3>1. new = [old EXCEPT !.val = w.val, !.version = w.version]
            BY <2>1, <2>5, <1>p DEF Ingested
        <3>2. /\ new.prev = old.prev /\ new.adding = old.adding /\ new.errors = old.errors
              /\ new.val = w.val
            <4> HIDE DEF old, new, w
            <4> QED BY <3>1, <1>d DEF LocalDocs
        <3> QED BY <2>5, <3>2 DEF Merged
    <2> QED BY <2>2, <2>3, <2>4, <2>5
<1>6. ASSUME d = Target, ExecFails PROVE Refused(old, new)
    BY <1>6, <1>q, RefusedHere
<1>7. ASSUME d = Target, ConfirmWrite PROVE Confirmed(old, new)
    <2> DEFINE bare == head.op = "add" /\ work.kind = "put"
               version == IF work.version = 0 \/ bare THEN old.version ELSE work.version
               adding == IF head.op = "add" THEN FALSE ELSE old.adding
               val == IF head.op = "add" /\ (work.unsent \/ ~bare) THEN work.sent ELSE old.val
               made == [old EXCEPT !.prev = work.unsent, !.version = version,
                                   !.errors = @ \ {head.op}, !.adding = adding, !.val = val]
    <2>1. new = Patched(old, made)
        BY <1>7, <1>d DEF ConfirmWrite
    <2>2. new = made
        BY <2>1, <1>p
    <2>v. val = old.val \/ (head.op = "add" /\ val = work.sent)
        OBVIOUS
    <2>a. adding = (head.op # "add" /\ old.adding)
        BY <1>d DEF LocalDocs
    <2> HIDE DEF old, new, version, val, adding
    <2>3. /\ made.prev = work.unsent /\ made.errors = old.errors \ {head.op}
          /\ made.adding = adding /\ made.val = val
        BY <1>d DEF LocalDocs
    <2> QED BY <2>2, <2>3, <2>a, <2>v DEF Confirmed
<1>8. ASSUME d = Target, ConfirmDelete PROVE FALSE
    BY <1>8, <1>d, <1>n DEF ConfirmDelete
<1> HIDE DEF old, new
<1>9. doc'[d] = new /\ doc[d] = old
    BY DEF old, new
<1> QED BY <1>1, <1>2, <1>3, <1>4, <1>5, <1>6, <1>7, <1>8, <1>9, <1>q, DocMoves

-----------------------------------------------------------------------------
(* Documents are added once *)

\* What #recover still has to do was an intent.
LEMMA TodoMoves ==
    ASSUME ClientTypeOK, [ClientNext]_allVars
    PROVE  /\ recovery'.todo \subseteq recovery.todo \cup intents
           /\ recovery'.phase \in {"next", "drop"} =>
                 \/ UNCHANGED recovery
                 \/ RecoverPending /\ recovery'.queued = outbox /\ recovery.phase = "pending"
                 \/ RecoverNext
                 \/ /\ RecoverDrop /\ recovery.phase = "drop"
                    /\ recovery'.todo = recovery.todo \ {recovery.at}
                    /\ recovery'.queued = recovery.queued
<1>t. recovery \in Recoverings
    BY DEF ClientTypeOK
<1>1. ASSUME RecoverQuery
      PROVE  recovery'.todo = intents /\ recovery'.phase \in {"start", "pending"}
    <2> DEFINE p == IF intents = {} THEN "start" ELSE "pending"
    <2>1. recovery' = [recovery EXCEPT !.phase = p, !.todo = intents]
        BY <1>1 DEF RecoverQuery
    <2>2. p \in {"start", "pending"}
        OBVIOUS
    <2> HIDE DEF p
    <2> QED BY <2>1, <2>2, <1>t DEF Recoverings
<1>2. ASSUME RecoverPending
      PROVE  recovery'.todo = recovery.todo /\ recovery'.queued = outbox /\ recovery.phase = "pending"
    BY <1>2, <1>t DEF RecoverPending, Recoverings
<1>3. ASSUME RecoverNext PROVE recovery'.todo \subseteq recovery.todo
    BY <1>3, RecoverSteps
<1>4. ASSUME RecoverDrop
      PROVE  /\ recovery.phase = "drop" /\ recovery'.todo = recovery.todo \ {recovery.at}
             /\ recovery'.queued = recovery.queued
    <2>1. recovery' = [recovery EXCEPT !.phase = "next", !.todo = recovery.todo \ {recovery.at},
                                       !.at = NoIntent, !.caller = "none"]
        BY <1>4 DEF RecoverDrop
    <2> QED BY <1>4, <2>1, <1>t DEF RecoverDrop, Recoverings
<1>5. ASSUME Recovered PROVE recovery'.todo = {} /\ recovery'.phase = "done"
    BY <1>5 DEF Recovered, NoRecovery
<1>6. ASSUME ClientCrash PROVE recovery'.todo = {} /\ recovery'.phase = "query"
    BY <1>6 DEF ClientCrash, NoRecovery
<1> QED BY <1>1, <1>2, <1>3, <1>4, <1>5, <1>6, RecoveryMoves DEF Recovering

\* A document has one intent to add it.
LEMMA IntentsOncePreserved ==
    ASSUME ClientFacts, ClientFacts', IntentsOnce, [ClientNext]_allVars
    PROVE  IntentsOnce'
<1>q. ClientTypeOK /\ ClientTypeOK'
    BY StepFacts
<1> DEFINE Fresh(i) == \E c \in Calls, op \in Ops, d \in Docs :
                            Intend(c, op, d) /\ i = [id |-> c, op |-> op, doc |-> d]
<1>1. \A i \in AddIntents' : i \in AddIntents \/ (i.op = "add" /\ Fresh(i))
    BY <1>q, IntentMoves, TodoMoves DEF AddIntents
<1>2. ASSUME NEW i, i.op = "add", Fresh(i)
      PROVE  i.doc \notin created /\ i.doc \in created'
    <2>1. PICK c \in Calls, op \in Ops, d \in Docs : Intend(c, op, d) /\ i = [id |-> c, op |-> op, doc |-> d]
        BY <1>2
    <2> QED BY <1>2, <2>1 DEF Intend
<1>3. ASSUME NEW i, NEW j, i.op = "add", j.op = "add", i.doc = j.doc, Fresh(i), Fresh(j)
      PROVE  i = j
    <2>1. PICK c \in Calls, op \in Ops, d \in Docs : Intend(c, op, d) /\ i = [id |-> c, op |-> op, doc |-> d]
        BY <1>3
    <2>2. PICK b \in Calls, p \in Ops, e \in Docs : Intend(b, p, e) /\ j = [id |-> b, op |-> p, doc |-> e]
        BY <1>3
    <2>3. op = p /\ d = e
        BY <1>3, <2>1, <2>2
    <2>4. b = c
        <3>1. draft' = [draft EXCEPT ![c] = [NoDraft EXCEPT !.phase = "intended", !.op = op, !.doc = d]]
            BY <2>1 DEF Intend
        <3>2. draft' = [draft EXCEPT ![b] = [NoDraft EXCEPT !.phase = "intended", !.op = p, !.doc = e]]
            BY <2>2 DEF Intend
        <3>3. draft[b].phase = "idle" /\ draft \in [Calls -> Drafts]
            BY <2>2, <1>q DEF Intend, ClientTypeOK
        <3>4. draft'[b].phase = "intended"
            BY <3>2, <3>3 DEF NoDraft
        <3> QED BY <3>1, <3>3, <3>4
    <2> QED BY <2>1, <2>2, <2>3, <2>4
<1> HIDE DEF Fresh
<1>4. created \subseteq created'
    BY CreatedMoves
<1>5. \A i \in AddIntents : i.op = "add"
    BY DEF AddIntents
<1> QED BY <1>1, <1>2, <1>3, <1>4, <1>5 DEF IntentsOnce

\* How a call comes to be about to add a document.
Readded(c, d) ==
    \E i \in recovery.todo :
        /\ i.op = "add" /\ i.doc = d /\ StillWaits(i) /\ ~Covered(i)
        /\ recovery.phase = "next" /\ RecoverNext
        /\ recovery'.phase = "drop" /\ recovery'.at = i
        /\ recovery'.todo = recovery.todo /\ recovery'.queued = recovery.queued
        /\ call[c].phase = "new"
        /\ \A b \in Calls : b # c => call'[b] = call[b]
LEMMA AdderMoves ==
    ASSUME ClientFacts, ClientFacts', DraftFirst, [ClientNext]_allVars,
           NEW c \in Calls, NEW d \in Docs, Adder(c, d)'
    PROVE  \/ Adder(c, d) /\ ~AddEntry(c)
           \/ WriteAdd(c) /\ draft[c].doc = d
           \/ Readded(c, d)
<1>q. TypeOK /\ ClientTypeOK /\ CallsShaped
    BY StepFacts
<1>t. call \in [Calls -> CallRecord] /\ call[c] \in CallRecord
    BY <1>q DEF TypeOK
<1>0. ~ClientCrash
    <2>1. ASSUME ClientCrash PROVE call'[c].op = "none"
        <3>1. call'[c] \in {NoCall, [NoCall EXCEPT !.phase = "lost"]}
            BY <2>1 DEF ClientCrash, Crash
        <3> QED BY <3>1 DEF NoCall
    <2> QED BY <2>1, CrashedDrafts DEF Adder
<1>w. ASSUME WriteUpdate(c) \/ WriteDelete(c), draft[c].op = "add" PROVE FALSE
    <2>1. WriteUpdate(c) => draft[c].op = "update"
        BY DEF WriteUpdate
    <2>2. WriteDelete(c) => draft[c].phase = "got"
        BY DEF WriteDelete
    <2>3. draft[c].phase = "got" => draft[c].op = "delete"
        BY StepFacts DEF DeletesAreHeard
    <2> QED BY <1>w, <2>1, <2>2, <2>3
<1>a. ASSUME AddEntry(c) PROVE call[c].phase = "adding" /\ call'[c].phase = "decided"
    <2>1. call'[c] = [call[c] EXCEPT !.phase = "decided", !.target = nextId, !.created = TRUE]
        BY <1>a, <1>t DEF AddEntry
    <2> QED BY <1>a, <2>1, <1>t DEF AddEntry, CallRecord
<1>1. CASE draft'[c].op = "add" /\ draft'[c].doc = d /\ draft'[c].phase = "written"
    <2>1. CASE draft'[c] = draft[c]
        <3>1. Adder(c, d) /\ call[c].phase = "new"
            BY <1>1, <2>1 DEF Adder, DraftFirst
        <3> QED BY <3>1, <1>a
    <2>2. CASE draft'[c] # draft[c]
        BY <1>0, <1>1, <1>w, <2>2, <1>q, DraftMoves
    <2> QED BY <2>1, <2>2
<1>2. CASE call'[c].op = "add" /\ call'[c].doc = d /\ call'[c].phase \in {"queued", "reading", "adding"}
    <2>1. CASE call'[c] = call[c]
        <3>1. Adder(c, d) /\ ~AddEntry(c)
            BY <1>2, <2>1, <1>a DEF Adder
        <3> QED BY <3>1
    <2>2. CASE CallStep(c)
        <3>1. call[c].op = "add" /\ call[c].doc = d
            BY <1>2, <2>2, <1>q, CallsKeepInputs
        <3>2. call[c].phase \in Undecided
            BY <1>2, <2>2, <1>q, CallMoves DEF Undecided
        <3>3. call[c].phase \notin {"new", "lost", "dropping"}
            BY <3>1, <1>q DEF CallsShaped, CallShaped
        <3>4. Adder(c, d)
            BY <3>1, <3>2, <3>3 DEF Adder, Undecided
        <3> QED BY <1>2, <1>a, <3>4
    <2>3. CASE Send(c) /\ call'[c].op = draft[c].op /\ call'[c].doc = draft[c].doc /\ call[c].phase = "new"
        <3>1. Adder(c, d)
            BY <1>2, <2>3 DEF Adder, Send
        <3> QED BY <1>a, <2>3, <3>1
    <2>4. CASE RecoverNext /\ call'[c] # call[c]
        <3>1. PICK i \in recovery.todo :
              \/ \E b \in Calls :
                    /\ StillWaits(i) /\ ~Covered(i)
                    /\ Enqueue(b, i.op, i.doc, i.op # "add" /\ doc[i.doc].adding)
                    /\ recovery'.phase = "drop" /\ recovery'.at = i
                    /\ recovery'.todo = recovery.todo /\ recovery'.queued = recovery.queued
              \/ UNCHANGED vars
            BY <2>4, <1>q, RecoverSteps
        <3>2. ~UNCHANGED vars
            BY <2>4 DEF vars
        <3>3. PICK b \in Calls :
                    /\ StillWaits(i) /\ ~Covered(i)
                    /\ Enqueue(b, i.op, i.doc, i.op # "add" /\ doc[i.doc].adding)
                    /\ recovery'.phase = "drop" /\ recovery'.at = i
                    /\ recovery'.todo = recovery.todo /\ recovery'.queued = recovery.queued
            BY <3>1, <3>2
        <3> DEFINE u == i.op # "add" /\ doc[i.doc].adding
                   r == [NoCall EXCEPT !.phase = "queued", !.op = i.op, !.doc = i.doc, !.unsynced = u]
        <3>4. call' = [call EXCEPT ![b] = r] /\ call[b].phase = "new"
            BY <3>3 DEF Enqueue
        <3>5. r.op = i.op /\ r.doc = i.doc
            BY QueuedCall
        <3> HIDE DEF r
        <3>6. b = c /\ (\A x \in Calls : x # c => call'[x] = call[x])
            BY <2>4, <3>4, <1>t
        <3>7. i.op = "add" /\ i.doc = d
            BY <1>2, <3>4, <3>5, <3>6, <1>t
        <3>8. recovery.phase = "next"
            BY <2>4 DEF RecoverNext
        <3>9. Readded(c, d)
            BY <2>4, <3>3, <3>4, <3>6, <3>7, <3>8 DEF Readded
        <3> QED BY <3>9
    <2> QED BY <1>0, <2>1, <2>2, <2>3, <2>4, <1>q, CallOrigins
<1> QED BY <1>1, <1>2 DEF Adder

\* What the loop works on it worked on before, or it read it as the oldest entry.
LEMMA HeadComes ==
    ASSUME [Next]_vars, NEW op \in Ops, NEW d, HeadIs(op, d)'
    PROVE  \/ HeadIs(op, d) /\ head' = head
           \/ head' \in Oldest(outbox) /\ head'.op = op /\ head'.doc = d /\ loop' = "got"
<1>1. NoEntry.op \notin Ops
    BY DEF NoEntry, Ops
<1>2. \A s : ExecuteEnds(s) => loop = "executing"
    BY DEF ExecuteEnds
<1> QED BY <1>1, <1>2, LoopSteps DEF HeadIs


\* An add is queued by who was about to.
LEMMA AddsComeQueued ==
    ASSUME TypeOK, [Next]_vars, NEW d, AddQueued(d)'
    PROVE  AddQueued(d) \/ \E c \in Calls : AddEntry(c) /\ Adder(c, d)
<1>1. PICK f \in outbox' : f.doc = d /\ f.op = "add"
    BY DEF AddQueued
<1>2. CASE \E e \in outbox : f.id = e.id /\ f.doc = e.doc /\ f.op = e.op
    BY <1>1, <1>2 DEF AddQueued
<1>3. ASSUME NEW c \in Calls, AddEntry(c), f.doc = call[c].doc, f.op = call[c].op
      PROVE  Adder(c, d)
    BY <1>1, <1>3 DEF Adder, AddEntry
<1> QED BY <1>2, <1>3, EntriesStep

\* What #recover still has to look at stays as it was read.
LEMMA ToRecoverPreserved ==
    ASSUME ~Early, ClientFacts, ClientFacts', DraftFirst, NoCallYet, IntentsOnce, ToRecover,
           [ClientNext]_allVars
    PROVE  ToRecover'
<1>q. TypeOK /\ ClientTypeOK /\ [Next]_vars /\ RecoveredFirst
    BY StepFacts
<1> SUFFICES ASSUME NEW i \in recovery'.todo, recovery'.phase \in {"next", "drop"}, i.op = "add",
                    recovery'.phase = "drop" => i # recovery'.at
             PROVE  /\ ~PendingAdd(i.doc)'
                    /\ AddQueued(i.doc)' => \E e \in recovery'.queued : e.op = "add" /\ e.doc = i.doc
    BY DEF ToRecover
<1> DEFINE Listed(S) == \E e \in S : e.op = "add" /\ e.doc = i.doc
<1>w. ASSUME NEW c \in Calls, WriteAdd(c), recovery.phase # "done" PROVE FALSE
    BY <1>w, <1>q DEF WriteAdd, RecoveredFirst
<1>i. i \in recovery.todo \cup intents
    BY <1>q, TodoMoves
<1>d. i.doc \in Docs
    BY <1>i, <1>q DEF ClientTypeOK, Recoverings, Intents
<1>1. ASSUME i \in recovery.todo, recovery.phase \in {"next", "drop"},
             recovery.phase = "drop" => i # recovery.at
      PROVE  ~PendingAdd(i.doc) /\ (AddQueued(i.doc) => Listed(recovery.queued))
    BY <1>1 DEF ToRecover
<1>2. ASSUME i \in recovery.todo, recovery.phase \in {"next", "drop"},
             recovery.phase = "drop" => i # recovery.at, recovery'.queued = recovery.queued,
             RecoverNext => recovery'.phase = "next" \/ i # recovery'.at
      PROVE  ~PendingAdd(i.doc)' /\ (AddQueued(i.doc)' => Listed(recovery'.queued))
    <2>1. ~PendingAdd(i.doc) /\ (AddQueued(i.doc) => Listed(recovery.queued))
        BY <1>1, <1>2
    <2>2. ASSUME NEW c \in Calls, Readded(c, i.doc) PROVE FALSE
        <3>1. PICK j \in recovery.todo : /\ j.op = "add" /\ j.doc = i.doc /\ RecoverNext
                                         /\ recovery'.phase = "drop" /\ recovery'.at = j
            BY <2>2 DEF Readded
        <3>2. i = j
            BY <1>2, <3>1 DEF IntentsOnce, AddIntents
        <3> QED BY <1>2, <3>1, <3>2
    <2>3. ~PendingAdd(i.doc)'
        <3>1. ASSUME NEW c \in Calls, Adder(c, i.doc)' PROVE FALSE
            BY <1>d, <1>w, <1>2, <2>1, <2>2, <3>1, AdderMoves DEF PendingAdd
        <3> QED BY <3>1 DEF PendingAdd
    <2>4. AddQueued(i.doc)' => AddQueued(i.doc)
        BY <2>1, <1>q, AddsComeQueued DEF PendingAdd
    <2> QED BY <1>2, <2>1, <2>3, <2>4
<1>3. CASE UNCHANGED recovery
    <2>1. ~RecoverNext \/ recovery'.phase = "next" \/ i # recovery'.at
        OBVIOUS
    <2> QED BY <1>2, <1>3, <2>1
<1>4. CASE RecoverPending /\ recovery'.queued = outbox /\ recovery.phase = "pending"
    <2>1. UNCHANGED vars /\ UNCHANGED draft
        BY <1>4 DEF RecoverPending
    <2>2. \A c \in Calls : call[c].phase \in {"new", "lost"} /\ draft[c].phase \in {"idle", "lost"}
        BY <1>4, <1>q DEF NoCallYet, RecoveredFirst
    <2>3. \A c \in Calls : call'[c] = call[c] /\ draft'[c] = draft[c]
        BY <2>1 DEF vars
    <2>4. ~PendingAdd(i.doc)'
        BY <2>2, <2>3 DEF PendingAdd, Adder
    <2>5. AddQueued(i.doc)' => Listed(recovery'.queued)
        BY <1>4, <2>1 DEF vars, AddQueued
    <2> QED BY <2>4, <2>5
<1>5. CASE RecoverNext
    <2>1. recovery.phase = "next" /\ recovery'.queued = recovery.queued /\ recovery'.todo \subseteq recovery.todo
          /\ recovery'.phase \in {"next", "drop"}
        BY <1>5, <1>q, RecoverSteps DEF RecoverNext
    <2> QED BY <1>2, <1>5, <2>1
<1>6. CASE /\ RecoverDrop /\ recovery.phase = "drop"
           /\ recovery'.todo = recovery.todo \ {recovery.at}
           /\ recovery'.queued = recovery.queued
    <2>1. ~RecoverNext
        BY <1>6 DEF RecoverNext
    <2> QED BY <1>2, <1>6, <2>1
<1> QED BY <1>3, <1>4, <1>5, <1>6, <1>q, TodoMoves


\* Whoever adds a document again was the only one to.
LEMMA ReaddedAlone ==
    ASSUME ~Early, ClientFacts, ClientFacts', NotStarted, NotStarted', ToRecover,
           [ClientNext]_allVars, NEW c \in Calls, NEW d, Readded(c, d)
    PROVE  /\ ~PendingAdd(d) /\ ~AddQueued(d) /\ doc[d].here /\ doc[d].adding
           /\ UNCHANGED <<doc, outbox, draft>> /\ loop' = "off"
           /\ \A b \in Calls : ~WriteAdd(b)
<1>q. ClientTypeOK /\ RecoveredFirst
    BY StepFacts
<1>1. PICK i \in recovery.todo :
        /\ i.op = "add" /\ i.doc = d /\ StillWaits(i) /\ ~Covered(i)
        /\ recovery.phase = "next" /\ RecoverNext /\ recovery'.phase = "drop"
    BY DEF Readded
<1>2. ~PendingAdd(d) /\ (AddQueued(d) => \E e \in recovery.queued : e.op = "add" /\ e.doc = d)
    BY <1>1 DEF ToRecover
<1>3. ~AddQueued(d)
    BY <1>1, <1>2 DEF Covered
<1>4. doc[d].here /\ doc[d].adding
    BY <1>1 DEF StillWaits
<1>5. UNCHANGED <<doc, draft>> /\ UNCHANGED outbox
    <2>1. UNCHANGED <<doc, draft>>
        BY <1>1 DEF RecoverNext
    <2>2. UNCHANGED outbox
        BY <1>1, <1>q, RecoverSteps DEF Enqueue, vars
    <2> QED BY <2>1, <2>2
<1>6. loop' = "off"
    BY <1>1 DEF NotStarted
<1>7. ASSUME NEW b \in Calls, WriteAdd(b) PROVE FALSE
    BY <1>1, <1>7, <1>q DEF WriteAdd, RecoveredFirst
<1> QED BY <1>2, <1>3, <1>4, <1>5, <1>6, <1>7

\* The add of a document is queued once.
LEMMA AddedOncePreserved ==
    ASSUME ~Early, ClientFacts, ClientFacts', RecoveryIInv, NotStarted', AddedOnce,
           [ClientNext]_allVars
    PROVE  AddedOnce'
<1>q. TypeOK /\ ClientTypeOK /\ [Next]_vars /\ RecoveredFirst /\ DraftFirst /\ NotStarted /\ ToRecover
      /\ TypeOK' /\ ClientTypeOK' /\ OneAdder
    BY StepFacts DEF RecoveryIInv
<1>o. /\ \A c \in Calls, d \in Docs : Adder(c, d) => ~AddQueued(d) /\ ~HeadIs("add", d)
      /\ \A b, c \in Calls, d \in Docs : Adder(b, d) /\ Adder(c, d) => b = c
      /\ \A e, f \in outbox : e.op = "add" /\ f.op = "add" /\ e.doc = f.doc => e.id = f.id
      /\ \A e \in outbox : e.op = "add" /\ HeadIs("add", e.doc) => e.id = head.id
    BY DEF AddedOnce
<1>d. \A e \in outbox \cup outbox' : e.doc \in Docs
    BY <1>q DEF TypeOK, Entry
\* Where an entry of the queue comes from.
<1> DEFINE Old(f) == \E e \in outbox : f.id = e.id /\ f.doc = e.doc /\ f.op = e.op
           New(f) == \E c \in Calls : AddEntry(c) /\ f.id = nextId /\ (f.op = "add" => Adder(c, f.doc))
<1>e. ASSUME NEW f \in outbox' PROVE Old(f) \/ New(f)
    <2>1. ASSUME NEW c \in Calls, AddEntry(c), f.doc = call[c].doc, f.op = call[c].op, f.op = "add"
          PROVE  Adder(c, f.doc)
        BY <2>1 DEF AddEntry, Adder
    <2> QED BY <2>1, <1>q, EntriesStep
<1>n. \A f \in outbox' : Old(f) /\ f.op = "add" => AddQueued(f.doc)
    BY DEF AddQueued
<1>f. \A f \in outbox' : New(f) /\ f.op = "add" => ~AddQueued(f.doc) /\ ~HeadIs("add", f.doc) /\ f.id = nextId
    BY <1>o, <1>d
<1>h. ASSUME NEW d, HeadIs("add", d)'
      PROVE  \/ HeadIs("add", d) /\ head' = head
             \/ head' \in outbox /\ head'.op = "add" /\ head'.doc = d /\ loop' = "got"
    BY <1>h, <1>q, HeadComes DEF Oldest, Ops
<1>1. ASSUME NEW e \in outbox', NEW f \in outbox', e.op = "add", f.op = "add", e.doc = f.doc
      PROVE  e.id = f.id
    <2>1. CASE Old(e) /\ Old(f)
        BY <1>1, <1>o, <2>1
    <2>2. CASE New(e) /\ New(f)
        BY <2>2
    <2>3. CASE (Old(e) /\ New(f)) \/ (New(e) /\ Old(f))
        BY <1>1, <1>n, <1>f, <2>3
    <2> HIDE DEF Old, New
    <2> QED BY <1>e, <2>1, <2>2, <2>3
<1>2. ASSUME NEW e \in outbox', e.op = "add", HeadIs("add", e.doc)'
      PROVE  e.id = head'.id
    <2>1. CASE Old(e)
        <3>1. PICK f \in outbox : e.id = f.id /\ e.doc = f.doc /\ e.op = f.op
            BY <2>1
        <3>2. CASE HeadIs("add", e.doc) /\ head' = head
            BY <1>2, <1>o, <3>1, <3>2
        <3>3. CASE head' \in outbox /\ head'.op = "add" /\ head'.doc = e.doc
            BY <1>2, <1>o, <3>1, <3>3
        <3> QED BY <1>2, <1>h, <3>2, <3>3
    <2>2. CASE New(e)
        <3>1. ~AddQueued(e.doc) /\ ~HeadIs("add", e.doc)
            BY <1>2, <1>f, <2>2
        <3> QED BY <1>2, <1>h, <3>1 DEF AddQueued
    <2> QED BY <1>e, <2>1, <2>2
<1>3. ASSUME NEW c \in Calls, NEW d \in Docs, Adder(c, d)'
      PROVE  ~AddQueued(d)' /\ ~HeadIs("add", d)'
    <2>1. CASE Adder(c, d) /\ ~AddEntry(c)
        <3>1. ~AddQueued(d)'
            BY <1>o, <2>1, <1>q, AddsComeQueued
        <3>2. ~HeadIs("add", d)'
            BY <1>o, <1>h, <2>1 DEF AddQueued
        <3> QED BY <3>1, <3>2
    <2>2. CASE WriteAdd(c) /\ draft[c].doc = d
        <3>1. Unheard(d) /\ UNCHANGED vars
            BY <2>2, AddIsFirst
        <3>2. UNCHANGED <<outbox, head>>
            BY <3>1 DEF vars
        <3>3. ~AddQueued(d)'
            BY <3>1, <3>2 DEF AddQueued, Unheard
        <3>4. ~HeadIs("add", d)'
            BY <3>1, <3>2 DEF HeadIs, Unheard
        <3> QED BY <3>3, <3>4
    <2>3. CASE Readded(c, d)
        <3>1. ~AddQueued(d) /\ UNCHANGED outbox /\ loop' = "off"
            BY <2>3, <1>q, ReaddedAlone
        <3>2. ~AddQueued(d)'
            BY <3>1 DEF AddQueued
        <3>3. ~HeadIs("add", d)'
            BY <3>1 DEF HeadIs
        <3> QED BY <3>2, <3>3
    <2> QED BY <1>3, <1>q, <2>1, <2>2, <2>3, AdderMoves
<1>4. ASSUME NEW b \in Calls, NEW c \in Calls, NEW d \in Docs, Adder(b, d)', Adder(c, d)', b # c
      PROVE  FALSE
    <2>1. ASSUME NEW x \in Calls, NEW y \in Calls, WriteAdd(x), draft[x].doc = d, Adder(y, d)
          PROVE  FALSE
        <3>1. Unheard(d)
            BY <2>1, AddIsFirst
        <3> QED BY <2>1, <3>1 DEF Unheard, Adder, IntendsAdd
    <2>2. ASSUME WriteAdd(b), WriteAdd(c), draft[b].doc = d, draft[c].doc = d
          PROVE  FALSE
        BY <1>4, <2>2, <1>q DEF OneAdder, IntendsAdd, WriteAdd
    <2>3. ASSUME NEW x \in Calls, NEW y \in Calls, x # y, Readded(x, d), Adder(y, d)'
          PROVE  FALSE
        <3>1. /\ ~PendingAdd(d) /\ UNCHANGED draft
              /\ call'[y] = call[y]
            BY <2>3, <1>q, ReaddedAlone DEF Readded
        <3>2. Adder(y, d)
            BY <2>3, <3>1 DEF Adder
        <3> QED BY <3>1, <3>2 DEF PendingAdd
    <2>4. \A x \in {b, c} : \/ Adder(x, d)
                            \/ WriteAdd(x) /\ draft[x].doc = d
                            \/ Readded(x, d)
        BY <1>4, <1>q, AdderMoves
    <2> QED BY <1>4, <1>o, <2>1, <2>2, <2>3, <2>4
<1> HIDE DEF Old, New
<1> QED BY <1>1, <1>2, <1>3, <1>4 DEF AddedOnce


\* A document whose add is still to be queued is marked.
LEMMA PendingMarkedPreserved ==
    ASSUME ~Early, ClientFacts, ClientFacts', RecoveryIInv, NotStarted', AddedOnce, PendingMarked,
           ~IngestStore, [ClientNext]_allVars
    PROVE  PendingMarked'
<1>q. DraftFirst /\ NotStarted /\ ToRecover
    BY DEF RecoveryIInv
<1> SUFFICES ASSUME NEW c \in Calls, NEW d \in Docs, Adder(c, d)', doc'[d].here
             PROVE  doc'[d].adding
    BY DEF PendingMarked
<1>1. CASE Adder(c, d)
    <2>1. CASE \E b \in Calls : WriteAdd(b) /\ draft[b].doc = d
        BY <2>1, AddIsFirst
    <2>2. CASE doc[d].here
        <3>1. doc[d].adding
            BY <1>1, <2>2 DEF PendingMarked
        <3>2. ExecFails \/ ConfirmWrite => loop = "executing"
            BY DEF ExecFails, ConfirmWrite, Executing
        <3>3. ~(d = Target /\ head.op = "add" /\ loop = "executing")
            BY <1>1 DEF AddedOnce, HeadIs, Target
        <3> QED BY <2>2, <3>1, <3>2, <3>3, DocSteps DEF Kept, Edited, Merged, Refused, Confirmed
    <2> QED BY <2>1, <2>2, HereMoves
<1>2. CASE WriteAdd(c) /\ draft[c].doc = d
    BY <1>2, AddIsFirst
<1>3. CASE Readded(c, d)
    BY <1>3, <1>q, ReaddedAlone
<1> QED BY <1>1, <1>2, <1>3, <1>q, AdderMoves

\* The add of a document is the oldest of its entries but the deletes.
LEMMA AddsOldestPreserved ==
    ASSUME ~Early, ClientFacts, ClientFacts', RecoveryIInv, NotStarted', AddedOnce,
           PendingMarked, AddsOldest, ~IngestStore, [ClientNext]_allVars
    PROVE  AddsOldest'
<1>q. TypeOK /\ ClientTypeOK /\ [Next]_vars /\ DraftFirst /\ NotStarted /\ ToRecover
      /\ TypeOK' /\ IdsGrow /\ UpdatesAfterAdds /\ CallsKnow
    BY StepFacts DEF RecoveryIInv
<1>o. /\ \A c \in Calls, d \in Docs : Adder(c, d) => ~AddQueued(d) /\ ~HeadIs("add", d)
      /\ \A c \in Calls, d \in Docs : Adder(c, d) /\ doc[d].here => doc[d].adding
      /\ \A e, f \in outbox :
             e.op = "add" /\ f.op = "update" /\ e.doc = f.doc /\ doc[e.doc].here => e.id < f.id
      /\ \A f \in outbox, c \in Calls : f.op = "update" /\ doc[f.doc].here => ~Adder(c, f.doc)
      /\ \A d \in Docs : HeadIs("update", d) /\ doc[d].here =>
             ~AddQueued(d) /\ \A c \in Calls : ~Adder(c, d)
    BY DEF AddedOnce, PendingMarked, AddsOldest
<1>d. \A e \in outbox \cup outbox' : e.doc \in Docs /\ e.id \in Nat
    BY <1>q DEF TypeOK, Entry
<1>n. nextId \in Nat /\ \A e \in outbox : e.id < nextId
    BY <1>q DEF TypeOK, IdsGrow
<1> DEFINE Old(f) == \E e \in outbox : f.id = e.id /\ f.doc = e.doc /\ f.op = e.op
           New(f) == \E c \in Calls : /\ AddEntry(c) /\ f.id = nextId
                                      /\ f.doc = call[c].doc /\ f.op = call[c].op
<1>e. \A f \in outbox' : Old(f) \/ New(f)
    BY <1>q, EntriesStep
<1>a. ASSUME NEW f, New(f) PROVE f.op = "add" => \E c \in Calls : Adder(c, f.doc)
    BY <1>a DEF AddEntry, Adder
<1>k. ASSUME NEW c \in Calls, AddEntry(c) PROVE UNCHANGED vars => FALSE
    <2>1. nextId' = nextId + 1
        BY <1>k DEF AddEntry
    <2> QED BY <2>1, <1>n DEF vars
\* A document that has an entry, or is being executed, was here before.
<1>h. ASSUME NEW d \in Docs, doc'[d].here, ~doc[d].here PROVE Unheard(d) /\ UNCHANGED vars
    BY <1>h, HereMoves, AddIsFirst
<1>x. ASSUME NEW d \in Docs, doc'[d].here, \/ \E e \in outbox : e.doc = d
                                           \/ head.doc = d
                                           \/ \E c \in Calls : call[c].doc = d
      PROVE  doc[d].here
    BY <1>h, <1>x DEF Unheard
<1>r. ASSUME NEW c \in Calls, NEW d \in Docs, Adder(c, d)'
      PROVE  \/ Adder(c, d) /\ ~AddEntry(c)
             \/ Unheard(d) /\ UNCHANGED vars
             \/ /\ ~PendingAdd(d) /\ ~AddQueued(d) /\ doc[d].here /\ doc[d].adding
                /\ UNCHANGED <<doc, outbox>> /\ loop' = "off"
    <2>1. CASE WriteAdd(c) /\ draft[c].doc = d
        BY <2>1, AddIsFirst
    <2>2. CASE Readded(c, d)
        BY <2>2, <1>q, ReaddedAlone
    <2> QED BY <1>r, <1>q, <2>1, <2>2, AdderMoves
<1>1. ASSUME NEW e \in outbox', NEW f \in outbox', e.op = "add", f.op = "update", e.doc = f.doc,
             doc'[e.doc].here
      PROVE  e.id < f.id
    <2>1. CASE Old(e) /\ Old(f)
        <3>1. doc[e.doc].here
            BY <1>1, <1>x, <1>d, <2>1
        <3> QED BY <1>1, <1>o, <2>1, <3>1
    <2>2. CASE Old(e) /\ New(f)
        BY <1>n, <2>2
    <2>3. CASE New(e) /\ Old(f)
        <3>1. doc[f.doc].here
            BY <1>1, <1>x, <1>d, <2>3
        <3> QED BY <1>1, <1>a, <1>o, <2>3, <3>1
    <2>4. CASE New(e) /\ New(f)
        BY <1>1, <2>4 DEF AddEntry, AtHead
    <2> HIDE DEF Old, New
    <2> QED BY <1>e, <2>1, <2>2, <2>3, <2>4
<1>2. ASSUME NEW f \in outbox', NEW c \in Calls, f.op = "update", doc'[f.doc].here, Adder(c, f.doc)'
      PROVE  FALSE
    <2>1. CASE Old(f)
        <3>1. doc[f.doc].here
            BY <1>2, <1>x, <1>d, <2>1
        <3>2. ~Adder(c, f.doc) /\ ~Unheard(f.doc)
            BY <1>2, <1>o, <2>1, <3>1 DEF Unheard
        <3>3. doc[f.doc].adding => AddQueued(f.doc)
            BY <1>2, <2>1, <1>q DEF UpdatesAfterAdds, AddQueued
        <3> QED BY <1>2, <1>r, <1>d, <3>2, <3>3
    <2>2. CASE New(f)
        <3>1. PICK b \in Calls : AddEntry(b) /\ f.doc = call[b].doc /\ call[b].op = "update"
            BY <1>2, <2>2
        <3>2. doc[f.doc].here
            BY <1>2, <1>x, <1>d, <3>1
        <3>3. doc[f.doc].adding => AddQueued(f.doc)
            BY <3>1, <1>q DEF CallsKnow, CallKnows, AddEntry
        <3>4. ~Unheard(f.doc)
            BY <3>1 DEF Unheard
        <3> QED BY <1>2, <1>d, <1>o, <1>r, <3>2, <3>3, <3>4
    <2> HIDE DEF Old, New
    <2> QED BY <1>e, <2>1, <2>2
<1>3. ASSUME NEW d \in Docs, HeadIs("update", d)', doc'[d].here
      PROVE  ~AddQueued(d)' /\ \A c \in Calls : ~Adder(c, d)'
    <2>1. CASE HeadIs("update", d)
        <3>1. doc[d].here /\ head.doc = d
            BY <1>3, <1>x, <2>1 DEF HeadIs
        <3>2. ~AddQueued(d) /\ \A c \in Calls : ~Adder(c, d)
            BY <1>o, <2>1, <3>1
        <3>3. loop' # "off" /\ ~Unheard(d)
            BY <1>3, <3>1 DEF HeadIs, Unheard
        <3> QED BY <1>r, <1>q, <3>2, <3>3, AddsComeQueued
    <2>2. CASE head' \in Oldest(outbox) /\ head'.op = "update" /\ head'.doc = d /\ loop' = "got"
        <3>1. head' \in outbox /\ \A e \in outbox : head'.id <= e.id
            BY <2>2 DEF Oldest
        <3>2. doc[d].here
            BY <1>3, <1>x, <2>2, <3>1
        <3>3. \A c \in Calls : ~Adder(c, d)
            BY <1>o, <2>2, <3>1, <3>2
        <3>4. ~AddQueued(d)
            BY <1>o, <1>d, <2>2, <3>1, <3>2 DEF AddQueued
        <3>5. ~Unheard(d)
            BY <2>2, <3>1 DEF Unheard
        <3> QED BY <1>r, <1>q, <2>2, <3>3, <3>4, <3>5, AddsComeQueued
    <2> QED BY <1>3, <2>1, <2>2, <1>q, HeadComes DEF Ops
<1> HIDE DEF Old, New
<1> QED BY <1>1, <1>2, <1>3 DEF AddsOldest

\* The invariants about who adds a document hold in every reachable state.
LEMMA OnceInit == ClientInit => OnceIInv
<1> SUFFICES ASSUME ClientInit PROVE OnceIInv
    OBVIOUS
<1>1. /\ ingests = 0 /\ ingest.phase = "idle" /\ recovery.phase = "query" /\ recovery.todo = {}
      /\ intents = {} /\ outbox = {} /\ ~started /\ loop = "off"
    BY DEF ClientInit, Init, NoIngest, NoRecovery
<1>2. \A c \in Calls : draft[c].phase = "idle" /\ call[c].phase = "new"
    BY DEF ClientInit, Init, NoDraft, NoCall
<1>3. \A c \in Calls, d \in Docs : ~Adder(c, d)
    BY <1>2 DEF Adder
<1>4. RecoveryIInv
    BY <1>1, <1>2 DEF RecoveryIInv, NothingTold, DraftFirst, NotStarted, NoCallYet, IntentsOnce,
                      AddIntents, ToRecover
<1>5. AddedOnce /\ PendingMarked /\ AddsOldest
    BY <1>1, <1>3 DEF AddedOnce, PendingMarked, AddsOldest, HeadIs
<1> QED BY <1>4, <1>5 DEF OnceIInv

\* A document is added once in every behaviour that waits for #recover.
LEMMA OnceInvariance ==
    ASSUME ~Early
    PROVE  ClientSpec => []OnceIInv
<1>1. ClientFacts /\ ClientFacts' /\ OnceIInv /\ [ClientNext]_allVars => OnceIInv'
    <2> SUFFICES ASSUME ClientFacts, ClientFacts', OnceIInv, [ClientNext]_allVars
                 PROVE  OnceIInv'
        OBVIOUS
    <2>1. RecoveryIInv /\ AddedOnce /\ (ingests = 0 => PendingMarked /\ AddsOldest)
        BY DEF OnceIInv
    <2>2. NothingTold' /\ (ingests' = 0 => ingests = 0 /\ ~IngestStore)
        BY <2>1, ToldMoves DEF RecoveryIInv
    <2>3. NotStarted'
        BY <2>1, StepFacts, StartMoves DEF RecoveryIInv
    <2>4. DraftFirst' /\ NoCallYet'
        BY <2>1, CallsWait DEF RecoveryIInv
    <2>5. IntentsOnce' /\ ToRecover'
        BY <2>1, IntentsOncePreserved, ToRecoverPreserved DEF RecoveryIInv
    <2>6. AddedOnce'
        BY <2>1, <2>3, AddedOncePreserved
    <2>7. ingests' = 0 => PendingMarked' /\ AddsOldest'
        BY <2>1, <2>2, <2>3, PendingMarkedPreserved, AddsOldestPreserved
    <2> QED BY <2>2, <2>3, <2>4, <2>5, <2>6, <2>7 DEF OnceIInv, RecoveryIInv
<1> QED BY <1>1, OnceInit, ClientFactsHold, PTL DEF ClientSpec

-----------------------------------------------------------------------------
(* What failed for good is flagged on its document, or went with a later      *)
(* entry, while nothing is ingested and mutations wait for #recover.          *)

FailedCall(c) == draft[c].phase = "sent" /\ outcome[c] = "failed"
Shows(c) == draft[c].op # "delete" /\ doc[draft[c].doc].here /\ doc[draft[c].doc].val = c

\* A mutation that failed leaves no add of its document behind.
FailedAdds ==
    \A c \in Calls : FailedCall(c) /\ draft[c].op # "delete" /\ doc[draft[c].doc].here =>
        LET d == draft[c].doc IN ~AddQueued(d) /\ ~PendingAdd(d) /\ ~HeadIs("add", d)

\* The document says that the entry failed before the entry goes.
Failing ==
    \/ work.phase = "over" /\ work.status = "failed"
    \/ loop = "confirming" /\ result = "failed"
Flagged ==
    Failing /\ head.doc \in Docs /\ doc[head.doc].here =>
        /\ head.op \in doc[head.doc].errors
        /\ \A c \in Calls :
              /\ head.op = "update" /\ draft[c].phase = "sent"
              /\ call[c].created /\ call[c].target = head.id /\ doc[head.doc].val = c
              => ~doc[head.doc].prev

\* An update that is executed sends what is marked as unsent.
Updating ==
    /\ head.op = "update" /\ doc[Target].here
    /\ work.phase \in {"request", "answered", "pulling", "pulled", "rebasing", "confirming"}
UpdatesUnsent == Updating => doc[Target].prev

\* What is executed where; an add that is retried overwrites nothing.
WorkKinds ==
    /\ work.phase = "confirming" => head.op # "delete"
    /\ \/ work.phase \in {"pulling", "pulled", "rebasing"}
       \/ work.phase = "answered" /\ work.answer = "conflict"
       => head.op = "update"
    /\ work.phase = "request" /\ work.kind = "put" /\ head.op = "add" => work.base = 0

\* A value that failed and is still shown goes with the next update.
SentNow ==
    \A c \in Calls : Updating /\ FailedCall(c) /\ draft[c].doc = Target /\ Shows(c) =>
        /\ work.phase \in {"request", "answered", "pulling", "confirming"} => work.sent = c
        /\ \/ work.phase = "confirming"
           \/ work.phase = "answered" /\ work.answer \in {"ok", "nothing"}
           => c \in accepted \/ server[Target].status # "live"

ShownAs(c, prev) ==
    LET errors == doc[draft[c].doc].errors
    IN  \/ "add" \in errors
        \/ "update" \in errors /\ (~prev \/ ~call[c].created)
        \/ SentAfterAll(c)
\* A rebase does not bring back what failed unless it is flagged.
Rebasing ==
    \A c \in Calls :
        /\ FailedCall(c) /\ draft[c].op # "delete" /\ Updating /\ draft[c].doc = Target
        /\ work.phase = "rebasing" /\ work.write.do = "merge" /\ work.write.val = c
        => ShownAs(c, TRUE)
Shown == \A c \in Calls : FailedCall(c) /\ Shows(c) => ShownAs(c, doc[draft[c].doc].prev)
ShownDeletes ==
    \A c \in Calls : FailedCall(c) /\ draft[c].op = "delete" /\ doc[draft[c].doc].here =>
        "delete" \in doc[draft[c].doc].errors

ShowIInv ==
    ingests = 0 =>
        /\ FailedAdds /\ Flagged /\ UpdatesUnsent /\ WorkKinds
        /\ SentNow /\ Rebasing /\ Shown /\ ShownDeletes

\* A mutation fails when its entry is confirmed as failed.
LEMMA FailMoves ==
    ASSUME ClientFacts, ClientFacts', [ClientNext]_allVars, NEW c \in Calls, FailedCall(c)'
    PROVE  /\ draft'[c] = draft[c] /\ draft[c].phase = "sent"
           /\ draft[c].doc \in Docs /\ draft[c].op \in Ops
           /\ call[c].op = draft[c].op /\ call[c].doc = draft[c].doc
           /\ call'[c].created => call[c].created /\ call'[c].target = call[c].target
           /\ \/ FailedCall(c)
              \/ /\ ConfirmHead /\ result = "failed" /\ Waits(c) /\ call[c].target = head.id
                 /\ UNCHANGED <<call, clientVars, serverVars, restVars>>
<1>q. TypeOK /\ ClientTypeOK /\ CallsShaped /\ CallsMatch /\ DraftInputs /\ [Next]_vars
    BY StepFacts
<1>c. ~Crash /\ ~ClientCrash
    BY DEF FailedCall, ClientCrash, Crash
<1>1. \/ outcome[c] = "failed"
      \/ /\ ConfirmHead /\ result = "failed" /\ Waits(c) /\ call[c].target = head.id
         /\ UNCHANGED <<call, clientVars, serverVars, restVars>>
    <2> SUFFICES ASSUME outcome[c] # "failed"
                 PROVE  /\ ConfirmHead /\ result = "failed" /\ Waits(c)
                        /\ call[c].target = head.id
                        /\ UNCHANGED <<call, clientVars, serverVars, restVars>>
        OBVIOUS
    <2>o. outcome'[c] = "failed" /\ outcome' # outcome
        BY DEF FailedCall
    <2>1. ASSUME NEW b \in Calls, NEW op, NEW d, NEW u, Enqueue(b, op, d, u) PROVE FALSE
        BY <2>1, <2>o DEF Enqueue
    <2>v. ~UNCHANGED vars
        BY <2>o DEF vars
    <2>2. ~Mutations
        BY <2>1, <2>v, QueueHears DEF Send
    <2>3. ~Recovering
        <3>1. ~Start
            BY <2>o DEF Start
        <3> QED BY <2>1, <2>v, <3>1, RecoveriesAssumption, QueueHears DEF RecoverNext, Recovered
    <2>4. ~Execution
        <3>1. ~ExecuteRetries /\ \A s : ~ExecuteEnds(s)
            BY <2>o DEF ExecuteRetries, ExecuteEnds
        <3> QED BY <2>v, <3>1, QueueHears DEF ExecReturns, ExecRetries
    <2>5. ~Remote /\ ~UNCHANGED allVars
        BY <2>v, RemoteKeeps DEF allVars
    <2>6. QueueStep
        BY <1>c, <2>2, <2>3, <2>4, <2>5 DEF ClientNext
    <2>s. \A ids, s : outcome' = Settled(ids, s) => s = "failed" /\ Waits(c) /\ call[c].target \in ids
        BY <2>o DEF Settled
    <2>a. outcome' # AllSettled("queued")
        BY <2>o DEF AllSettled
    <2>7. ASSUME NEW b \in Calls, CallStep(b) PROVE FALSE
        <3>1. ~DecideDone(b)
            BY <2>o, <1>q DEF DecideDone, TypeOK
        <3>2. \A ids, s : s # "failed" => outcome' # Settled(ids, s)
            BY <2>s
        <3>3. ~StartJob(b) /\ ~Decide(b) /\ ~EndDrops(b) /\ ~AddEntry(b) /\ ~EndJob(b)
            BY <2>o, <3>1 DEF StartJob, Decide, EndDrops, AddEntry, EndJob
        <3>4. ~Drop(b)
            BY <3>2 DEF Drop
        <3>5. ~Resume(b) /\ ~Reported(b)
            BY <2>o, <3>2 DEF Resume, Reported
        <3> QED BY <2>7, <3>3, <3>4, <3>5 DEF CallStep
    <2>8. LoopStep
        BY <2>6, <2>7, <2>o DEF QueueStep, TimerFires, Wake
    <2>9. ConfirmHead
        BY <2>8, <2>o, <2>a DEF LoopStep, LockGranted, LockBusy, GiveUp, LoopRead, LoopIdle, LoopExecute,
                                PersistRetry, RetryReported, LoopEnd
    <2>10. outcome' = Settled({head.id}, result) /\ UNCHANGED call
        BY <2>9 DEF ConfirmHead
    <2> QED BY <2>6, <2>9, <2>10, <2>s DEF QueueStep
<1>2. draft'[c] = draft[c]
    <2>1. CASE outcome[c] = "failed"
        <3>1. ~Send(c)
            <4>1. call[c].phase # "new"
                BY <2>1, <1>q DEF CallsShaped, CallShaped, Undecided
            <4> QED BY <4>1 DEF Send, Enqueue
        <3> QED BY <3>1, <1>q, <1>c, DraftMoves DEF FailedCall
    <2> QED BY <1>1, <2>1
<1>3. draft[c].phase = "sent"
    BY <1>2 DEF FailedCall
<1>4. call'[c].created => call[c].created /\ call'[c].target = call[c].target
    <2>1. CASE outcome[c] = "failed"
        <3>1. ~AddEntry(c)
            BY <2>1, <1>q DEF CallsShaped, CallShaped, Undecided, AddEntry
        <3> QED BY <3>1, <1>q, CreatedStep
    <2> QED BY <1>1, <2>1
<1> QED BY <1>q, <1>1, <1>2, <1>3, <1>4 DEF FailedCall, CallsMatch, DraftInputs

\* What the server took it took, and what is gone stays gone.
LEMMA ServerKeeps ==
    ASSUME ClientTypeOK, Informed, [ClientNext]_allVars, NEW d \in Docs
    PROVE  /\ accepted \subseteq accepted'
           /\ server[d].status = "gone" => server'[d].status = "gone"
           /\ (\A lost \in BOOLEAN : ~ServerHandles(lost)) /\ server'[d].status = "live" =>
                  server[d].status = "live"
<1>t. server \in [Docs -> ServerDocs]
    BY DEF ClientTypeOK
<1>1. CASE UNCHANGED <<server, accepted>>
    BY <1>1
<1>2. ASSUME NEW lost \in BOOLEAN, ServerHandles(lost)
      PROVE  accepted \subseteq accepted'
             /\ (server[d].status = "gone" => server'[d].status = "gone")
    <2> DEFINE s == server[Target]
               applies == Applies(work.kind, work.base, s)
               new == [status |-> IF ~applies THEN s.status
                                  ELSE IF work.kind = "del" THEN "gone" ELSE "live",
                       val |-> IF applies /\ work.kind # "del" THEN work.sent ELSE s.val,
                       version |-> IF applies THEN s.version + 1 ELSE s.version]
    <2>1. server' = [server EXCEPT ![Target] = new] /\ accepted \subseteq accepted'
        BY <1>2 DEF ServerHandles
    <2>2. s.status = "gone" => ~applies
        <3>1. work.kind \in {"post", "put", "del"}
            BY <1>2 DEF ServerHandles, Informed, ClientTypeOK, Works
        <3> QED BY <3>1 DEF Applies
    <2>3. new.status = IF ~applies THEN s.status ELSE IF work.kind = "del" THEN "gone" ELSE "live"
        OBVIOUS
    <2>4. s.status = "gone" => new.status = "gone"
        BY <2>2, <2>3
    <2> HIDE DEF new
    <2>5. d = Target => server'[d] = new
        BY <2>1, <1>t
    <2>6. d # Target => server'[d] = server[d]
        BY <2>1, <1>t
    <2> QED BY <2>1, <2>4, <2>5, <2>6
<1>3. ASSUME NEW e \in Docs, NEW status \in {"live", "gone"}, TheirWrite(e, status)
      PROVE  /\ accepted \subseteq accepted'
             /\ server[d].status = "gone" => server'[d].status = "gone"
             /\ server'[d].status = "live" => server[d].status = "live"
    <2>1. server[e].status = "live" /\ UNCHANGED accepted
        BY <1>3 DEF TheirWrite
    <2>2. server'[d] = server[d] \/ e = d
        BY <1>3, <1>t DEF TheirWrite
    <2> QED BY <2>1, <2>2
<1> QED BY <1>1, <1>2, <1>3, ServerWriters


\* What an update that is executed carries from one step to the next.
UpdateStep ==
    \/ /\ ExecRead /\ doc[Target].prev
       /\ work'.phase = "request" /\ work'.sent = doc[Target].val
    \/ /\ Conflicts /\ work.phase = "answered"
       /\ work'.phase = "pulling" /\ work'.sent = work.sent
    \/ PullAnswered /\ work'.phase = "pulled"
    \/ /\ PullRead /\ work.phase = "pulled" /\ work'.phase = "rebasing"
       /\ doc[Target].prev /\ work'.write.do = "merge" => work'.write.val = doc[Target].val
    \/ \E lost \in BOOLEAN :
          /\ ServerHandles(lost) /\ work.phase = "request"
          /\ work'.phase = "answered" /\ work'.sent = work.sent
          /\ work'.answer = "ok" => {work.sent} \cap Calls \subseteq accepted'
          /\ work'.answer = "nothing" => server'[Target].status # "live"
    \/ \E answer \in {"network", "refused"} :
          /\ RequestFails(answer) /\ work.phase \in {"request", "pulling"}
          /\ work'.phase = "answered" /\ work'.sent = work.sent /\ work'.answer = answer
    \/ /\ ConfirmRead /\ work.phase = "answered" /\ work.answer \in {"ok", "nothing"}
       /\ work'.phase = "confirming"
       /\ doc[Target].val = work.sent => work'.sent = work.sent

\* How the server answers an update.
LEMMA UpdateAnswered ==
    ASSUME ClientTypeOK, WorkInputs, Informed, head.op = "update",
           NEW lost \in BOOLEAN, ServerHandles(lost)
    PROVE  /\ work.phase = "request" /\ work'.phase = "answered" /\ work'.sent = work.sent
           /\ work'.answer = "ok" => {work.sent} \cap Calls \subseteq accepted'
           /\ work'.answer = "nothing" => server'[Target].status # "live"
<1>t. work \in Works /\ server \in [Docs -> ServerDocs] /\ server[Target] \in ServerDocs
      /\ Target \in Docs
    BY DEF ClientTypeOK, ServerHandles, WorkInputs, Executing, Entry, Target
<1>k. work.phase = "request" /\ work.kind = "put"
    BY <1>t DEF ServerHandles, Informed, Works
<1> DEFINE s == server[Target]
           applies == Applies(work.kind, work.base, s)
           reply == Reply(work.kind, work.base, s)
<1>a. applies = (s.status = "live" /\ work.base \in {0, s.version})
    BY <1>k DEF Applies
<1>1. reply = "ok" => applies
    <2>1. CASE applies
        BY <2>1
    <2>2. CASE ~applies
        BY <1>a, <1>k, <2>2 DEF Reply
    <2> QED BY <2>1, <2>2
<1>2. reply = "nothing" => ~applies /\ s.status # "live"
    <2>1. applies => reply = "ok"
        BY <1>a, <1>k DEF Reply
    <2>2. ASSUME ~applies, s.status = "live" PROVE reply = "conflict"
        BY <1>a, <1>k, <2>2 DEF Reply
    <2> QED BY <2>1, <2>2
<1> HIDE DEF reply, applies
<1>3. \/ work' = [work EXCEPT !.phase = "answered", !.answer = "network"]
      \/ \E v : work' = [work EXCEPT !.phase = "answered", !.answer = reply, !.version = v]
    BY DEF ServerHandles, WorkStep, reply
<1>4. /\ work'.phase = "answered" /\ work'.sent = work.sent
      /\ work'.answer \in {"network", reply}
    BY <1>3, <1>t DEF Works
<1>5. applies => {work.sent} \cap Calls \subseteq accepted'
    BY <1>k DEF ServerHandles, applies
<1>6. ~applies => server'[Target].status = s.status
    <2> DEFINE new == [status |-> IF ~applies THEN s.status
                                  ELSE IF work.kind = "del" THEN "gone" ELSE "live",
                       val |-> IF applies /\ work.kind # "del" THEN work.sent ELSE s.val,
                       version |-> IF applies THEN s.version + 1 ELSE s.version]
    <2>1. server' = [server EXCEPT ![Target] = new]
        BY DEF ServerHandles, applies
    <2>2. ~applies => new.status = s.status
        OBVIOUS
    <2> HIDE DEF new
    <2> QED BY <2>1, <2>2, <1>t
<1> QED BY <1>k, <1>1, <1>2, <1>4, <1>5, <1>6

\* An update in execution was one before, and moved by one of these steps or not at all.
LEMMA UpdateSteps ==
    ASSUME ClientFacts, ClientFacts', [ClientNext]_allVars, ~IngestStore, Updating'
    PROVE  /\ head' = head /\ Target' = Target /\ Executing
           /\ head.op = "update" /\ Target \in Docs /\ doc[Target].here
           /\ \/ UNCHANGED work
              \/ UNCHANGED <<vars, doc, draft>> /\ UpdateStep
<1>q. /\ TypeOK /\ ClientTypeOK /\ WorkInputs /\ WorkInputs' /\ EndedAdd /\ EndedAdd'
      /\ Informed /\ [Next]_vars
    BY StepFacts
<1>t. work \in Works
    BY <1>q DEF ClientTypeOK
<1>p. /\ head'.op = "update" /\ doc'[head'.doc].here
      /\ work'.phase \in {"request", "answered", "pulling", "pulled", "rebasing", "confirming"}
    BY DEF Updating, Target
<1>e. Executing'
    BY <1>p, <1>q DEF EndedAdd
<1>h. head' = head
    BY <1>e, <1>q, LoopSteps DEF Executing
<1>w. UNCHANGED work \/ (Execution /\ UNCHANGED vars)
    <2>1. work' # NoWork
        BY <1>p DEF NoWork
    <2> QED BY <2>1, WorkMoves
<1>x. Executing
    <2>1. CASE UNCHANGED work
        BY <1>p, <1>q, <2>1 DEF EndedAdd
    <2>2. CASE UNCHANGED vars
        BY <1>e, <2>2 DEF Executing, vars
    <2> QED BY <1>w, <2>1, <2>2
<1>d. Target \in Docs /\ Target' = Target
    BY <1>h, <1>q, <1>x DEF WorkInputs, Entry, Target
<1>o. doc[Target].here
    <2>1. \A c \in Calls : WriteAdd(c) => draft[c].doc # Target
        BY AddIsFirst DEF Unheard, Target
    <2> QED BY <1>d, <1>h, <1>p, <2>1, HereMoves DEF Target
<1>u. head.op = "update"
    BY <1>h, <1>p
<1>s. ASSUME Execution, UNCHANGED vars
      PROVE  UNCHANGED <<vars, doc, draft>> /\ UpdateStep
    <2>n. \A r : work' = Over(r) => FALSE
        BY <1>p DEF Over
    <2>0. UNCHANGED draft
        BY <1>s, RecoveringKeeps, ExecutionKeeps
    <2>1. CASE ExecRead
        <3>1. /\ doc[Target].prev /\ work' = Request("put", doc[Target].version) /\ UNCHANGED doc
            BY <1>u, <2>1, <2>n DEF ExecRead, WorkStep
        <3>2. work'.phase = "request" /\ work'.sent = doc[Target].val
            BY <3>1, <1>t DEF Request, Works
        <3> QED BY <1>s, <2>0, <2>1, <3>1, <3>2 DEF UpdateStep
    <2>2. CASE AddAsUpdate
        BY <1>q, <1>u, <2>2 DEF AddAsUpdate, Informed
    <2>3. CASE Conflicts
        <3>1. /\ work' = [work EXCEPT !.phase = "pulling", !.tries = @ + 1] /\ UNCHANGED doc
              /\ work.phase = "answered"
            BY <2>3 DEF Conflicts, WorkStep
        <3>2. work'.phase = "pulling" /\ work'.sent = work.sent
            BY <3>1, <1>t DEF Works
        <3> QED BY <1>s, <2>0, <2>3, <3>1, <3>2 DEF UpdateStep
    <2>4. CASE PullAnswered
        <3>1. UNCHANGED doc /\ work'.phase = "pulled"
            BY <1>q, <2>4, WorkFields DEF PullAnswered
        <3> QED BY <1>s, <2>0, <2>4, <3>1 DEF UpdateStep
    <2>5. CASE PullRead
        <3> DEFINE change == AsChange(work.pulled, "modified")
                   local == doc[Target]
                   w == IF work.pulled.status = "live" THEN IngestWrite(change, local) ELSE NoWrite
        <3>1. /\ work' = [work EXCEPT !.phase = "rebasing", !.write = w] /\ UNCHANGED doc
              /\ work.phase = "pulled"
            BY <2>5 DEF PullRead, WorkStep
        <3>k. change.kind = "modified"
            BY DEF AsChange
        <3>2. ASSUME local.prev, w.do = "merge" PROVE w.val = local.val
            <4>1. w # NoWrite
                BY <3>2 DEF NoWrite
            <4>2. w = IngestWrite(change, local)
                BY <4>1
            <4> HIDE DEF change
            <4>3. IngestWrite(change, local) \in
                     {NoWrite, [do |-> "merge", val |-> local.val, version |-> change.version]}
                BY <3>2, <3>k DEF IngestWrite
            <4> QED BY <4>1, <4>2, <4>3
        <3> HIDE DEF w, local
        <3>3. work'.phase = "rebasing" /\ work'.write = w
            BY <3>1, <1>t DEF Works
        <3>4. doc[Target].prev /\ work'.write.do = "merge" => work'.write.val = doc[Target].val
            BY <3>2, <3>3 DEF local
        <3> QED BY <1>s, <2>0, <2>5, <3>1, <3>3, <3>4 DEF UpdateStep
    <2>6. CASE PullWrite \/ ExecFails \/ ConfirmWrite \/ ConfirmDelete \/ ExecReturns \/ ExecRetries
        BY <1>p, <1>q, <2>6, WorkFields
    <2>7. CASE ConfirmRead
        <3> DEFINE edited == doc[Target].prev /\ doc[Target].val # work.sent
                   sent == IF edited THEN doc[Target].val ELSE work.sent
        <3>1. /\ work' = [work EXCEPT !.phase = "confirming", !.unsent = edited, !.sent = sent]
              /\ work.phase = "answered" /\ work.answer \in {"ok", "nothing"} /\ UNCHANGED doc
            BY <2>7 DEF ConfirmRead, WorkStep
        <3>2. doc[Target].val = work.sent => sent = work.sent
            OBVIOUS
        <3> HIDE DEF edited, sent
        <3>3. work'.phase = "confirming" /\ work'.sent = sent
            BY <3>1, <1>t DEF Works
        <3> QED BY <1>s, <2>0, <2>7, <3>1, <3>2, <3>3 DEF UpdateStep
    <2>8. ASSUME NEW lost \in BOOLEAN, ServerHandles(lost)
          PROVE  UNCHANGED <<vars, doc, draft>> /\ UpdateStep
        <3>1. UNCHANGED doc
            BY <2>8 DEF ServerHandles
        <3> QED BY <1>q, <1>s, <1>u, <2>0, <2>8, <3>1, UpdateAnswered DEF UpdateStep
    <2>9. ASSUME NEW answer \in {"network", "refused"}, RequestFails(answer)
          PROVE  UNCHANGED <<vars, doc, draft>> /\ UpdateStep
        <3>1. /\ UNCHANGED doc /\ work.phase \in {"request", "pulling"}
              /\ work' = [work EXCEPT !.phase = "answered", !.answer = answer]
            BY <2>9 DEF RequestFails, WorkStep
        <3>2. work'.phase = "answered" /\ work'.sent = work.sent /\ work'.answer = answer
            BY <3>1, <1>t DEF Works
        <3> QED BY <1>s, <2>0, <2>9, <3>1, <3>2 DEF UpdateStep
    <2> QED BY <1>s, <2>1, <2>2, <2>3, <2>4, <2>5, <2>6, <2>7, <2>8, <2>9 DEF Execution
<1> QED BY <1>d, <1>h, <1>o, <1>s, <1>u, <1>w, <1>x


\* Conflicts and rebases belong to updates.
LEMMA WorkKindsPreserved ==
    ASSUME ClientFacts, ClientFacts', WorkKinds, [ClientNext]_allVars
    PROVE  WorkKinds'
<1>q. /\ ClientTypeOK /\ WorkInputs /\ EndedAdd' /\ Informed /\ [Next]_vars
    BY StepFacts
<1>t. work \in Works
    BY <1>q DEF ClientTypeOK
<1> USE DEF WorkKinds
<1>1. CASE work'.phase \in {"idle", "again", "over"}
    BY <1>1
<1>2. CASE UNCHANGED work
    <2>1. CASE work.phase = "idle"
        BY <1>2, <2>1
    <2>2. CASE work.phase # "idle"
        <3>1. Executing'
            BY <1>2, <1>q, <2>2 DEF EndedAdd
        <3>2. head' = head
            BY <3>1, <1>q, LoopSteps DEF Executing
        <3> QED BY <1>2, <3>2
    <2> QED BY <2>1, <2>2
<1>3. ASSUME Execution, UNCHANGED vars PROVE WorkKinds'
    <2>h. head' = head
        BY <1>3 DEF vars
    <2>1. CASE ExecRead
        <3>1. work'.phase = "request" => work'.kind # "put" \/ head.op # "add"
            BY <1>q, <2>1, WorkFields
        <3>2. work'.phase \in {"over", "request"}
            BY <1>q, <2>1, WorkFields
        <3> QED BY <2>h, <3>1, <3>2
    <2>2. CASE AddAsUpdate
        <3>1. work' = [work EXCEPT !.phase = "request", !.kind = "put", !.base = 0]
            BY <2>2 DEF AddAsUpdate, WorkStep
        <3>2. work'.phase = "request" /\ work'.base = 0
            BY <3>1, <1>t DEF Works
        <3> QED BY <3>2
    <2>3. CASE Conflicts
        <3>1. work.phase = "answered" /\ work.answer = "conflict"
            BY <2>3 DEF Conflicts
        <3>2. work'.phase = "pulling"
            BY <1>q, <2>3, WorkFields
        <3> QED BY <2>h, <3>1, <3>2
    <2>4. CASE PullAnswered \/ PullRead
        <3>1. work.phase \in {"pulling", "pulled"}
            BY <2>4 DEF PullAnswered, PullRead
        <3>2. work'.phase \in {"pulled", "rebasing"}
            BY <1>q, <2>4, WorkFields
        <3> QED BY <2>h, <3>1, <3>2
    <2>5. CASE PullWrite \/ ExecFails \/ ConfirmWrite \/ ConfirmDelete \/ ExecReturns \/ ExecRetries
        BY <1>1, <1>q, <2>5, WorkFields
    <2>6. CASE ConfirmRead
        <3>1. head.op # "delete"
            BY <2>6 DEF ConfirmRead
        <3>2. work'.phase = "confirming"
            BY <1>q, <2>6, WorkFields
        <3> QED BY <2>h, <3>1, <3>2
    <2>7. ASSUME NEW lost \in BOOLEAN, ServerHandles(lost) PROVE WorkKinds'
        <3>1. work.phase = "request"
            BY <2>7 DEF ServerHandles
        <3>2. /\ work'.phase = "answered"
              /\ work'.answer \in {"network", Reply(work.kind, work.base, server[Target])}
            BY <1>q, <2>7, WorkFields
        <3>3. ASSUME Reply(work.kind, work.base, server[Target]) = "conflict"
              PROVE  head.op = "update"
            <4>1. work.kind \in {"post", "put", "del"}
                BY <3>1, <1>q, <1>t DEF Informed, Works
            <4>2. work.kind = "put" /\ work.base # 0
                BY <3>3, <4>1 DEF Reply, Applies
            <4> QED BY <3>1, <4>2, <1>q DEF Informed
        <3> QED BY <2>h, <3>2, <3>3
    <2>8. ASSUME NEW answer \in {"network", "refused"}, RequestFails(answer) PROVE WorkKinds'
        <3>1. work'.phase = "answered" /\ work'.answer # "conflict"
            BY <1>q, <2>8, WorkFields
        <3> QED BY <3>1
    <2> QED BY <1>3, <2>1, <2>2, <2>3, <2>4, <2>5, <2>6, <2>7, <2>8 DEF Execution
<1>4. CASE work' = NoWork
    BY <1>1, <1>4 DEF NoWork
<1> QED BY <1>2, <1>3, <1>4, WorkMoves

\* The mark goes with the end of the execution, not before.
LEMMA UpdatesUnsentPreserved ==
    ASSUME ClientFacts, ClientFacts', UpdatesUnsent, ~IngestStore, [ClientNext]_allVars
    PROVE  UpdatesUnsent'
<1> SUFFICES ASSUME Updating' PROVE doc'[Target'].prev
    BY DEF UpdatesUnsent
<1>1. /\ head' = head /\ Target' = Target /\ Executing
      /\ head.op = "update" /\ Target \in Docs /\ doc[Target].here
      /\ UNCHANGED work \/ (UNCHANGED doc /\ UpdateStep)
    BY UpdateSteps
<1>2. work'.phase \notin {"again", "over", "idle"} /\ doc'[Target].here
    BY <1>1 DEF Updating
<1>3. ASSUME UNCHANGED doc, UpdateStep PROVE doc[Target].prev
    <2>1. work.phase \in {"request", "answered", "pulling", "pulled"} \/ doc[Target].prev
        BY <1>3 DEF UpdateStep, PullAnswered
    <2> QED BY <1>1, <2>1 DEF UpdatesUnsent, Updating
<1>4. ASSUME UNCHANGED work PROVE doc'[Target].prev
    <2>1. doc[Target].prev
        BY <1>1, <1>4 DEF UpdatesUnsent, Updating
    <2>2. ~PullWrite /\ ~ExecFails /\ ~ConfirmWrite
        BY <1>2, StepFacts, WorkFields
    <2>3. \/ Kept(doc[Target], doc'[Target])
          \/ \E c \in Calls : Edited(c, doc[Target], doc'[Target])
        BY <1>1, <1>2, <2>2, DocSteps
    <2> QED BY <2>1, <2>3 DEF Kept, Edited
<1> QED BY <1>1, <1>3, <1>4

\* What is on its way is what failed, while the document shows it.
LEMMA SentNowPreserved ==
    ASSUME ClientFacts, ClientFacts', SentNow, ~IngestStore, [ClientNext]_allVars
    PROVE  SentNow'
<1> SUFFICES ASSUME NEW c \in Calls, Updating', FailedCall(c)', draft'[c].doc = Target', Shows(c)'
             PROVE  /\ work'.phase \in {"request", "answered", "pulling", "confirming"} =>
                          work'.sent = c
                    /\ \/ work'.phase = "confirming"
                       \/ work'.phase = "answered" /\ work'.answer \in {"ok", "nothing"}
                       => c \in accepted' \/ server'[Target'].status # "live"
    BY DEF SentNow
<1>q. ClientTypeOK /\ Informed
    BY StepFacts
<1>1. /\ head' = head /\ Target' = Target /\ Executing
      /\ head.op = "update" /\ Target \in Docs /\ doc[Target].here
      /\ UNCHANGED work \/ (UNCHANGED <<doc, draft>> /\ UpdateStep)
    BY UpdateSteps
<1>2. draft'[c] = draft[c] /\ draft[c].phase = "sent" /\ FailedCall(c)
    <2>1. ~ConfirmHead
        BY <1>1 DEF Executing, ConfirmHead
    <2> QED BY <2>1, FailMoves
<1>3. draft[c].doc = Target /\ draft[c].op # "delete" /\ doc'[Target].here /\ doc'[Target].val = c
    BY <1>1, <1>2 DEF Shows
<1>s. /\ accepted \subseteq accepted'
      /\ (\A lost \in BOOLEAN : ~ServerHandles(lost)) /\ server'[Target].status = "live" =>
             server[Target].status = "live"
    BY <1>1, <1>q, ServerKeeps
<1>o. ASSUME doc[Target].val = c, work.phase \in {"request", "answered", "pulling", "confirming"}
      PROVE  /\ work.sent = c
             /\ \/ work.phase = "confirming"
                \/ work.phase = "answered" /\ work.answer \in {"ok", "nothing"}
                => c \in accepted \/ server[Target].status # "live"
    BY <1>1, <1>2, <1>3, <1>o DEF SentNow, Updating, Shows
<1>4. ASSUME UNCHANGED work
      PROVE  /\ work'.phase \in {"request", "answered", "pulling", "confirming"} =>
                    work'.sent = c
             /\ \/ work'.phase = "confirming"
                \/ work'.phase = "answered" /\ work'.answer \in {"ok", "nothing"}
                => c \in accepted' \/ server'[Target].status # "live"
    <2>1. work'.phase \notin {"again", "over", "idle"}
        BY DEF Updating
    <2>2. ~PullWrite /\ ~ExecFails /\ ~ConfirmWrite
        BY <2>1, <1>q, WorkFields
    <2>3. \A b \in Calls : WriteUpdate(b) => b # c
        BY <1>2 DEF WriteUpdate
    <2>4. doc[Target].val = c
        BY <1>1, <1>3, <2>2, <2>3, DocSteps DEF Kept, Edited
    <2>5. \A lost \in BOOLEAN : ServerHandles(lost) => work.phase = "request" /\ work'.phase = "answered"
        BY <1>q, WorkFields DEF ServerHandles
    <2> QED BY <1>4, <1>o, <1>s, <2>4, <2>5
<1>5. ASSUME UNCHANGED doc, UpdateStep
      PROVE  /\ work'.phase \in {"request", "answered", "pulling", "confirming"} =>
                    work'.sent = c
             /\ \/ work'.phase = "confirming"
                \/ work'.phase = "answered" /\ work'.answer \in {"ok", "nothing"}
                => c \in accepted' \/ server'[Target].status # "live"
    <2>1. doc[Target].val = c
        BY <1>3, <1>5
    <2>2. CASE ConfirmRead /\ work.phase = "answered" /\ work.answer \in {"ok", "nothing"}
               /\ work'.phase = "confirming"
               /\ (doc[Target].val = work.sent => work'.sent = work.sent)
        <3>1. \A lost \in BOOLEAN : ~ServerHandles(lost)
            BY <2>2 DEF ServerHandles
        <3> QED BY <1>o, <1>s, <2>1, <2>2, <3>1
    <2>3. CASE \E lost \in BOOLEAN :
                  /\ ServerHandles(lost) /\ work.phase = "request"
                  /\ work'.phase = "answered" /\ work'.sent = work.sent
                  /\ work'.answer = "ok" => {work.sent} \cap Calls \subseteq accepted'
                  /\ work'.answer = "nothing" => server'[Target].status # "live"
        BY <1>o, <2>1, <2>3
    <2>4. CASE \E answer \in {"network", "refused"} :
                  /\ RequestFails(answer) /\ work.phase \in {"request", "pulling"}
                  /\ work'.phase = "answered" /\ work'.sent = work.sent /\ work'.answer = answer
        BY <1>o, <2>1, <2>4
    <2> QED BY <1>5, <1>o, <2>1, <2>2, <2>3, <2>4 DEF UpdateStep
<1> QED BY <1>1, <1>4, <1>5


\* What an execution came to is kept until it is confirmed.
LEMMA ResultKept ==
    ASSUME [Next]_vars, loop = "confirming", loop' = "confirming"
    PROVE  UNCHANGED result
<1>1. CASE \E c \in Calls, op \in Ops, d \in Docs, u \in BOOLEAN : Enqueue(c, op, d, u)
    BY <1>1 DEF Enqueue
<1>2. CASE \E c \in Calls : CallStep(c)
    BY <1>2 DEF CallStep, StartJob, Decide, Drop, EndDrops, AddEntry, EndJob, Resume, Reported
<1>3. CASE LoopStep
    BY <1>3 DEF LoopStep, LockGranted, LockBusy, GiveUp, LoopRead, LoopIdle, LoopExecute, ConfirmHead,
                PersistRetry, RetryReported, LoopEnd
<1>4. CASE ExecuteRetries \/ \E s \in {"done", "failed"} : ExecuteEnds(s)
    BY <1>4 DEF ExecuteRetries, ExecuteEnds
<1>5. CASE Environment
    BY <1>5 DEF Environment, Start, Stop, Wake, TimerFires, Flush, Cleared, OtherTakesLock,
                OtherExecutes, OtherConfirms, OtherReleasesLock, Crash
<1> QED BY <1>1, <1>2, <1>3, <1>4, <1>5 DEF Next, vars

\* Nothing comes to fail but by ExecFails.
LEMMA FailingMoves ==
    ASSUME ClientFacts, ClientFacts', [ClientNext]_allVars, Failing'
    PROVE  head' = head /\ (ExecFails \/ (Failing /\ ~PullWrite /\ ~ConfirmWrite))
<1>q. /\ TypeOK /\ ClientTypeOK /\ WorkInputs /\ EndedAdd /\ EndedAdd' /\ [Next]_vars
    BY StepFacts
<1>t. work \in Works
    BY <1>q DEF ClientTypeOK
<1>f. Failing => ~PullWrite /\ ~ConfirmWrite
    BY DEF Failing, PullWrite, ConfirmWrite, Executing
<1>1. CASE work'.phase = "over" /\ work'.status = "failed"
    <2>1. head' = head
        BY <1>1, <1>q, LoopSteps DEF EndedAdd, Executing
    <2>2. CASE UNCHANGED work
        BY <1>1, <1>f, <2>1, <2>2 DEF Failing
    <2>3. CASE Execution
        <3>d. Over("done").status # "failed"
            BY DEF Over
        <3>1. ~ConfirmWrite /\ ~ConfirmDelete
            BY <1>1, <3>d DEF ConfirmWrite, ConfirmDelete, WorkStep
        <3>2. ~ExecRead
            <4>1. \A kind, base : Request(kind, base).phase = "request"
                BY <1>t DEF Request, Works
            <4> QED BY <1>1, <3>d, <4>1 DEF ExecRead, WorkStep
        <3>3. \/ ExecFails
              \/ work'.phase # "over"
            BY <1>q, <2>3, <3>1, <3>2, WorkFields DEF Execution
        <3> QED BY <1>1, <2>1, <3>3
    <2>4. work' # NoWork
        BY <1>1 DEF NoWork
    <2> QED BY <2>2, <2>3, <2>4, WorkMoves
<1>2. CASE loop' = "confirming" /\ result' = "failed"
    <2>1. head' = head /\ (loop = "confirming" \/ \E s \in {"done", "failed"} : ExecuteEnds(s))
        BY <1>2, <1>q, LoopSteps
    <2>2. CASE loop = "confirming"
        BY <1>2, <1>f, <1>q, <2>1, <2>2, ResultKept DEF Failing
    <2>3. ASSUME NEW s \in {"done", "failed"}, ExecuteEnds(s) PROVE Failing
        <3>1. loop = "executing" /\ result' = s
            BY <2>3 DEF ExecuteEnds
        <3>2. ~UNCHANGED vars /\ ~ExecRetries /\ ~ClientCrash
            BY <1>2, <3>1 DEF vars, ExecRetries, ExecuteRetries, ClientCrash, Crash
        <3>3. ExecReturns
            BY <2>3, <3>2, WorkMoves
        <3>4. work.phase = "over" /\ result' = work.status
            BY <3>3 DEF ExecReturns, ExecuteEnds
        <3> QED BY <1>2, <3>4 DEF Failing
    <2> QED BY <1>f, <2>1, <2>2, <2>3
<1> QED BY <1>1, <1>2 DEF Failing

\* The flag stays until the entry is confirmed.
LEMMA FlaggedPreserved ==
    ASSUME ClientFacts, ClientFacts', Flagged, ~IngestStore, [ClientNext]_allVars
    PROVE  Flagged'
<1>1. SUFFICES ASSUME Failing', head'.doc \in Docs, doc'[head'.doc].here
               PROVE  /\ head'.op \in doc'[head'.doc].errors
                      /\ \A c \in Calls :
                            /\ head'.op = "update" /\ draft'[c].phase = "sent"
                            /\ call'[c].created /\ call'[c].target = head'.id
                            /\ doc'[head'.doc].val = c
                            => ~doc'[head'.doc].prev
    BY DEF Flagged
<1>q. /\ TypeOK /\ ClientTypeOK /\ WorkInputs /\ CallsShaped /\ IdsGrow /\ [Next]_vars
    BY StepFacts
<1>2. head' = head /\ (ExecFails \/ (Failing /\ ~PullWrite /\ ~ConfirmWrite))
    BY <1>1, FailingMoves
<1>3. head.doc \in Docs /\ doc'[head.doc].here
    BY <1>1, <1>2
<1>4. doc[head.doc].here
    <2>1. \A c \in Calls : WriteAdd(c) => draft[c].doc # head.doc
        BY AddIsFirst DEF Unheard
    <2> QED BY <1>3, <2>1, HereMoves
<1>5. CASE ExecFails
    <2>1. Refused(doc[head.doc], doc'[head.doc])
        BY <1>4, <1>5, <1>q, RefusedHere DEF Target
    <2> QED BY <1>2, <2>1 DEF Refused
<1>6. CASE Failing /\ ~ExecFails /\ ~PullWrite /\ ~ConfirmWrite
    <2>1. \/ Kept(doc[head.doc], doc'[head.doc])
          \/ \E c \in Calls : WriteUpdate(c) /\ Edited(c, doc[head.doc], doc'[head.doc])
        BY <1>3, <1>4, <1>6, DocSteps
    <2>2. head.op \in doc'[head.doc].errors
        BY <1>3, <1>4, <1>6, <2>1 DEF Flagged, Kept, Edited
    <2>3. ASSUME NEW c \in Calls, head.op = "update", draft'[c].phase = "sent", call'[c].created,
                 call'[c].target = head.id, doc'[head.doc].val = c
          PROVE  ~doc'[head.doc].prev
        <3>1. call[c].created /\ call[c].target = head.id
            <4>1. head.id < nextId
                BY <1>q DEF IdsGrow
            <4>2. head.id # nextId
                BY <4>1, <1>q DEF TypeOK, Entry, NoEntry
            <4> QED BY <2>3, <4>2, <1>q, CreatedStep
        <3>2. ~Send(c) /\ ~ClientCrash
            <4>1. call[c].phase # "new"
                BY <3>1, <1>q DEF CallsShaped, CallShaped, Undecided
            <4> QED BY <2>3, <4>1, CrashedDrafts DEF Send, Enqueue
        <3>3. draft'[c] = draft[c]
            BY <2>3, <3>2, <1>q, DraftMoves
        <3>4. ~WriteUpdate(c)
            BY <2>3, <3>3 DEF WriteUpdate
        <3>5. Kept(doc[head.doc], doc'[head.doc])
            BY <2>1, <2>3, <3>4 DEF Edited
        <3> QED BY <1>3, <1>4, <1>6, <2>3, <3>1, <3>3, <3>5 DEF Flagged, Kept
    <2> QED BY <1>2, <2>2, <2>3
<1> QED BY <1>2, <1>5, <1>6

\* No add comes after a mutation that failed.
LEMMA FailedAddsPreserved ==
    ASSUME ClientFacts, ClientFacts', DraftFirst, AddedOnce, AddsOldest, FailedAdds, ~Early,
           ~IngestStore, [ClientNext]_allVars
    PROVE  FailedAdds'
<1>1. SUFFICES ASSUME NEW c \in Calls, NEW d \in Docs, FailedCall(c)', draft'[c].op # "delete",
                      draft'[c].doc = d, doc'[d].here
               PROVE  ~AddQueued(d)' /\ ~PendingAdd(d)' /\ ~HeadIs("add", d)'
    <2>1. ASSUME NEW c \in Calls, FailedCall(c)' PROVE draft'[c].doc \in Docs
        BY <2>1, FailMoves
    <2> QED BY <1>1, <2>1 DEF FailedAdds
<1>q. /\ TypeOK /\ TargetsMeant /\ RecoveredFirst /\ [Next]_vars /\ head \in Entry \cup {NoEntry}
    BY StepFacts DEF TypeOK
<1>2. /\ draft[c].phase = "sent" /\ draft[c].doc = d /\ draft[c].op # "delete"
      /\ call[c].doc = d /\ call[c].op = draft[c].op
      /\ \/ FailedCall(c)
         \/ /\ ConfirmHead /\ Waits(c) /\ call[c].target = head.id
            /\ UNCHANGED <<call, clientVars, serverVars, restVars>>
    BY <1>1, FailMoves
<1>3. \A b \in Calls : WriteAdd(b) => draft[b].doc # d
    <2>1. ASSUME Unheard(d) PROVE FALSE
        BY <1>2, <2>1 DEF Unheard, IntendsAdd
    <2> QED BY <2>1, AddIsFirst
<1>4. doc[d].here
    BY <1>1, <1>3, HereMoves
<1>5. CASE FailedCall(c)
    <2>1. ~AddQueued(d) /\ ~HeadIs("add", d) /\ \A b \in Calls : ~Adder(b, d)
        BY <1>2, <1>4, <1>5 DEF FailedAdds, PendingAdd
    <2>2. ~AddQueued(d)'
        BY <1>q, <2>1, AddsComeQueued
    <2>3. ~HeadIs("add", d)'
        <3>1. ~\E e \in Oldest(outbox) : e.op = "add" /\ e.doc = d
            BY <2>1 DEF Oldest, AddQueued
        <3>2. "add" \in Ops
            BY DEF Ops
        <3> QED BY <1>q, <2>1, <3>1, <3>2, HeadComes
    <2>4. ASSUME NEW b \in Calls, Adder(b, d)' PROVE FALSE
        <3>1. ~Readded(b, d)
            BY <1>2, <1>q DEF Readded, RecoveredFirst
        <3> QED BY <1>3, <2>1, <2>4, <3>1, AdderMoves
    <2> QED BY <2>2, <2>3, <2>4 DEF PendingAdd
<1>6. CASE ConfirmHead /\ Waits(c) /\ call[c].target = head.id
           /\ UNCHANGED <<call, clientVars, serverVars, restVars>>
    <2>1. MeantBy(c, head)
        BY <1>6, <1>q DEF TargetsMeant, Waits
    <2>2. head.doc = d /\ head.op \in {"add", "update"}
        BY <1>2, <1>q, <2>1, DocsAssumption DEF MeantBy, Entry, NoEntry, Ops
    <2>3. loop = "confirming" /\ outbox' = Without(outbox, head.id)
          /\ loop' \in {"ending", "reading"}
        BY <1>6 DEF ConfirmHead
    <2>4. (\A b \in Calls : ~Adder(b, d)) /\ \A e \in outbox : e.op = "add" /\ e.doc = d => e.id = head.id
        <3>1. CASE head.op = "add"
            BY <2>2, <2>3, <3>1 DEF AddedOnce, HeadIs
        <3>2. CASE head.op = "update"
            <4>1. HeadIs("update", d)
                BY <2>2, <2>3, <3>2 DEF HeadIs
            <4> QED BY <1>4, <4>1 DEF AddsOldest, AddQueued
        <3> QED BY <2>2, <3>1, <3>2
    <2>5. \A b \in Calls : Adder(b, d)' => Adder(b, d)
        BY <1>6 DEF Adder
    <2>6. ~AddQueued(d)'
        BY <2>3, <2>4 DEF AddQueued, Without
    <2> QED BY <2>3, <2>4, <2>5, <2>6 DEF PendingAdd, HeadIs
<1> QED BY <1>2, <1>5, <1>6


\* What a document says of a mutation that failed stays said while its flags do.
LEMMA SentAfterAllStays ==
    ASSUME ClientFacts, ClientFacts', [ClientNext]_allVars, NEW c \in Calls, FailedCall(c)',
           SentAfterAll(c)
    PROVE  SentAfterAll(c)'
<1>1. /\ draft'[c] = draft[c] /\ draft[c].doc \in Docs
      /\ call'[c].created => call[c].created
    BY FailMoves
<1>2. /\ accepted \subseteq accepted'
      /\ server[draft[c].doc].status = "gone" => server'[draft[c].doc].status = "gone"
    BY <1>1, StepFacts, ServerKeeps
<1> QED BY <1>1, <1>2 DEF SentAfterAll

\* A document whose mutation was sent is not added now.
LEMMA SentIsHeard ==
    ASSUME ClientFacts, ClientFacts', [ClientNext]_allVars, ~IngestStore,
           NEW c \in Calls, draft[c].phase = "sent", draft[c].doc \in Docs,
           doc'[draft[c].doc].here
    PROVE  doc[draft[c].doc].here
<1>1. \A b \in Calls : WriteAdd(b) => draft[b].doc # draft[c].doc
    <2>1. ASSUME Unheard(draft[c].doc) PROVE FALSE
        BY <2>1 DEF Unheard, IntendsAdd
    <2> QED BY <2>1, AddIsFirst
<1> QED BY <1>1, HereMoves

\* Whatever changes the document leaves a flag on what failed, or sent it.
LEMMA ShownPreserved ==
    ASSUME ClientFacts, ClientFacts', ~IngestStore, [ClientNext]_allVars,
           FailedAdds, Flagged, UpdatesUnsent, WorkKinds, SentNow, Rebasing, Shown
    PROVE  Shown'
<1>1. SUFFICES ASSUME NEW c \in Calls, NEW d \in Docs, FailedCall(c)', draft'[c].doc = d,
                      draft'[c].op # "delete", doc'[d].here, doc'[d].val = c
               PROVE  \/ "add" \in doc'[d].errors
                      \/ "update" \in doc'[d].errors /\ (~doc'[d].prev \/ ~call'[c].created)
                      \/ SentAfterAll(c)'
    <2>1. ASSUME NEW c \in Calls, FailedCall(c)' PROVE draft'[c].doc \in Docs
        BY <2>1, FailMoves
    <2> QED BY <1>1, <2>1 DEF Shown, Shows, ShownAs
<1>q. /\ TypeOK /\ TargetsMeant /\ ClientTypeOK /\ WorkInputs /\ KnownOrAdding /\ HeadAfterAdd
      /\ head \in Entry \cup {NoEntry}
    BY StepFacts DEF TypeOK
<1>2. /\ draft[c].phase = "sent" /\ draft[c].doc = d /\ draft[c].op # "delete"
      /\ call[c].doc = d /\ call[c].op = draft[c].op
      /\ call'[c].created => call[c].created /\ call'[c].target = call[c].target
      /\ \/ FailedCall(c)
         \/ /\ ConfirmHead /\ result = "failed" /\ Waits(c) /\ call[c].target = head.id
            /\ UNCHANGED <<call, clientVars, serverVars, restVars>>
    BY <1>1, FailMoves
<1>3. doc[d].here
    BY <1>1, <1>2, SentIsHeard
<1>k. SentAfterAll(c) => SentAfterAll(c)'
    BY <1>1, SentAfterAllStays
<1>4. CASE ConfirmHead /\ result = "failed" /\ Waits(c) /\ call[c].target = head.id
           /\ UNCHANGED <<call, clientVars, serverVars, restVars>>
    <2>1. MeantBy(c, head)
        BY <1>4, <1>q DEF TargetsMeant, Waits
    <2>2. head.doc = d /\ head.op \in {"add", "update"}
        BY <1>2, <1>q, <2>1, DocsAssumption DEF MeantBy, Entry, NoEntry, Ops
    <2>3. Failing
        BY <1>4 DEF ConfirmHead, Failing
    <2>4. UNCHANGED <<doc, draft, call>>
        BY <1>4
    <2>5. /\ head.op \in doc[d].errors
          /\ head.op = "update" /\ call[c].created => ~doc[d].prev
        BY <1>1, <1>2, <1>3, <1>4, <2>2, <2>3, <2>4 DEF Flagged
    <2> QED BY <2>2, <2>4, <2>5
<1>5. CASE FailedCall(c)
    <2>s. ASSUME doc[d].val = c
          PROVE  \/ "add" \in doc[d].errors
                 \/ "update" \in doc[d].errors /\ (~doc[d].prev \/ ~call[c].created)
                 \/ SentAfterAll(c)
        BY <1>2, <1>3, <1>5, <2>s DEF Shown, Shows, ShownAs
    <2>1. CASE Kept(doc[d], doc'[d])
        BY <1>1, <1>2, <1>k, <2>1, <2>s DEF Kept
    <2>2. ASSUME NEW b \in Calls, WriteUpdate(b), Edited(b, doc[d], doc'[d]) PROVE FALSE
        BY <1>1, <1>2, <2>2 DEF Edited, WriteUpdate
    <2>3. CASE d = Target /\ PullWrite /\ Merged(doc[d], doc'[d])
        <3>1. CASE doc'[d].val = doc[d].val
            BY <1>1, <1>2, <1>k, <2>3, <2>s, <3>1 DEF Merged
        <3>2. CASE work.write.do = "merge" /\ doc'[d].val = work.write.val
            <4>1. work.phase = "rebasing"
                BY <2>3 DEF PullWrite
            <4>2. Updating
                BY <1>3, <2>3, <4>1 DEF Updating, WorkKinds
            <4>3. ShownAs(c, TRUE)
                BY <1>1, <1>2, <1>5, <2>3, <3>2, <4>1, <4>2 DEF Rebasing
            <4> QED BY <1>2, <1>k, <2>3, <4>3 DEF ShownAs, Merged
        <3> QED BY <2>3, <3>1, <3>2 DEF Merged
    <2>4. CASE d = Target /\ ExecFails /\ Refused(doc[d], doc'[d])
        <3>1. head.op \in {"add", "update", "delete"}
            BY <1>q, <2>4 DEF ExecFails, WorkInputs, Entry, Ops
        <3> QED BY <1>1, <1>2, <1>k, <2>4, <2>s, <3>1 DEF Refused
    <2>5. CASE d = Target /\ ConfirmWrite /\ Confirmed(doc[d], doc'[d])
        <3>1. work.phase = "confirming" /\ loop = "executing"
            BY <2>5 DEF ConfirmWrite, Executing
        <3>2. head.op # "add"
            BY <1>2, <1>3, <1>5, <2>5, <3>1 DEF FailedAdds, HeadIs, Target
        <3>3. head.op = "update"
            BY <1>q, <2>5, <3>1, <3>2 DEF WorkKinds, WorkInputs, Executing, Entry, Ops
        <3>4. Updating /\ doc[d].prev
            BY <1>3, <2>5, <3>1, <3>3 DEF Updating, UpdatesUnsent
        <3>5. doc[d].val = c /\ doc'[d].errors = doc[d].errors \ {"update"}
            BY <1>1, <2>5, <3>3 DEF Confirmed
        <3>6. c \in accepted \/ server[d].status # "live"
            BY <1>2, <1>3, <1>5, <2>5, <3>1, <3>4, <3>5 DEF SentNow, Shows
        <3>7. server[d].status # "absent" \/ "add" \in doc[d].errors
            <4>1. ~doc[d].adding
                BY <1>q, <2>5, <3>1, <3>3 DEF HeadAfterAdd, Target, NoEntry
            <4> QED BY <1>3, <1>q, <4>1 DEF KnownOrAdding, Known
        <3>8. server[d].status \in {"absent", "live", "gone"}
            BY <1>q DEF ClientTypeOK, ServerDocs
        <3>9. CASE "add" \in doc[d].errors
            BY <3>5, <3>9
        <3>10. CASE "add" \notin doc[d].errors
            <4>1. ~call[c].created
                BY <2>s, <3>4, <3>5, <3>10 DEF SentAfterAll
            <4> QED BY <1>2, <1>k, <3>6, <3>7, <3>8, <3>10, <4>1 DEF SentAfterAll
        <3> QED BY <3>9, <3>10
    <2> QED BY <1>1, <1>3, <2>1, <2>2, <2>3, <2>4, <2>5, DocSteps
<1> QED BY <1>2, <1>4, <1>5

\* A delete that failed is flagged as such.
LEMMA ShownDeletesPreserved ==
    ASSUME ClientFacts, ClientFacts', ~IngestStore, [ClientNext]_allVars,
           Flagged, WorkKinds, ShownDeletes
    PROVE  ShownDeletes'
<1>1. SUFFICES ASSUME NEW c \in Calls, NEW d \in Docs, FailedCall(c)', draft'[c].doc = d,
                      draft'[c].op = "delete", doc'[d].here
               PROVE  "delete" \in doc'[d].errors
    <2>1. ASSUME NEW c \in Calls, FailedCall(c)' PROVE draft'[c].doc \in Docs
        BY <2>1, FailMoves
    <2> QED BY <1>1, <2>1 DEF ShownDeletes
<1>q. /\ TypeOK /\ TargetsMeant /\ WorkInputs /\ head \in Entry \cup {NoEntry}
    BY StepFacts DEF TypeOK
<1>2. /\ draft[c].phase = "sent" /\ draft[c].doc = d /\ draft[c].op = "delete"
      /\ call[c].doc = d /\ call[c].op = draft[c].op
      /\ \/ FailedCall(c)
         \/ /\ ConfirmHead /\ result = "failed" /\ Waits(c) /\ call[c].target = head.id
            /\ UNCHANGED <<call, clientVars, serverVars, restVars>>
    BY <1>1, FailMoves
<1>3. doc[d].here
    BY <1>1, <1>2, SentIsHeard
<1>4. CASE ConfirmHead /\ result = "failed" /\ Waits(c) /\ call[c].target = head.id
           /\ UNCHANGED <<call, clientVars, serverVars, restVars>>
    <2>1. MeantBy(c, head)
        BY <1>4, <1>q DEF TargetsMeant, Waits
    <2>2. head.doc = d /\ head.op = "delete"
        BY <1>2, <2>1 DEF MeantBy
    <2>3. Failing
        BY <1>4 DEF ConfirmHead, Failing
    <2> QED BY <1>3, <1>4, <2>2, <2>3 DEF Flagged
<1>5. CASE FailedCall(c)
    <2>1. "delete" \in doc[d].errors
        BY <1>2, <1>3, <1>5 DEF ShownDeletes
    <2>2. ConfirmWrite => head.op # "delete"
        BY DEF ConfirmWrite, WorkKinds
    <2> QED BY <1>1, <1>3, <2>1, <2>2, DocSteps DEF Kept, Edited, Merged, Refused, Confirmed
<1> QED BY <1>2, <1>4, <1>5

\* A rebase stores what the document showed when it was read.
LEMMA RebasingPreserved ==
    ASSUME ClientFacts, ClientFacts', ~IngestStore, [ClientNext]_allVars,
           UpdatesUnsent, Rebasing, Shown
    PROVE  Rebasing'
<1>1. SUFFICES ASSUME NEW c \in Calls, NEW d \in Docs, FailedCall(c)', draft'[c].doc = d,
                      draft'[c].op # "delete", Updating', d = Target',
                      work'.phase = "rebasing", work'.write.do = "merge", work'.write.val = c
               PROVE  \/ "add" \in doc'[d].errors
                      \/ "update" \in doc'[d].errors /\ ~call'[c].created
                      \/ SentAfterAll(c)'
    <2>1. ASSUME NEW c \in Calls, FailedCall(c)' PROVE draft'[c].doc \in Docs
        BY <2>1, FailMoves
    <2> QED BY <1>1, <2>1 DEF Rebasing, ShownAs
<1>2. /\ Target = d /\ Executing /\ head.op = "update" /\ doc[d].here
      /\ UNCHANGED work \/ (UNCHANGED <<doc, draft>> /\ UpdateStep)
    BY <1>1, UpdateSteps
<1>3. /\ FailedCall(c) /\ draft[c].doc = d /\ draft[c].op # "delete"
      /\ call'[c].created => call[c].created
    <2>1. ~ConfirmHead
        BY <1>2 DEF Executing, ConfirmHead
    <2> QED BY <1>1, <2>1, FailMoves
<1>k. SentAfterAll(c) => SentAfterAll(c)'
    BY <1>1, SentAfterAllStays
<1>4. CASE UNCHANGED work
    <2>1. Updating
        BY <1>1, <1>2, <1>4 DEF Updating
    <2>2. ShownAs(c, TRUE)
        BY <1>1, <1>2, <1>3, <1>4, <2>1 DEF Rebasing
    <2>3. doc'[d].errors = doc[d].errors
        <3>1. ~PullWrite /\ ~ExecFails /\ ~ConfirmWrite
            BY <1>1, StepFacts, WorkFields
        <3>2. doc'[d].here
            BY <1>1 DEF Updating
        <3> QED BY <1>1, <1>2, <3>1, <3>2, DocSteps DEF Kept, Edited
    <2> QED BY <1>3, <1>k, <2>2, <2>3 DEF ShownAs
<1>5. CASE UNCHANGED <<doc, draft>> /\ UpdateStep
    <2>1. /\ work.phase = "pulled"
          /\ doc[d].prev => doc[d].val = c
        BY <1>1, <1>2, <1>5 DEF UpdateStep
    <2>2. doc[d].prev
        BY <1>2, <2>1 DEF UpdatesUnsent, Updating
    <2>3. ShownAs(c, TRUE)
        BY <1>2, <1>3, <2>1, <2>2 DEF Shown, Shows, ShownAs
    <2> QED BY <1>3, <1>5, <1>k, <2>3 DEF ShownAs
<1> QED BY <1>2, <1>4, <1>5

LEMMA ShowInit == ClientInit => ShowIInv
<1> SUFFICES ASSUME ClientInit PROVE ShowIInv
    OBVIOUS
<1>1. (\A c \in Calls : ~FailedCall(c)) /\ ~Failing /\ ~Updating
    BY DEF ClientInit, Init, FailedCall, NoDraft, Failing, Updating, NoWork
<1>2. work.phase = "idle"
    BY DEF ClientInit, NoWork
<1> QED BY <1>1, <1>2 DEF ShowIInv, FailedAdds, Flagged, UpdatesUnsent, WorkKinds, SentNow, Rebasing,
                          Shown, ShownDeletes

\* All of it is inductive, on what is known of the adds.
LEMMA ShowInvariance ==
    ASSUME ~Early
    PROVE  ClientSpec => []ShowIInv
<1>1. ClientFacts /\ ClientFacts' /\ OnceIInv /\ ShowIInv /\ [ClientNext]_allVars => ShowIInv'
    <2> SUFFICES ASSUME ClientFacts, ClientFacts', OnceIInv, ShowIInv, [ClientNext]_allVars,
                        ingests' = 0
                 PROVE  FailedAdds' /\ Flagged' /\ UpdatesUnsent' /\ WorkKinds'
                        /\ SentNow' /\ Rebasing' /\ Shown' /\ ShownDeletes'
        BY DEF ShowIInv
    <2>1. ingests = 0 /\ ~IngestStore
        BY ToldMoves DEF OnceIInv, RecoveryIInv
    <2>2. DraftFirst /\ AddedOnce /\ AddsOldest
        BY <2>1 DEF OnceIInv, RecoveryIInv
    <2>3. /\ FailedAdds /\ Flagged /\ UpdatesUnsent /\ WorkKinds
          /\ SentNow /\ Rebasing /\ Shown /\ ShownDeletes
        BY <2>1 DEF ShowIInv
    <2>4. FailedAdds' /\ Flagged'
        BY <2>1, <2>2, <2>3, FailedAddsPreserved, FlaggedPreserved
    <2>5. UpdatesUnsent' /\ WorkKinds' /\ SentNow'
        BY <2>1, <2>3, UpdatesUnsentPreserved, WorkKindsPreserved, SentNowPreserved
    <2>6. Rebasing' /\ Shown' /\ ShownDeletes'
        BY <2>1, <2>3, RebasingPreserved, ShownPreserved, ShownDeletesPreserved
    <2> QED BY <2>4, <2>5, <2>6
<1> QED BY <1>1, ShowInit, OnceInvariance, ClientFactsHold, PTL DEF ClientSpec

\* A mutation that failed for good, and whose value or deletion the document still
\* shows, is flagged there, or its value was sent after all, while the client is told
\* nothing but the answers to what it sends and mutations wait for #recover.
THEOREM FailuresShow ==
    ASSUME ~Early
    PROVE  ClientSpec => []FailedIsShown
<1>1. ShowIInv => FailedIsShown
    BY DEF ShowIInv, Shown, ShownDeletes, ShownAs, Shows, FailedCall, FailedIsShown
<1> QED BY <1>1, ShowInvariance, PTL

-----------------------------------------------------------------------------
(* What is known of versions: nothing here is ahead of the server.            *)

ServerTells ==
    \A d \in Docs :
        /\ server[d].status = "absent" => server[d].version = 0 /\ server[d].val = "none"
        /\ server[d].status # "absent" => server[d].version # 0
DocsBehind == \A d \in Docs : doc[d].here => doc[d].version <= server[d].version
IngestTells ==
    /\ ingest.phase # "write" => ingest.write.do = "nothing"
    /\ ingest.phase # "idle" =>
          /\ ingest.change.version # 0 /\ ingest.change.version <= server[ingest.doc].version
          /\ ingest.write.do \in {"put", "merge"} =>
                ingest.write.version = ingest.change.version
WorkTells ==
    /\ work.phase \notin {"pulled", "rebasing"} => work.pulled.status = "absent"
    /\ work.phase # "rebasing" => work.write.do = "nothing"
    /\ work.version # 0 =>
          work.phase = "confirming" \/ (work.phase = "answered" /\ work.answer = "ok")
    /\ work.phase # "idle" =>
          /\ work.version <= server[Target].version
          /\ work.pulled.status # "absent" =>
                work.pulled.version # 0 /\ work.pulled.version <= server[Target].version
          /\ work.write.do = "merge" =>
                work.write.version # 0 /\ work.write.version <= server[Target].version
VersionIInv == ServerTells /\ DocsBehind /\ IngestTells /\ WorkTells

\* The server's versions only grow, with what it takes and with what others write.
LEMMA ServerGrows ==
    ASSUME ClientTypeOK, Informed, WorkInputs, ServerTells, [ClientNext]_allVars
    PROVE  /\ ServerTells'
           /\ \A d \in Docs : /\ server[d].version \in Nat /\ server'[d].version \in Nat
                              /\ server[d].version <= server'[d].version
<1>t. server \in [Docs -> ServerDocs] /\ \A d \in Docs : server[d] \in ServerDocs
    BY DEF ClientTypeOK
<1>m. MaxVersion \in Nat
    BY ClientBoundsAssumption
<1>v. \A d \in Docs : server[d].version \in Nat
    BY <1>m, <1>t DEF ServerDocs, Versions
<1> DEFINE Goal == /\ ServerTells'
                   /\ \A d \in Docs : /\ server[d].version \in Nat /\ server'[d].version \in Nat
                                      /\ server[d].version <= server'[d].version
<1>1. ASSUME UNCHANGED server PROVE Goal
    BY <1>1, <1>v DEF ServerTells
<1>2. ASSUME NEW lost \in BOOLEAN, ServerHandles(lost) PROVE Goal
    <2> DEFINE s == server[Target]
               applies == Applies(work.kind, work.base, s)
               new == [status |-> IF ~applies THEN s.status
                                  ELSE IF work.kind = "del" THEN "gone" ELSE "live",
                       val |-> IF applies /\ work.kind # "del" THEN work.sent ELSE s.val,
                       version |-> IF applies THEN s.version + 1 ELSE s.version]
    <2>d. Target \in Docs
        BY <1>2 DEF ServerHandles, WorkInputs, Executing, Entry, Target
    <2>1. server' = [server EXCEPT ![Target] = new]
        BY <1>2 DEF ServerHandles
    <2>k. work.kind \in {"post", "put", "del"}
        BY <1>2 DEF ServerHandles, Informed, ClientTypeOK, Works
    <2>2. applies \in BOOLEAN
        BY <2>k DEF Applies
    <2>3. s.version \in Nat /\ s \in ServerDocs
        BY <1>t, <1>v, <2>d
    <2>4. /\ new.version \in Nat /\ s.version <= new.version
          /\ ~applies => new.status = s.status /\ new.val = s.val /\ new.version = s.version
          /\ applies => new.status # "absent" /\ new.version # 0
        <3> HIDE DEF applies, s
        <3> QED BY <2>2, <2>3
    <2>5. /\ new.status = "absent" => new.version = 0 /\ new.val = "none"
          /\ new.status # "absent" => new.version # 0
        BY <2>2, <2>4, <2>d DEF ServerTells
    <2> HIDE DEF new
    <2>6. \A d \in Docs : server'[d] = IF d = Target THEN new ELSE server[d]
        BY <1>t, <2>1
    <2> QED BY <1>v, <2>4, <2>5, <2>6 DEF ServerTells
<1>3. ASSUME NEW e \in Docs, NEW status \in {"live", "gone"}, TheirWrite(e, status) PROVE Goal
    <2> DEFINE new == [status |-> status, val |-> "theirs", version |-> server[e].version + 1]
    <2>1. \A d \in Docs : server'[d] = IF d = e THEN new ELSE server[d]
        BY <1>3, <1>t DEF TheirWrite
    <2>2. new.status # "absent" /\ new.version = server[e].version + 1
        BY <1>3
    <2> HIDE DEF new
    <2> QED BY <1>v, <2>1, <2>2 DEF ServerTells
<1> HIDE DEF Goal
<1>4. Goal
    BY <1>1, <1>2, <1>3, ServerWriters
<1> QED BY <1>4 DEF Goal

\* What a write of an ingestion is about: it carries the version of its change.
LEMMA WriteCarries ==
    ASSUME NEW change, NEW local
    PROVE  LET w == IngestWrite(change, local)
           IN  /\ w.do \in {"put", "merge"} => w.version = change.version
               /\ w.do = "merge" /\ local.here =>
                      local.version = 0 \/ ~(change.version < local.version)
<1> DEFINE to(what, v) == [do |-> what, val |-> v, version |-> change.version]
           older == local.here /\ local.version # 0 /\ change.version < local.version
           w == IngestWrite(change, local)
<1>1. \A what, v : to(what, v).do = what /\ to(what, v).version = change.version
    OBVIOUS
<1>2. NoWrite.do = "nothing"
    BY DEF NoWrite
<1>3. w \in {NoWrite, to("delete", "none")} \/ (~older /\ \E what, v : w = to(what, v))
    <2> HIDE DEF to
    <2>1. CASE change.kind = "removed"
        <3>1. w = to("delete", "none")
            BY <2>1 DEF IngestWrite, to
        <3> QED BY <3>1
    <2>2. CASE change.kind # "removed" /\ older
        <3>1. w = NoWrite
            BY <2>2 DEF IngestWrite
        <3> QED BY <3>1
    <2>3. CASE change.kind # "removed" /\ ~older
        <3> DEFINE pending == local.prev \/ local.deleting
        <3>1. CASE change.kind = "tombstone"
            <4>1. w \in {NoWrite, to("delete", "none")}
                BY <2>3, <3>1 DEF IngestWrite, to
            <4> QED BY <4>1
        <3>2. CASE change.kind \in {"added", "modified"} /\ ~pending
            <4>1. w = to(IF change.kind = "added" THEN "put" ELSE "merge", change.val)
                BY <2>3, <3>2 DEF IngestWrite, to
            <4> QED BY <2>3, <4>1
        <3>3. CASE change.kind # "tombstone" /\ ~(change.kind \in {"added", "modified"} /\ ~pending)
            <4>1. w = NoWrite \/ w = to("merge", IF local.prev THEN local.val ELSE change.val)
                BY <2>3, <3>3 DEF IngestWrite, to
            <4> QED BY <2>3, <4>1
        <3> QED BY <3>1, <3>2, <3>3
    <2> QED BY <2>1, <2>2, <2>3
<1> HIDE DEF to, w
<1>4. w.do \in {"put", "merge"} => w.version = change.version /\ ~older
    BY <1>1, <1>2, <1>3
<1> QED BY <1>4 DEF w

\* A write that puts or merges leaves the version it carries.
LEMMA IngestedVersion ==
    ASSUME NEW old \in LocalDocs, NEW write \in Writes, Ingested(old, write).here
    PROVE  LET new == Ingested(old, write)
           IN  \/ write.do = "nothing" /\ new = old
               \/ write.do = "put" /\ new.version = write.version
               \/ write.do = "merge" /\ old.here /\ new.version = write.version
<1>1. CASE write.do = "nothing"
    BY <1>1 DEF Ingested
<1>2. CASE write.do = "delete"
    BY <1>2 DEF Ingested, NoDoc
<1>3. CASE write.do = "put"
    <2>1. Ingested(old, write) = Stored(write.val, write.version)
        BY <1>3 DEF Ingested
    <2>2. \A v, n : Stored(v, n).version = n
        BY DEF Stored, NoDoc
    <2> QED BY <1>3, <2>1, <2>2
<1>4. CASE write.do = "merge"
    <2> DEFINE new == [old EXCEPT !.val = write.val, !.version = write.version]
    <2>1. Ingested(old, write) = Patched(old, new)
        BY <1>4 DEF Ingested
    <2>2. new.version = write.version
        BY DEF LocalDocs
    <2> HIDE DEF new
    <2>3. old.here /\ Ingested(old, write) = new
        BY <2>1 DEF Patched
    <2> QED BY <1>4, <2>2, <2>3
<1> QED BY <1>1, <1>2, <1>3, <1>4 DEF Writes

\* What the confirmation of an add or an update leaves of the version.
ConfirmedVersion(old) ==
    IF work.version = 0 \/ (head.op = "add" /\ work.kind = "put") THEN old.version
    ELSE work.version

\* A confirmation writes the version of its answer, if it has one.
LEMMA ConfirmedNow ==
    ASSUME ClientTypeOK, WorkInputs, ConfirmWrite, doc'[Target].here
    PROVE  doc[Target].here /\ doc'[Target].version = ConfirmedVersion(doc[Target])
<1> DEFINE old == doc[Target]
           version == ConfirmedVersion(old)
           adding == IF head.op = "add" THEN FALSE ELSE old.adding
           val == IF head.op = "add" /\ (work.unsent \/ ~(head.op = "add" /\ work.kind = "put"))
                  THEN work.sent ELSE old.val
           made == [old EXCEPT !.prev = work.unsent, !.version = version,
                               !.errors = @ \ {head.op}, !.adding = adding, !.val = val]
<1>d. Target \in Docs /\ doc \in [Docs -> LocalDocs] /\ old \in LocalDocs
    BY DEF ClientTypeOK, ConfirmWrite, WorkInputs, Entry, Target
<1>1. doc'[Target] = Patched(old, made)
    BY <1>d DEF ConfirmWrite, ConfirmedVersion
<1> HIDE DEF version, adding, val
<1>2. made.version = version
    <2> HIDE DEF old
    <2> QED BY <1>d DEF LocalDocs
<1> HIDE DEF made
<1> QED BY <1>1, <1>2 DEF Patched, version

\* Where the version of a document comes from.
LEMMA VersionSteps ==
    ASSUME ClientTypeOK, DraftInputs, WorkInputs, IngestInputs, Informed,
           [ClientNext]_allVars, NEW d \in Docs, doc'[d].here
    PROVE  \/ doc[d].here /\ doc'[d].version = doc[d].version
           \/ \E c \in Calls : draft[c].doc = d /\ WriteAdd(c) /\ doc'[d].version = 0
           \/ /\ d = Target /\ PullWrite /\ doc[d].here
              /\ work.write.do = "merge" /\ doc'[d].version = work.write.version
           \/ /\ d = Target /\ ConfirmWrite /\ doc[d].here
              /\ doc'[d].version = ConfirmedVersion(doc[d])
           \/ /\ d = ingest.doc /\ IngestStore
              /\ ingest.write.do = "put" \/ (ingest.write.do = "merge" /\ doc[d].here)
              /\ doc'[d].version = ingest.write.version
<1> DEFINE old == doc[d]
           new == doc'[d]
<1>d. doc \in [Docs -> LocalDocs] /\ old \in LocalDocs
    BY DEF ClientTypeOK
<1>w. work.write \in Writes /\ ingest.write \in Writes /\ work.write.do # "put"
    BY DEF ClientTypeOK, Works, Ingests, Informed
<1>n. ~NoDoc.here
    BY DEF NoDoc
<1>p. \A r : Patched(old, r) = IF old.here THEN r ELSE old
    BY DEF Patched
<1>1. CASE new = old
    BY <1>1
<1>2. ASSUME NEW c \in Calls, draft[c].doc = d, WriteAdd(c) PROVE new.version = 0
    <2>1. new = [Stored(c, 0) EXCEPT !.adding = TRUE]
        BY <1>2, <1>d DEF WriteAdd, Written
    <2>2. [Stored(c, 0) EXCEPT !.adding = TRUE].version = 0
        BY DEF Stored, NoDoc
    <2> QED BY <2>1, <2>2
<1>3. ASSUME NEW c \in Calls, draft[c].doc = d, WriteUpdate(c) \/ WriteDelete(c)
      PROVE  old.here /\ new.version = old.version
    <2>1. \/ new = Patched(old, [old EXCEPT !.val = c, !.prev = TRUE])
          \/ new = NoDoc
          \/ new = Patched(old, [old EXCEPT !.deleting = TRUE])
        BY <1>3, <1>d DEF WriteUpdate, WriteDelete, Written
    <2>2. /\ [old EXCEPT !.val = c, !.prev = TRUE].version = old.version
          /\ [old EXCEPT !.deleting = TRUE].version = old.version
        <3> HIDE DEF old
        <3> QED BY <1>d DEF LocalDocs
    <2>3. old.here /\ new # NoDoc
        BY <2>1, <1>n, <1>p
    <2> HIDE DEF old, new
    <2>4. new.version = old.version
        BY <2>1, <2>2, <2>3, <1>p
    <2> QED BY <2>3, <2>4
<1>4. ASSUME d = Target, PullWrite
      PROVE  new = old \/ (old.here /\ work.write.do = "merge" /\ new.version = work.write.version)
    <2>1. new = Ingested(old, work.write)
        BY <1>4, <1>d DEF PullWrite
    <2> QED BY <2>1, <1>d, <1>w, IngestedVersion
<1>5. ASSUME d = Target, ExecFails PROVE old.here /\ new.version = old.version
    <2>1. \E r : new = Patched(old, r)
        BY <1>5, <1>d DEF ExecFails
    <2>2. old.here
        BY <2>1, <1>p
    <2> QED BY <1>5, <2>2, RefusedHere DEF Refused
<1>6. ASSUME d = Target, ConfirmWrite
      PROVE  old.here /\ new.version = ConfirmedVersion(old)
    BY <1>6, ConfirmedNow
<1>7. ASSUME d = Target, ConfirmDelete PROVE FALSE
    BY <1>7, <1>d, <1>n DEF ConfirmDelete
<1>8. ASSUME d = ingest.doc, IngestStore
      PROVE  \/ new = old
             \/ /\ ingest.write.do = "put" \/ (ingest.write.do = "merge" /\ old.here)
                /\ new.version = ingest.write.version
    <2>1. new = Ingested(old, ingest.write)
        BY <1>8, <1>d DEF IngestStore
    <2> QED BY <2>1, <1>d, <1>w, IngestedVersion
<1> HIDE DEF old, new
<1>9. doc'[d] = new /\ doc[d] = old
    BY DEF old, new
<1>10. new = old => old.here
    BY <1>9
<1> QED BY <1>1, <1>2, <1>3, <1>4, <1>5, <1>6, <1>7, <1>8, <1>9, <1>10, DocMoves

\* An execution that knows no version: it was not answered, or ended.
Blank(r) == r.version = 0 /\ r.pulled.status = "absent" /\ r.write.do = "nothing"

\* How an execution learns a version.
LEMMA VersionWork ==
    ASSUME ClientTypeOK, WorkInputs, WorkTells, [ClientNext]_allVars
    PROVE  \/ UNCHANGED work /\ (Executing => Executing')
           \/ Blank(work') /\ work'.phase = "idle"
           \/ /\ Execution /\ Executing /\ UNCHANGED vars
              /\ \/ Blank(work')
                 \/ /\ ConfirmRead /\ work'.phase = "confirming" /\ work'.version = work.version
                    /\ work'.pulled.status = "absent" /\ work'.write.do = "nothing"
                 \/ /\ \E lost \in BOOLEAN : ServerHandles(lost)
                    /\ work'.phase = "answered" /\ work'.answer = "ok"
                    /\ work'.version = server[Target].version + 1
                    /\ work'.version = server'[Target].version
                    /\ work'.pulled.status = "absent" /\ work'.write.do = "nothing"
                 \/ /\ PullAnswered /\ work'.phase = "pulled" /\ work'.version = 0
                    /\ work'.pulled = server[Target] /\ work'.write.do = "nothing"
                 \/ /\ PullRead /\ work'.phase = "rebasing" /\ work'.version = 0
                    /\ work'.pulled = work.pulled
                    /\ \/ work'.write.do = "nothing"
                       \/ /\ work.pulled.status = "live"
                          /\ work'.write = IngestWrite(AsChange(work.pulled, "modified"),
                                                       doc[Target])
<1> USE DEF WorkStep
<1>t. work \in Works
    BY DEF ClientTypeOK
<1>n. Blank(NoWork) /\ NoWork.phase = "idle" /\ \A s : Blank(Over(s))
    BY DEF Blank, NoWork, Over, Missing, NoWrite
<1>k. Missing.status = "absent" /\ NoWrite.do = "nothing"
    BY DEF Missing, NoWrite
<1>b. ASSUME work.phase \notin {"pulled", "rebasing", "confirming"},
             work.phase # "answered" \/ work.answer # "ok"
      PROVE  Blank(work)
    BY <1>b DEF WorkTells, Blank
<1>r. ASSUME Blank(work) PROVE \A kind, base : Blank(Request(kind, base))
    BY <1>t, <1>r DEF Request, Blank, Works
<1>1. ASSUME ExecRead PROVE Blank(work')
    <2>1. \/ \E kind, base : work' = Request(kind, base)
          \/ work' = Over("done")
        BY <1>1 DEF ExecRead
    <2>2. Blank(work)
        BY <1>1, <1>b DEF ExecRead
    <2> QED BY <1>n, <1>r, <2>1, <2>2
<1>2. ASSUME AddAsUpdate \/ Conflicts \/ \E answer \in {"network", "refused"} : RequestFails(answer)
      PROVE  Blank(work')
    <2>1. Blank(work)
        BY <1>2, <1>b DEF AddAsUpdate, Conflicts, RequestFails
    <2>2. /\ work'.version = work.version /\ work'.pulled = work.pulled
          /\ work'.write = work.write
        BY <1>2, <1>t DEF AddAsUpdate, Conflicts, RequestFails, Works
    <2> QED BY <2>1, <2>2 DEF Blank
<1>3. ASSUME ExecFails \/ ConfirmWrite \/ ConfirmDelete PROVE Blank(work')
    <2>1. \E s : work' = Over(s)
        BY <1>3 DEF ExecFails, ConfirmWrite, ConfirmDelete
    <2> QED BY <1>n, <2>1
<1>4. ASSUME ConfirmRead
      PROVE  /\ work'.phase = "confirming" /\ work'.version = work.version
             /\ work'.pulled.status = "absent" /\ work'.write.do = "nothing"
    <2> DEFINE edited == doc[Target].prev /\ doc[Target].val # work.sent
               sent == IF edited THEN doc[Target].val ELSE work.sent
    <2>1. work' = [work EXCEPT !.phase = "confirming", !.unsent = edited, !.sent = sent]
        BY <1>4 DEF ConfirmRead
    <2> HIDE DEF edited, sent
    <2>2. /\ work'.phase = "confirming" /\ work'.version = work.version
          /\ work'.pulled = work.pulled /\ work'.write = work.write
        BY <1>t, <2>1 DEF Works
    <2>3. work.phase = "answered"
        BY <1>4 DEF ConfirmRead
    <2> QED BY <2>2, <2>3 DEF WorkTells
<1>5. ASSUME NEW lost \in BOOLEAN, ServerHandles(lost)
      PROVE  \/ Blank(work')
             \/ /\ work'.phase = "answered" /\ work'.answer = "ok"
                /\ work'.version = server[Target].version + 1
                /\ work'.version = server'[Target].version
                /\ work'.pulled.status = "absent" /\ work'.write.do = "nothing"
    <2> DEFINE s == server[Target]
               applies == Applies(work.kind, work.base, s)
               v == IF applies THEN s.version + 1 ELSE s.version
               reply == Reply(work.kind, work.base, s)
    <2>1. Blank(work)
        BY <1>5, <1>b DEF ServerHandles
    <2>d. Target \in Docs /\ server \in [Docs -> ServerDocs]
        BY <1>5 DEF ServerHandles, WorkInputs, Entry, Target, ClientTypeOK
    <2>2. \/ work' = [work EXCEPT !.phase = "answered", !.answer = "network"]
          \/ work' = [work EXCEPT !.phase = "answered", !.answer = reply,
                                  !.version = IF applies THEN v ELSE 0]
        BY <1>5 DEF ServerHandles
    <2>3. server'[Target].version = v
        BY <1>5, <2>d DEF ServerHandles
    <2>4. applies => reply = "ok" /\ v = s.version + 1
        <3>1. \A kind, base, r : Applies(kind, base, r) => Reply(kind, base, r) = "ok"
            BY DEF Reply, Applies
        <3> QED BY <3>1
    <2> HIDE DEF reply, applies, s, v
    <2>5. CASE work' = [work EXCEPT !.phase = "answered", !.answer = "network"]
        <3>1. work'.version = work.version /\ work'.pulled = work.pulled /\ work'.write = work.write
            BY <1>t, <2>5 DEF Works
        <3> QED BY <2>1, <3>1 DEF Blank
    <2>6. CASE work' = [work EXCEPT !.phase = "answered", !.answer = reply,
                                    !.version = IF applies THEN v ELSE 0]
        <3>1. /\ work'.phase = "answered" /\ work'.answer = reply
              /\ work'.version = IF applies THEN v ELSE 0
              /\ work'.pulled = work.pulled /\ work'.write = work.write
            BY <1>t, <2>6 DEF Works
        <3> QED BY <2>1, <2>3, <2>4, <3>1 DEF Blank, s
    <2> QED BY <2>2, <2>5, <2>6
<1>6. ASSUME PullAnswered
      PROVE  /\ work'.phase = "pulled" /\ work'.version = 0
             /\ work'.pulled = server[Target] /\ work'.write.do = "nothing"
    <2>1. Blank(work)
        BY <1>6, <1>b DEF PullAnswered
    <2>2. /\ work'.phase = "pulled" /\ work'.version = work.version
          /\ work'.pulled = server[Target] /\ work'.write = work.write
        BY <1>6, <1>t DEF PullAnswered, Works
    <2> QED BY <2>1, <2>2 DEF Blank
<1>7. ASSUME PullRead
      PROVE  /\ work'.phase = "rebasing" /\ work'.version = 0
             /\ work'.pulled = work.pulled
             /\ \/ work'.write.do = "nothing"
                \/ /\ work.pulled.status = "live"
                   /\ work'.write = IngestWrite(AsChange(work.pulled, "modified"), doc[Target])
    <2> DEFINE w == IF work.pulled.status = "live"
                    THEN IngestWrite(AsChange(work.pulled, "modified"), doc[Target]) ELSE NoWrite
    <2>1. work' = [work EXCEPT !.phase = "rebasing", !.write = w] /\ work.phase = "pulled"
        BY <1>7 DEF PullRead
    <2>2. \/ w = NoWrite
          \/ /\ work.pulled.status = "live"
             /\ w = IngestWrite(AsChange(work.pulled, "modified"), doc[Target])
        OBVIOUS
    <2> HIDE DEF w
    <2>3. /\ work'.phase = "rebasing" /\ work'.version = work.version
          /\ work'.pulled = work.pulled /\ work'.write = w
        BY <1>t, <2>1 DEF Works
    <2>4. work.version = 0
        BY <2>1 DEF WorkTells
    <2> QED BY <1>k, <2>2, <2>3, <2>4
<1>8. ASSUME PullWrite PROVE Blank(work')
    <2>1. /\ work' = [work EXCEPT !.phase = "again", !.pulled = Missing, !.write = NoWrite]
          /\ work.phase = "rebasing"
        BY <1>8 DEF PullWrite
    <2>2. work'.version = work.version /\ work'.pulled = Missing /\ work'.write = NoWrite
        BY <1>t, <2>1 DEF Works
    <2>3. work.version = 0
        BY <2>1 DEF WorkTells
    <2> QED BY <1>k, <2>2, <2>3 DEF Blank
<1>9. CASE work' = NoWork
    BY <1>9, <1>n
<1>10. CASE Execution /\ Executing /\ UNCHANGED vars /\ work' # NoWork
    <2>1. ~ExecReturns /\ ~ExecRetries
        BY <1>10 DEF ExecReturns, ExecRetries
    <2> QED BY <1>10, <2>1, <1>1, <1>2, <1>3, <1>4, <1>5, <1>6, <1>7, <1>8 DEF Execution
<1> QED BY <1>9, <1>10, WorkMoves

\* The target of an execution that goes on.
LEMMA TargetStays ==
    ASSUME ClientTypeOK, DraftInputs, WorkInputs, EndedAdd, [ClientNext]_allVars,
           \/ UNCHANGED work /\ (Executing => Executing') /\ work.phase # "idle"
           \/ Executing /\ UNCHANGED vars
    PROVE  Executing /\ Target' = Target /\ head' = head /\ Target \in Docs
<1>1. [Next]_vars
    BY StepRefines
<1>2. Executing /\ head' = head
    BY <1>1, LoopSteps DEF EndedAdd, Executing, vars
<1> QED BY <1>2 DEF Target, WorkInputs, Entry

\* What an ingestion knows.
LEMMA IngestSteps ==
    ASSUME ClientTypeOK, [ClientNext]_allVars
    PROVE  \/ UNCHANGED ingest
           \/ ingest' = NoIngest
           \/ /\ UNCHANGED server /\ ingest.phase = "idle" /\ ingest'.phase = "read"
              /\ ingest'.doc \in Docs /\ server[ingest'.doc].status # "absent"
              /\ ingest'.change.version = server[ingest'.doc].version
              /\ ingest'.write = ingest.write
           \/ /\ UNCHANGED server /\ ingest.phase = "read" /\ ingest'.phase = "write"
              /\ ingest'.doc = ingest.doc /\ ingest'.change = ingest.change
              /\ ingest'.write = IngestWrite(ingest.change, doc[ingest.doc])
<1>t. ingest \in Ingests
    BY DEF ClientTypeOK
<1>1. ASSUME NEW d \in Docs, NEW kind \in {"added", "modified", "removed", "tombstone"},
             IngestReceive(d, kind)
      PROVE  /\ UNCHANGED server /\ ingest.phase = "idle" /\ ingest'.phase = "read"
             /\ ingest'.doc \in Docs /\ server[ingest'.doc].status # "absent"
             /\ ingest'.change.version = server[ingest'.doc].version
             /\ ingest'.write = ingest.write
    <2> DEFINE change == AsChange(server[d], kind)
    <2>1. ingest' = [ingest EXCEPT !.phase = "read", !.doc = d, !.change = change]
        BY <1>1 DEF IngestReceive
    <2>2. change.version = server[d].version
        BY DEF AsChange
    <2> HIDE DEF change
    <2>3. /\ ingest'.phase = "read" /\ ingest'.doc = d /\ ingest'.change = change
          /\ ingest'.write = ingest.write
        BY <2>1, <1>t DEF Ingests
    <2>4. UNCHANGED server /\ ingest.phase = "idle" /\ server[d].status # "absent"
        BY <1>1 DEF IngestReceive
    <2> QED BY <2>2, <2>3, <2>4
<1>2. ASSUME IngestRead
      PROVE  /\ UNCHANGED server /\ ingest.phase = "read" /\ ingest'.phase = "write"
             /\ ingest'.doc = ingest.doc /\ ingest'.change = ingest.change
             /\ ingest'.write = IngestWrite(ingest.change, doc[ingest.doc])
    BY <1>2, <1>t DEF IngestRead, Ingests
<1>3. CASE IngestStore \/ ClientCrash
    BY <1>3 DEF IngestStore, ClientCrash
<1>4. CASE Remote
    BY <1>1, <1>2, <1>3, <1>4 DEF Remote, TheirWrite
<1>5. CASE QueueStep \/ UNCHANGED allVars
    BY <1>5 DEF QueueStep, allVars
<1> QED BY <1>3, <1>4, <1>5, MutationsKeep, RecoveringKeeps, ExecutionKeeps DEF ClientNext

\* What an ingestion is told is behind the server.
LEMMA IngestTellsPreserved ==
    ASSUME ClientIInv, SentAddIInv, Informed, VersionIInv, [ClientNext]_allVars
    PROVE  IngestTells'
<1>q. /\ ClientTypeOK /\ ClientTypeOK' /\ WorkInputs /\ ServerTells /\ IngestTells
      /\ IngestInputs
    BY ClientNextInvariant DEF ClientIInv, VersionIInv
<1>s. \A d \in Docs : /\ server[d].version \in Nat /\ server'[d].version \in Nat
                      /\ server[d].version <= server'[d].version
    BY <1>q, ServerGrows
<1>m. MaxVersion \in Nat
    BY ClientBoundsAssumption
<1>v. ingest.change.version \in Nat
    BY <1>q, <1>m DEF ClientTypeOK, Ingests, Changes, Versions
<1>1. CASE UNCHANGED ingest
    <2>1. ingest.phase # "idle" => ingest.doc \in Docs
        BY <1>q DEF IngestInputs
    <2> QED BY <1>1, <1>q, <1>s, <1>v, <2>1 DEF IngestTells
<1>2. CASE ingest' = NoIngest
    BY <1>2 DEF IngestTells, NoIngest, NoWrite
<1>3. CASE /\ UNCHANGED server /\ ingest.phase = "idle" /\ ingest'.phase = "read"
           /\ ingest'.doc \in Docs /\ server[ingest'.doc].status # "absent"
           /\ ingest'.change.version = server[ingest'.doc].version
           /\ ingest'.write = ingest.write
    BY <1>3, <1>q, <1>s DEF IngestTells, ServerTells
<1>4. CASE /\ UNCHANGED server /\ ingest.phase = "read" /\ ingest'.phase = "write"
           /\ ingest'.doc = ingest.doc /\ ingest'.change = ingest.change
           /\ ingest'.write = IngestWrite(ingest.change, doc[ingest.doc])
    BY <1>4, <1>q, WriteCarries DEF IngestTells
<1> QED BY <1>1, <1>2, <1>3, <1>4, <1>q, IngestSteps

\* Neither is a stored document ahead of it.
LEMMA DocsBehindPreserved ==
    ASSUME ClientIInv, SentAddIInv, Informed, VersionIInv, [ClientNext]_allVars
    PROVE  DocsBehind'
<1> SUFFICES ASSUME NEW d \in Docs, doc'[d].here
             PROVE  doc'[d].version <= server'[d].version
    BY DEF DocsBehind
<1>q. /\ ClientTypeOK /\ DraftInputs /\ WorkInputs /\ IngestInputs
      /\ ServerTells /\ DocsBehind /\ IngestTells /\ WorkTells
    BY DEF ClientIInv, VersionIInv
<1>m. MaxVersion \in Nat
    BY ClientBoundsAssumption
<1>s. /\ server[d].version \in Nat /\ server'[d].version \in Nat
      /\ server[d].version <= server'[d].version
    BY <1>q, ServerGrows
<1>v. doc[d].version \in Nat /\ work.version \in Nat /\ work.write.version \in Nat
      /\ ingest.write.version \in Nat
    BY <1>q, <1>m DEF ClientTypeOK, LocalDocs, Works, Ingests, Writes, Versions
<1>1. CASE doc[d].here /\ doc'[d].version = doc[d].version
    BY <1>1, <1>q, <1>s, <1>v DEF DocsBehind
<1>2. CASE doc'[d].version = 0
    BY <1>2, <1>s
<1>3. CASE /\ d = Target /\ PullWrite /\ work.write.do = "merge"
           /\ doc'[d].version = work.write.version
    <2>1. work.phase # "idle"
        BY <1>3 DEF PullWrite
    <2> QED BY <1>3, <1>q, <1>s, <1>v, <2>1 DEF WorkTells
<1>4. CASE d = Target /\ ConfirmWrite /\ doc[d].here /\ doc'[d].version = ConfirmedVersion(doc[d])
    <2>1. work.phase # "idle"
        BY <1>4 DEF ConfirmWrite
    <2>2. work.version <= server[d].version
        BY <1>4, <1>q, <2>1 DEF WorkTells
    <2>3. doc[d].version <= server[d].version
        BY <1>4, <1>q DEF DocsBehind
    <2> QED BY <1>4, <1>s, <1>v, <2>2, <2>3 DEF ConfirmedVersion
<1>5. CASE /\ d = ingest.doc /\ IngestStore /\ ingest.write.do \in {"put", "merge"}
           /\ doc'[d].version = ingest.write.version
    <2>1. ingest.phase # "idle"
        BY <1>5 DEF IngestStore
    <2> QED BY <1>5, <1>q, <1>s, <1>v, <2>1 DEF IngestTells
<1> QED BY <1>1, <1>2, <1>3, <1>4, <1>5, <1>q, VersionSteps

\* Nor is what an execution learned.
LEMMA WorkTellsPreserved ==
    ASSUME ClientIInv, SentAddIInv, Informed, VersionIInv, [ClientNext]_allVars
    PROVE  WorkTells'
<1>q. /\ ClientTypeOK /\ ClientTypeOK' /\ DraftInputs /\ WorkInputs /\ EndedAdd /\ ServerTells
      /\ WorkTells /\ WorkInputs'
    BY ClientNextInvariant DEF ClientIInv, VersionIInv, SentAddIInv
<1>m. MaxVersion \in Nat
    BY ClientBoundsAssumption
<1>v. /\ work.version \in Nat /\ work.pulled.version \in Nat /\ work.write.version \in Nat
    BY <1>q, <1>m DEF ClientTypeOK, Works, ServerDocs, Writes, Versions
<1>b. ASSUME Blank(work'), Target' \in Docs \/ work'.phase = "idle" PROVE WorkTells'
    <2>1. work'.phase # "idle" => server'[Target'].version \in Nat
        BY <1>b, <1>q, <1>m DEF ClientTypeOK, ServerDocs, Versions
    <2> QED BY <1>b, <2>1 DEF Blank, WorkTells
<1>1. CASE UNCHANGED work /\ (Executing => Executing')
    <2>1. CASE work.phase = "idle"
        BY <1>1, <1>q, <2>1 DEF WorkTells
    <2>2. CASE work.phase # "idle"
        <3>1. Target' = Target /\ Target \in Docs
            BY <1>1, <1>q, <2>2, TargetStays
        <3>2. /\ server[Target].version \in Nat /\ server'[Target].version \in Nat
              /\ server[Target].version <= server'[Target].version
            BY <1>q, <3>1, ServerGrows
        <3> QED BY <1>1, <1>q, <1>v, <2>2, <3>1, <3>2 DEF WorkTells
    <2> QED BY <2>1, <2>2
<1>2. CASE Blank(work') /\ work'.phase = "idle"
    BY <1>2, <1>b
<1>3. CASE /\ Executing /\ UNCHANGED vars
           /\ \/ Blank(work')
              \/ /\ ConfirmRead /\ work'.phase = "confirming" /\ work'.version = work.version
                 /\ work'.pulled.status = "absent" /\ work'.write.do = "nothing"
              \/ /\ \E lost \in BOOLEAN : ServerHandles(lost)
                 /\ work'.phase = "answered" /\ work'.answer = "ok"
                 /\ work'.version = server[Target].version + 1
                 /\ work'.version = server'[Target].version
                 /\ work'.pulled.status = "absent" /\ work'.write.do = "nothing"
              \/ /\ PullAnswered /\ work'.phase = "pulled" /\ work'.version = 0
                 /\ work'.pulled = server[Target] /\ work'.write.do = "nothing"
              \/ /\ PullRead /\ work'.phase = "rebasing" /\ work'.version = 0
                 /\ work'.pulled = work.pulled
                 /\ \/ work'.write.do = "nothing"
                    \/ /\ work.pulled.status = "live"
                       /\ work'.write = IngestWrite(AsChange(work.pulled, "modified"),
                                                    doc[Target])
    <2>1. Target' = Target /\ Target \in Docs
        BY <1>3, <1>q, TargetStays
    <2>2. /\ server[Target].version \in Nat /\ server'[Target].version \in Nat
          /\ server[Target].version <= server'[Target].version
        BY <1>q, <2>1, ServerGrows
    <2>3. CASE Blank(work')
        BY <1>b, <2>1, <2>3
    <2>4. CASE /\ ConfirmRead /\ work'.phase = "confirming" /\ work'.version = work.version
               /\ work'.pulled.status = "absent" /\ work'.write.do = "nothing"
        <3>1. work.phase # "idle"
            BY <2>4 DEF ConfirmRead
        <3> QED BY <1>q, <1>v, <2>1, <2>2, <2>4, <3>1 DEF WorkTells
    <2>5. CASE /\ work'.phase = "answered" /\ work'.answer = "ok"
               /\ work'.version = server'[Target].version
               /\ work'.pulled.status = "absent" /\ work'.write.do = "nothing"
        BY <2>1, <2>2, <2>5 DEF WorkTells
    <2>6. CASE /\ work'.phase = "pulled" /\ work'.version = 0
               /\ work'.pulled = server[Target] /\ work'.write.do = "nothing"
        BY <1>q, <2>1, <2>2, <2>6 DEF WorkTells, ServerTells
    <2>7. CASE /\ PullRead /\ work'.phase = "rebasing" /\ work'.version = 0
               /\ work'.pulled = work.pulled
               /\ \/ work'.write.do = "nothing"
                  \/ /\ work.pulled.status = "live"
                     /\ work'.write = IngestWrite(AsChange(work.pulled, "modified"), doc[Target])
        <3>1. work.phase # "idle"
            BY <2>7 DEF PullRead
        <3>2. work.pulled.status # "absent" =>
                 work.pulled.version # 0 /\ work.pulled.version <= server[Target].version
            BY <1>q, <3>1 DEF WorkTells
        <3>3. AsChange(work.pulled, "modified").version = work.pulled.version
            BY DEF AsChange
        <3>4. work'.write.do = "merge" =>
                 work.pulled.status = "live" /\ work'.write.version = work.pulled.version
            BY <2>7, <3>3, WriteCarries
        <3> QED BY <1>v, <2>1, <2>2, <2>7, <3>2, <3>4 DEF WorkTells
    <2> QED BY <1>3, <2>3, <2>4, <2>5, <2>6, <2>7
<1> QED BY <1>1, <1>2, <1>3, <1>q, VersionWork

\* All of it is inductive.
LEMMA VersionInvariance == ClientSpec => []VersionIInv
<1>1. ClientInit => VersionIInv
    <2> SUFFICES ASSUME ClientInit PROVE VersionIInv
        OBVIOUS
    <2>1. PICK known \in SUBSET Docs :
             /\ doc = [d \in Docs |-> IF d \in known THEN Stored("first", 1) ELSE NoDoc]
             /\ server = [d \in Docs |-> IF d \in known
                             THEN [status |-> "live", val |-> "first", version |-> 1] ELSE Missing]
        BY DEF ClientInit
    <2>2. ServerTells
        BY <2>1 DEF ServerTells, Missing
    <2>3. Stored("first", 1).version = 1 /\ ~NoDoc.here
        BY DEF Stored, NoDoc
    <2>4. DocsBehind
        BY <2>1, <2>3 DEF DocsBehind
    <2>5. IngestTells /\ WorkTells
        BY DEF ClientInit, IngestTells, NoIngest, WorkTells, NoWork, NoWrite, Missing
    <2> QED BY <2>2, <2>4, <2>5 DEF VersionIInv
<1>2. ClientFacts /\ VersionIInv /\ [ClientNext]_allVars => VersionIInv'
    <2> SUFFICES ASSUME ClientFacts, VersionIInv, [ClientNext]_allVars PROVE VersionIInv'
        OBVIOUS
    <2>1. ClientIInv /\ SentAddIInv /\ Informed
        BY DEF ClientFacts, KnownIInv
    <2>2. ServerTells'
        BY <2>1, ServerGrows DEF ClientIInv, VersionIInv
    <2> QED BY <2>1, <2>2, DocsBehindPreserved, IngestTellsPreserved, WorkTellsPreserved
            DEF VersionIInv
<1> QED BY <1>1, <1>2, ClientFactsHold, PTL DEF ClientSpec

\* A stored document never claims a version that the server has not reached.
THEOREM NothingIsAhead == ClientSpec => []DocsBehind
<1>1. VersionIInv => DocsBehind
    BY DEF VersionIInv
<1> QED BY <1>1, VersionInvariance, PTL

\* What an execution learned is no older than the document it is about.
NotTold == ingests = 0 /\ ingest.phase = "idle"
Ahead ==
    work.phase # "idle" /\ doc[Target].here =>
        /\ work.version # 0 => doc[Target].version <= work.version
        /\ work.write.do = "merge" => doc[Target].version <= work.write.version

\* A client that the server tells nothing.
LEMMA NotToldPreserved ==
    ASSUME MaxIngests = 0, NotTold, [ClientNext]_allVars
    PROVE  NotTold'
<1>1. ASSUME NEW d, NEW kind, IngestReceive(d, kind) PROVE FALSE
    BY <1>1 DEF IngestReceive, NotTold
<1>2. ~IngestRead /\ ~IngestStore
    BY DEF IngestRead, IngestStore, NotTold
<1>3. CASE Remote
    BY <1>1, <1>2, <1>3 DEF Remote, TheirWrite, NotTold
<1>4. CASE QueueStep \/ ClientCrash \/ UNCHANGED allVars
    BY <1>4 DEF QueueStep, ClientCrash, NoIngest, allVars, NotTold
<1> QED BY <1>3, <1>4, MutationsKeep, RecoveringKeeps, ExecutionKeeps
        DEF ClientNext, NotTold, restVars

\* What an execution writes is at least as new as what it replaces.
LEMMA AheadPreserved ==
    ASSUME ClientFacts, VersionIInv, NotTold, Ahead, [ClientNext]_allVars
    PROVE  Ahead'
<1> SUFFICES ASSUME work'.phase # "idle", doc'[Target'].here, ~Blank(work')
             PROVE  /\ work'.version # 0 => doc'[Target'].version <= work'.version
                    /\ work'.write.do = "merge" =>
                           doc'[Target'].version <= work'.write.version
    BY DEF Ahead, Blank
<1>q. /\ ClientTypeOK /\ ClientTypeOK' /\ DraftInputs /\ WorkInputs /\ IngestInputs /\ EndedAdd
      /\ Informed /\ ServerTells /\ DocsBehind /\ WorkTells
    BY ClientNextInvariant
       DEF ClientFacts, ClientIInv, VersionIInv, SentAddIInv, KnownIInv
<1>m. MaxVersion \in Nat
    BY ClientBoundsAssumption
<1>0. Target' = Target /\ Target \in Docs
    BY <1>q, VersionWork, TargetStays
<1>v. /\ doc[Target].version \in Nat /\ server[Target].version \in Nat
      /\ work'.version \in Nat /\ work'.write.version \in Nat /\ work.pulled.version \in Nat
    BY <1>q, <1>m, <1>0 DEF ClientTypeOK, LocalDocs, ServerDocs, Works, Writes, Versions
<1>1. CASE UNCHANGED work
    <2>1. ~PullWrite /\ ~ConfirmWrite
        <3>1. \A s : Over(s).phase = "over"
            BY DEF Over
        <3>2. ASSUME PullWrite PROVE work'.phase = "again" /\ work.phase = "rebasing"
            BY <1>q, <3>2, WorkFields DEF PullWrite
        <3> QED BY <1>1, <3>1, <3>2 DEF ConfirmWrite, WorkStep
    <2>2. ~IngestStore
        BY DEF IngestStore, NotTold
    <2>3. \/ doc[Target].here /\ doc'[Target].version = doc[Target].version
          \/ doc'[Target].version = 0
        BY <1>0, <1>q, <2>1, <2>2, VersionSteps
    <2> QED BY <1>0, <1>1, <1>v, <2>3 DEF Ahead
<1>2. CASE ConfirmRead /\ work'.version = work.version /\ work'.write.do = "nothing"
    <2>1. work.phase # "idle" /\ UNCHANGED doc
        BY <1>2 DEF ConfirmRead
    <2> QED BY <1>0, <1>2, <2>1 DEF Ahead
<1>3. CASE /\ \E lost \in BOOLEAN : ServerHandles(lost)
           /\ work'.version = server[Target].version + 1 /\ work'.write.do = "nothing"
    <2>1. UNCHANGED doc
        BY <1>3 DEF ServerHandles
    <2>2. doc[Target].version <= server[Target].version
        BY <1>0, <1>q, <2>1 DEF DocsBehind
    <2> QED BY <1>0, <1>3, <1>v, <2>1, <2>2
<1>4. CASE /\ PullRead /\ work'.version = 0
           /\ work'.write = IngestWrite(AsChange(work.pulled, "modified"), doc[Target])
    <2> DEFINE change == AsChange(work.pulled, "modified")
    <2>1. UNCHANGED doc
        BY <1>4 DEF PullRead
    <2>2. change.version = work.pulled.version
        BY DEF AsChange
    <2>3. work'.write.do = "merge" =>
             /\ work'.write.version = change.version
             /\ doc[Target].version = 0 \/ ~(change.version < doc[Target].version)
        <3> HIDE DEF change
        <3>1. work'.write = IngestWrite(change, doc[Target])
            BY <1>4 DEF change
        <3> QED BY <1>0, <2>1, <3>1, WriteCarries
    <2> HIDE DEF change
    <2> QED BY <1>0, <1>4, <1>v, <2>1, <2>2, <2>3
<1>5. CASE work'.version = 0 /\ work'.write.do = "nothing"
    BY <1>5
<1> QED BY <1>1, <1>2, <1>3, <1>4, <1>5, <1>q, VersionWork

\* The version a stored document claims never goes back, while the client is told
\* nothing but the answers to what it sends.
THEOREM OwnVersionsGrow ==
    ASSUME MaxIngests = 0
    PROVE  ClientSpec => VersionsGrow
<1> DEFINE Grow == \A d \in Docs : doc[d].here /\ doc'[d].here =>
                       doc[d].version <= doc'[d].version
<1>1. ClientInit => NotTold /\ Ahead
    BY DEF ClientInit, NotTold, NoIngest, Ahead, NoWork
<1>2. ClientFacts /\ VersionIInv /\ NotTold /\ Ahead /\ [ClientNext]_allVars => (NotTold /\ Ahead)'
    BY NotToldPreserved, AheadPreserved
<1>3. ASSUME ClientFacts, ClientFacts', VersionIInv, NotTold, Ahead, [ClientNext]_allVars
      PROVE  Grow
    <2> SUFFICES ASSUME NEW d \in Docs, doc[d].here, doc'[d].here
                 PROVE  doc[d].version <= doc'[d].version
        OBVIOUS
    <2>q. /\ ClientTypeOK /\ DraftInputs /\ WorkInputs /\ IngestInputs /\ Informed
        BY <1>3, StepFacts
    <2>m. MaxVersion \in Nat
        BY ClientBoundsAssumption
    <2>v. doc[d].version \in Nat
        BY <2>q, <2>m DEF ClientTypeOK, LocalDocs, Versions
    <2>1. ~IngestStore
        BY <1>3 DEF IngestStore, NotTold
    <2>2. ASSUME NEW c \in Calls, draft[c].doc = d, WriteAdd(c) PROVE FALSE
        BY <1>3, <2>2, AddIsFirst DEF Unheard
    <2>3. CASE doc'[d].version = doc[d].version
        BY <2>3, <2>v
    <2>4. CASE /\ d = Target /\ PullWrite /\ work.write.do = "merge"
               /\ doc'[d].version = work.write.version
        <3>1. work.phase # "idle"
            BY <2>4 DEF PullWrite
        <3> QED BY <1>3, <2>4, <3>1 DEF Ahead
    <2>5. CASE d = Target /\ ConfirmWrite /\ doc'[d].version = ConfirmedVersion(doc[d])
        <3>1. work.phase # "idle"
            BY <2>5 DEF ConfirmWrite
        <3> QED BY <1>3, <2>5, <2>v, <3>1 DEF Ahead, ConfirmedVersion
    <2> QED BY <1>3, <2>1, <2>2, <2>3, <2>4, <2>5, <2>q, VersionSteps
<1>4. ClientSpec => [](NotTold /\ Ahead)
    BY <1>1, <1>2, ClientFactsHold, VersionInvariance, PTL DEF ClientSpec
<1> QED BY <1>3, <1>4, ClientFactsHold, VersionInvariance, PTL DEF ClientSpec, VersionsGrow

-----------------------------------------------------------------------------
(* What a client whose requests are all answered sends is based on a version: *)
(* nothing is tried twice, and a document without a version is not on the     *)
(* server.                                                                    *)

AnswersArrive == MaxLost = 0 /\ MaxCrashes = 0

Untried == loop # "retrying" /\ \A e \in outbox \cup {head} : e.attempts = 0
TriedOnce ==
    /\ losses = 0 /\ work.answer # "network" /\ Untried
    /\ work.phase # "idle" /\ head.op = "add" => work.kind # "put"

\* A document without a version is not on the server, unless the answer to its add
\* was not written yet.
AddedVersions ==
    \A d \in Docs : doc[d].here /\ doc[d].version = 0 /\ server[d].status # "absent" =>
        head.op = "add" /\ head.doc = d /\ work.version # 0
BasedOn ==
    work.phase = "request" /\ work.kind = "put" /\ work.base = 0 =>
        server[Target].status = "absent"

\* No answer is missed.
LEMMA AnswersCome ==
    ASSUME AnswersArrive, TypeOK, ClientTypeOK, losses = 0, work.answer # "network",
           [ClientNext]_allVars
    PROVE  /\ losses' = 0 /\ work'.answer # "network" /\ ~ExecRetries /\ ~ClientCrash
           /\ ~ServerHandles(TRUE)
<1>t. work \in Works
    BY DEF ClientTypeOK
<1>c. ~ClientCrash /\ ~ExecRetries
    <2>1. crashes \in 0..MaxCrashes /\ MaxCrashes = 0
        BY DEF TypeOK, AnswersArrive
    <2>2. ~Crash
        BY <2>1 DEF Crash
    <2> QED BY <2>2 DEF ClientCrash, ExecRetries, Retryable
<1>l. ~ServerHandles(TRUE) /\ ~RequestFails("network")
    BY DEF AnswersArrive, ServerHandles, RequestFails
<1>n. NoWork.answer # "network" /\ \A s : Over(s).answer # "network"
    BY DEF NoWork, Over
<1>r. \A kind, base : Request(kind, base).answer = work.answer
    BY <1>t DEF Request, Works
<1> DEFINE Come == losses' = 0 /\ work'.answer # "network"
<1>1. ASSUME ExecRead PROVE Come
    <2>1. \/ \E kind, base : work' = Request(kind, base)
          \/ work' = Over("done")
        BY <1>1 DEF ExecRead, WorkStep
    <2> QED BY <1>1, <1>n, <1>r, <2>1 DEF ExecRead
<1>2. ASSUME AddAsUpdate \/ Conflicts \/ PullAnswered \/ PullWrite PROVE Come
    BY <1>2, <1>t DEF AddAsUpdate, Conflicts, PullAnswered, PullWrite, WorkStep, Works
<1>3. ASSUME PullRead PROVE Come
    <2> DEFINE w == IF work.pulled.status = "live"
                    THEN IngestWrite(AsChange(work.pulled, "modified"), doc[Target]) ELSE NoWrite
    <2>1. work' = [work EXCEPT !.phase = "rebasing", !.write = w] /\ losses' = losses
        BY <1>3 DEF PullRead, WorkStep
    <2> HIDE DEF w
    <2> QED BY <1>t, <2>1 DEF Works
<1>4. ASSUME ExecFails \/ ConfirmWrite \/ ConfirmDelete PROVE Come
    <2>1. \E s : work' = Over(s)
        BY <1>4 DEF ExecFails, ConfirmWrite, ConfirmDelete, WorkStep
    <2> QED BY <1>4, <1>n, <2>1 DEF ExecFails, ConfirmWrite, ConfirmDelete
<1>5. ASSUME ConfirmRead PROVE Come
    <2>1. work'.answer = work.answer
        BY <1>5, WorkFields
    <2> QED BY <1>5, <2>1 DEF ConfirmRead
<1>6. ASSUME NEW lost \in BOOLEAN, ServerHandles(lost) PROVE Come
    <2> DEFINE s == server[Target]
               applies == Applies(work.kind, work.base, s)
               version == IF applies THEN s.version + 1 ELSE 0
               reply == Reply(work.kind, work.base, s)
    <2>1. lost = FALSE
        BY <1>6, <1>l
    <2>2. /\ losses' = losses
          /\ \E v : work' = [work EXCEPT !.phase = "answered", !.answer = reply, !.version = v]
        BY <1>6, <2>1 DEF ServerHandles, WorkStep
    <2>3. reply # "network"
        BY DEF Reply
    <2> HIDE DEF reply
    <2> QED BY <1>t, <2>2, <2>3 DEF Works
<1>7. ASSUME NEW answer \in {"network", "refused"}, RequestFails(answer) PROVE Come
    <2>1. answer = "refused"
        BY <1>7, <1>l
    <2>2. work' = [work EXCEPT !.phase = "answered", !.answer = "refused"] /\ losses' = losses
        BY <1>7, <2>1 DEF RequestFails, WorkStep
    <2> QED BY <1>t, <2>2 DEF Works
<1>8. ASSUME ExecReturns PROVE Come
    BY <1>8, <1>n DEF ExecReturns
<1>9. ASSUME Execution PROVE Come
    BY <1>1, <1>2, <1>3, <1>4, <1>5, <1>6, <1>7, <1>8, <1>9, <1>c
       DEF Execution
<1>10. ASSUME Remote \/ QueueStep \/ UNCHANGED allVars PROVE Come
    BY <1>10, RemoteKeeps DEF Remote, TheirWrite, IngestReceive, IngestRead, IngestStore, QueueStep,
                              allVars
<1>11. Come
    BY <1>9, <1>10, <1>c, MutationsKeep, RecoveringKeeps DEF ClientNext
<1> QED BY <1>11, <1>c, <1>l

\* So nothing is tried twice.
LEMMA UntriedPreserved ==
    ASSUME TypeOK, ~ExecRetries, ~ClientCrash, Untried, [ClientNext]_allVars
    PROVE  Untried'
<1>0. CASE UNCHANGED <<outbox, head, loop>>
    BY <1>0 DEF Untried
<1>t. Trigger => loop' # "retrying"
    BY DEF Trigger, Untried
<1>1. ASSUME NEW c, NEW op, NEW d, NEW u, Enqueue(c, op, d, u) PROVE Untried'
    BY <1>0, <1>1 DEF Enqueue
<1>2. CASE Mutations
    <2>1. UNCHANGED vars \/ \E c \in Calls : Enqueue(c, draft[c].op, draft[c].doc, draft[c].unsynced)
        BY <1>2, QueueHears DEF Send
    <2> QED BY <1>0, <1>1, <2>1 DEF vars
<1>3. CASE Recovering
    <2>1. CASE Recovered
        <3>1. UNCHANGED <<outbox, head>> /\ loop' \in {loop, "locking"}
            BY <2>1 DEF Recovered, Start
        <3> QED BY <3>1 DEF Untried
    <2>2. CASE RecoverNext
        <3>1. UNCHANGED vars \/ \E c, op, d, u : Enqueue(c, op, d, u)
            BY <2>2 DEF RecoverNext
        <3> QED BY <1>0, <1>1, <3>1 DEF vars
    <2> QED BY <1>0, <1>3, <2>1, <2>2, QueueHears DEF vars
<1>4. CASE Execution
    <2>1. CASE ExecReturns
        BY <2>1 DEF ExecReturns, ExecuteEnds, Untried
    <2> QED BY <1>0, <1>4, <2>1, QueueHears DEF vars
<1>5. CASE Remote \/ UNCHANGED allVars
    BY <1>0, <1>5, RemoteKeeps DEF allVars, vars
<1>6. ASSUME NEW c \in Calls, CallStep(c) PROVE Untried'
    <2>1. CASE AddEntry(c)
        <3> DEFINE e == [id |-> nextId, op |-> call[c].op, doc |-> call[c].doc, attempts |-> 0]
        <3>1. outbox' = outbox \cup {e} /\ UNCHANGED <<head, loop>>
            BY <2>1 DEF AddEntry
        <3>2. e.attempts = 0
            OBVIOUS
        <3> HIDE DEF e
        <3> QED BY <3>1, <3>2 DEF Untried
    <2>2. CASE Drop(c)
        BY <2>2 DEF Drop, Without, Untried
    <2>3. CASE Resume(c) \/ Reported(c)
        <3>1. UNCHANGED <<outbox, head>> /\ (loop' = loop \/ Trigger)
            BY <2>3 DEF Resume, Reported
        <3> QED BY <1>t, <3>1 DEF Untried
    <2> QED BY <1>0, <1>6, <2>1, <2>2, <2>3 DEF CallStep, StartJob, Decide, EndDrops, EndJob
<1>7. CASE LoopStep
    <2>1. ~PersistRetry
        BY DEF PersistRetry, Untried
    <2>2. NoEntry.attempts = 0
        BY DEF NoEntry
    <2>3. outbox' \subseteq outbox /\ loop' # "retrying" /\ head' \in outbox \cup {head, NoEntry}
        BY <1>7, <2>1 DEF LoopStep, LockGranted, LockBusy, GiveUp, LoopRead, LoopIdle, LoopExecute,
                    ConfirmHead, RetryReported, LoopEnd, Without, Oldest
    <2> QED BY <2>2, <2>3 DEF Untried
<1>8. CASE TimerFires
    <2>1. UNCHANGED <<outbox, head>> /\ Trigger
        BY <1>8 DEF TimerFires, Wake
    <2> QED BY <1>t, <2>1 DEF Untried
<1> QED BY <1>2, <1>3, <1>4, <1>5, <1>6, <1>7, <1>8 DEF ClientNext, QueueStep

\* An add that is sent once is not sent as an update.
LEMMA AddsArePosted ==
    ASSUME ClientTypeOK, DraftInputs, WorkInputs, EndedAdd, TriedOnce, [ClientNext]_allVars,
           work'.phase # "idle", head'.op = "add"
    PROVE  work'.kind # "put"
<1>p. work.phase # "idle" /\ head.op = "add" => work.kind # "put"
    BY DEF TriedOnce
<1>1. CASE UNCHANGED work /\ (Executing => Executing')
    <2>1. head' = head
        BY <1>1, TargetStays
    <2> QED BY <1>1, <1>p, <2>1
<1>2. CASE work' = NoWork
    BY <1>2 DEF NoWork
<1>3. CASE Execution /\ Executing /\ UNCHANGED vars
    <2>h. head' = head /\ head.attempts = 0
        BY <1>3 DEF TriedOnce, Untried, vars
    <2>1. CASE ExecRead
        BY <2>1, <2>h, WorkFields
    <2>2. ~AddAsUpdate
        BY <2>h DEF AddAsUpdate
    <2>3. CASE Conflicts \/ PullAnswered \/ PullRead \/ PullWrite \/ ConfirmRead
               \/ (\E lost \in BOOLEAN : ServerHandles(lost))
               \/ (\E answer \in {"network", "refused"} : RequestFails(answer))
        <3>1. work.phase # "idle"
            BY <2>3 DEF Conflicts, PullAnswered, PullRead, PullWrite, ConfirmRead, ServerHandles,
                        RequestFails
        <3>2. work'.kind = work.kind
            BY <2>3, WorkFields
        <3> QED BY <1>p, <2>h, <3>1, <3>2
    <2>4. CASE ExecFails \/ ConfirmWrite \/ ConfirmDelete \/ ExecReturns \/ ExecRetries
        BY <2>4, WorkFields
    <2> QED BY <1>3, <2>1, <2>2, <2>3, <2>4 DEF Execution
<1> QED BY <1>1, <1>2, <1>3, WorkMoves

\* A client whose requests are all answered goes on like that.
LEMMA TriedOncePreserved ==
    ASSUME AnswersArrive, ClientFacts, TriedOnce, [ClientNext]_allVars
    PROVE  TriedOnce'
<1>q. TypeOK /\ ClientTypeOK /\ DraftInputs /\ WorkInputs /\ EndedAdd
    BY DEF ClientFacts, ClientIInv, IInv, SentAddIInv
<1>1. losses' = 0 /\ work'.answer # "network" /\ ~ExecRetries /\ ~ClientCrash
    BY <1>q, AnswersCome DEF TriedOnce
<1>2. Untried'
    BY <1>q, <1>1, UntriedPreserved DEF TriedOnce
<1>3. work'.phase # "idle" /\ head'.op = "add" => work'.kind # "put"
    BY <1>q, AddsArePosted
<1> QED BY <1>1, <1>2, <1>3 DEF TriedOnce

\* A document comes to the server with its add, whose answer carries a version.
LEMMA ServerComes ==
    ASSUME AnswersArrive, ClientFacts, VersionIInv, TriedOnce, [ClientNext]_allVars, NEW d \in Docs,
           server[d].status = "absent", server'[d].status # "absent"
    PROVE  /\ head'.op = "add" /\ head'.doc = d /\ work'.version # 0
           /\ UNCHANGED doc /\ work'.phase = "answered" /\ d = Target
<1>q. /\ TypeOK /\ ClientTypeOK /\ DraftInputs /\ WorkInputs /\ Informed /\ ServerTells
    BY DEF ClientFacts, ClientIInv, IInv, KnownIInv, VersionIInv
<1>t. server \in [Docs -> ServerDocs] /\ work \in Works
    BY <1>q DEF ClientTypeOK
<1>1. ASSUME NEW e \in Docs, NEW status \in {"live", "gone"}, TheirWrite(e, status) PROVE FALSE
    <2>1. e # d
        BY <1>1 DEF TheirWrite
    <2> QED BY <1>1, <1>t, <2>1 DEF TheirWrite
<1>2. PICK lost \in BOOLEAN : ServerHandles(lost)
    BY <1>1, ServerWriters
<1>3. lost = FALSE
    BY <1>2, <1>q, AnswersCome DEF TriedOnce
<1> DEFINE s == server[Target]
           applies == Applies(work.kind, work.base, s)
           v == IF applies THEN s.version + 1 ELSE s.version
           reply == Reply(work.kind, work.base, s)
<1>4. /\ \E r : server' = [server EXCEPT ![Target] = r]
      /\ server' = [server EXCEPT ![Target] =
                       [status |-> IF ~applies THEN s.status
                                   ELSE IF work.kind = "del" THEN "gone" ELSE "live",
                        val |-> IF applies /\ work.kind # "del" THEN work.sent ELSE s.val,
                        version |-> v]]
      /\ work' = [work EXCEPT !.phase = "answered", !.answer = reply,
                              !.version = IF applies THEN v ELSE 0]
      /\ Executing /\ work.phase = "request" /\ UNCHANGED vars /\ UNCHANGED doc
    BY <1>2, <1>3 DEF ServerHandles, WorkStep
<1>5. d = Target
    BY <1>4, <1>t
<1>6. s.status = "absent" /\ s.version = 0
    BY <1>5, <1>q DEF ServerTells
<1>7. applies
    BY <1>4, <1>5, <1>6, <1>t
<1>8. work.kind = "post"
    <2>1. work.kind \in {"post", "put", "del"}
        BY <1>4, <1>q, <1>t DEF Informed, Works
    <2> QED BY <1>6, <1>7, <2>1 DEF Applies
<1>9. head.op = "add"
    BY <1>4, <1>8, <1>q DEF Informed
<1>10. v = 1
    BY <1>6, <1>7
<1> HIDE DEF reply, applies, v
<1>11. work'.phase = "answered" /\ work'.version = 1
    BY <1>4, <1>7, <1>10, <1>t DEF Works
<1> QED BY <1>4, <1>5, <1>9, <1>11 DEF Target, vars

\* The answer of an add is not forgotten before it is written.
LEMMA AnswerKept ==
    ASSUME AnswersArrive, ClientFacts, VersionIInv, TriedOnce, [ClientNext]_allVars,
           head.op = "add", work.version # 0
    PROVE  \/ head' = head /\ work'.version # 0
           \/ ConfirmWrite /\ head.doc = Target /\ UNCHANGED server
<1>q. /\ TypeOK /\ ClientTypeOK /\ DraftInputs /\ WorkInputs /\ EndedAdd /\ WorkTells
    BY DEF ClientFacts, ClientIInv, IInv, SentAddIInv, VersionIInv
<1>1. /\ work.phase = "confirming" \/ (work.phase = "answered" /\ work.answer = "ok")
      /\ work.phase # "idle"
    BY <1>q DEF WorkTells
<1>2. ~ExecRetries /\ ~ClientCrash
    BY <1>q, AnswersCome DEF TriedOnce
<1>3. CASE UNCHANGED work /\ (Executing => Executing')
    BY <1>1, <1>3, <1>q, TargetStays
<1>4. CASE Execution /\ UNCHANGED vars
    <2>1. CASE ConfirmRead
        <3>1. work'.version = work.version
            <4> DEFINE edited == doc[Target].prev /\ doc[Target].val # work.sent
                       sent == IF edited THEN doc[Target].val ELSE work.sent
            <4>1. work' = [work EXCEPT !.phase = "confirming", !.unsent = edited, !.sent = sent]
                BY <2>1 DEF ConfirmRead, WorkStep
            <4> HIDE DEF edited, sent
            <4> QED BY <4>1, <1>q DEF ClientTypeOK, Works
        <3> QED BY <1>4, <3>1 DEF vars
    <2>2. CASE ConfirmWrite
        BY <2>2 DEF ConfirmWrite, Target
    <2>3. ~ConfirmDelete /\ ~ExecFails
        BY <1>1 DEF ConfirmDelete, ExecFails
    <2>4. /\ ~ExecRead /\ ~AddAsUpdate /\ ~Conflicts /\ ~PullAnswered /\ ~PullRead /\ ~PullWrite
          /\ ~ExecReturns
          /\ \A lost \in BOOLEAN : ~ServerHandles(lost)
          /\ \A answer \in {"network", "refused"} : ~RequestFails(answer)
        BY <1>1 DEF ExecRead, AddAsUpdate, Conflicts, PullAnswered, PullRead, PullWrite,
                    ExecReturns, ServerHandles, RequestFails
    <2> QED BY <1>2, <1>4, <2>1, <2>2, <2>3, <2>4 DEF Execution
<1>5. ~ExecReturns
    BY <1>1 DEF ExecReturns
<1> QED BY <1>2, <1>3, <1>4, <1>5, WorkMoves

\* A document that is on the server is given its version by the answer to its add.
LEMMA AddedVersionsPreserved ==
    ASSUME AnswersArrive, ClientFacts, ClientFacts', VersionIInv, TriedOnce, AddedVersions,
           [ClientNext]_allVars
    PROVE  AddedVersions'
<1> SUFFICES ASSUME NEW d \in Docs, doc'[d].here, doc'[d].version = 0,
                    server'[d].status # "absent"
             PROVE  head'.op = "add" /\ head'.doc = d /\ work'.version # 0
    BY DEF AddedVersions
<1>q. /\ TypeOK /\ ClientTypeOK /\ DraftInputs /\ WorkInputs /\ IngestInputs /\ EndedAdd
      /\ Informed /\ WorkTells /\ IngestTells
    BY StepFacts DEF VersionIInv
<1>1. CASE server[d].status = "absent"
    BY <1>1, ServerComes
<1>2. CASE server[d].status # "absent"
    <2>1. ASSUME NEW c \in Calls, draft[c].doc = d, WriteAdd(c) PROVE FALSE
        BY <1>2, <2>1, AddIsFirst DEF Unheard
    <2>2. ASSUME d = Target, PullWrite, work.write.do = "merge",
                 doc'[d].version = work.write.version
          PROVE  FALSE
        <3>1. work.phase # "idle"
            BY <2>2 DEF PullWrite
        <3> QED BY <1>q, <2>2, <3>1 DEF WorkTells
    <2>3. ASSUME IngestStore, ingest.write.do \in {"put", "merge"},
                 doc'[d].version = ingest.write.version
          PROVE  FALSE
        <3>1. ingest.phase # "idle"
            BY <2>3 DEF IngestStore
        <3> QED BY <1>q, <2>3, <3>1 DEF IngestTells
    <2>4. /\ doc[d].here
          /\ \/ doc'[d].version = doc[d].version
             \/ ConfirmWrite /\ doc'[d].version = ConfirmedVersion(doc[d])
        BY <1>q, <2>1, <2>2, <2>3, VersionSteps
    <2>5. doc[d].version = 0
        BY <2>4 DEF ConfirmedVersion
    <2>6. head.op = "add" /\ head.doc = d /\ work.version # 0
        BY <1>2, <2>4, <2>5 DEF AddedVersions
    <2>7. ~ConfirmWrite
        <3> SUFFICES ASSUME ConfirmWrite PROVE FALSE
            OBVIOUS
        <3>1. work.phase # "idle" /\ d = Target
            BY <2>6 DEF ConfirmWrite, Target
        <3>2. work.kind # "put"
            BY <2>6, <3>1 DEF TriedOnce
        <3>3. doc'[d].version = work.version
            BY <1>q, <2>6, <3>1, <3>2, ConfirmedNow DEF ConfirmedVersion
        <3> QED BY <2>6, <3>3
    <2> QED BY <2>6, <2>7, AnswerKept
<1> QED BY <1>1, <1>2

\* An update that claims no version is about a document that the server does not have.
LEMMA BasedOnPreserved ==
    ASSUME AnswersArrive, ClientFacts, VersionIInv, TriedOnce, AddedVersions, BasedOn,
           [ClientNext]_allVars
    PROVE  BasedOn'
<1> SUFFICES ASSUME work'.phase = "request", work'.kind = "put", work'.base = 0
             PROVE  server'[Target'].status = "absent"
    BY DEF BasedOn
<1>q. /\ TypeOK /\ ClientTypeOK /\ ClientTypeOK' /\ DraftInputs /\ WorkInputs /\ EndedAdd
      /\ Informed /\ GoneIsClean
    BY ClientNextInvariant DEF ClientFacts, ClientIInv, IInv, SentAddIInv, KnownIInv, MarksIInv
<1>1. CASE UNCHANGED work /\ (Executing => Executing')
    <2>1. Target' = Target /\ Target \in Docs
        BY <1>1, <1>q, TargetStays
    <2>2. server[Target].status = "absent"
        BY <1>1 DEF BasedOn
    <2> QED BY <1>1, <2>1, <2>2, ServerComes
<1>2. CASE work' = NoWork
    BY <1>2 DEF NoWork
<1>3. CASE Execution /\ Executing /\ UNCHANGED vars
    <2>0. Target' = Target /\ Target \in Docs /\ head.attempts = 0
        BY <1>3, <1>q, TargetStays DEF TriedOnce, Untried
    <2>1. CASE ExecRead
        <3>1. \/ work' = Request("post", 0)
              \/ head.op = "update" /\ doc[Target].prev /\ work' = Request("put", doc[Target].version)
              \/ work' = Over("done")
              \/ work' = Request("del", 0)
            BY <2>1 DEF ExecRead, WorkStep
        <3>2. \A kind, base : Request(kind, base).kind = kind /\ Request(kind, base).base = base
            BY <1>q DEF Request, ClientTypeOK, Works
        <3>3. Over("done").phase = "over"
            BY DEF Over
        <3>4. head.op = "update" /\ doc[Target].prev /\ doc[Target].version = 0
            BY <3>1, <3>2, <3>3
        <3>5. doc[Target].here
            BY <1>q, <2>0, <3>4 DEF GoneIsClean, Clean
        <3>6. server[Target].status = "absent"
            BY <2>0, <3>4, <3>5 DEF AddedVersions
        <3> QED BY <2>0, <2>1, <3>6 DEF ExecRead
    <2>2. ~AddAsUpdate
        BY <2>0 DEF AddAsUpdate
    <2> QED BY <1>3, <1>q, <2>1, <2>2, WorkFields DEF Execution
<1> QED BY <1>1, <1>2, <1>3, WorkMoves

\* An edit replaces another client's value only when it was sent as based on that
\* value, as long as every request is answered and the client runs on. An add that is
\* tried again, and an edit after an add that a crash interrupted, claim no version.
THEOREM NoEditsLost ==
    ASSUME AnswersArrive
    PROVE  ClientSpec => NoBlindOverwrite
<1> DEFINE Based == \A d \in Docs : server[d].val = "theirs" /\ server'[d].val # "theirs" =>
                        Target = d /\ work.base = server[d].version
           BaseIInv == TriedOnce /\ AddedVersions /\ BasedOn
<1>1. ClientInit => BaseIInv
    <2> SUFFICES ASSUME ClientInit PROVE BaseIInv
        OBVIOUS
    <2>1. TriedOnce
        BY DEF ClientInit, Init, TriedOnce, Untried, NoWork, NoEntry
    <2>2. AddedVersions
        <3>1. PICK known \in SUBSET Docs :
                 doc = [d \in Docs |-> IF d \in known THEN Stored("first", 1) ELSE NoDoc]
            BY DEF ClientInit
        <3>2. Stored("first", 1).version = 1 /\ ~NoDoc.here
            BY DEF Stored, NoDoc
        <3> QED BY <3>1, <3>2 DEF AddedVersions
    <2>3. BasedOn
        BY DEF ClientInit, BasedOn, NoWork
    <2> QED BY <2>1, <2>2, <2>3
<1>2. /\ ClientFacts /\ ClientFacts' /\ VersionIInv /\ BaseIInv /\ [ClientNext]_allVars
      => BaseIInv'
    BY TriedOncePreserved, AddedVersionsPreserved, BasedOnPreserved
<1>3. ASSUME ClientFacts, VersionIInv, BaseIInv, [ClientNext]_allVars
      PROVE  Based
    <2> SUFFICES ASSUME NEW d \in Docs, server[d].val = "theirs", server'[d].val # "theirs"
                 PROVE  Target = d /\ work.base = server[d].version
        OBVIOUS
    <2>q. ClientTypeOK /\ Informed /\ ServerTells
        BY <1>3 DEF ClientFacts, ClientIInv, KnownIInv, VersionIInv
    <2>t. server \in [Docs -> ServerDocs]
        BY <2>q DEF ClientTypeOK
    <2>1. ASSUME NEW e \in Docs, NEW status \in {"live", "gone"}, TheirWrite(e, status)
          PROVE  FALSE
        BY <2>1, <2>t DEF TheirWrite
    <2>2. PICK lost \in BOOLEAN : ServerHandles(lost)
        BY <1>3, <2>1, ServerWriters
    <2> DEFINE s == server[Target]
               applies == Applies(work.kind, work.base, s)
    <2>3. d = Target /\ applies /\ work.kind # "del"
        <3>1. server' = [server EXCEPT ![Target] =
                  [status |-> IF ~applies THEN s.status
                              ELSE IF work.kind = "del" THEN "gone" ELSE "live",
                   val |-> IF applies /\ work.kind # "del" THEN work.sent ELSE s.val,
                   version |-> IF applies THEN s.version + 1 ELSE s.version]]
            BY <2>2 DEF ServerHandles
        <3> HIDE DEF applies
        <3> QED BY <2>t, <3>1
    <2>4. s.status # "absent"
        BY <2>3, <2>q DEF ServerTells
    <2>5. work.kind \in {"post", "put", "del"} /\ work.phase = "request"
        BY <2>2, <2>q DEF ServerHandles, Informed, ClientTypeOK, Works
    <2>6. work.kind = "put"
        BY <2>3, <2>4, <2>5 DEF Applies
    <2>7. work.base \in {0, s.version}
        BY <2>3, <2>6 DEF Applies
    <2>8. work.base # 0
        BY <1>3, <2>4, <2>5, <2>6 DEF BasedOn
    <2> QED BY <2>3, <2>7, <2>8
<1>4. ClientSpec => []BaseIInv
    BY <1>1, <1>2, ClientFactsHold, VersionInvariance, PTL DEF ClientSpec
<1> QED BY <1>3, <1>4, ClientFactsHold, VersionInvariance, PTL DEF ClientSpec, NoBlindOverwrite
=============================================================================
