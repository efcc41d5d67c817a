---------------------------- MODULE Sync_proofs ----------------------------
(***************************************************************************)
(* Proofs about Sync for any number of documents, holders, runs and slots: *)
(* a scope listens exactly while it is in use, and the slots of the reads  *)
(* are counted right however runs start, fail and wait.                    *)
(***************************************************************************)
EXTENDS Sync, FiniteSetTheorems, SequenceTheorems, WellFoundedInduction, TLAPS

USE DEF syncVars, serverVars, scopeVars, runVars, slotVars, realtimeVars, sessionVars

-----------------------------------------------------------------------------
(* Who holds a scope finds it active *)

\* #openRealtime, and the acquiring of a scope: acquire() and #activate.
LEMMA AcquiresKeeps ==
    ASSUME HeldIsActive, NEW h, Acquires(h), UNCHANGED config
    PROVE  HeldIsActive'
<1>1. CASE active
    BY <1>1 DEF HeldIsActive, Acquires
<1>2. CASE ~active
    BY <1>2 DEF HeldIsActive, Acquires, Opened
<1> QED
    BY <1>1, <1>2

\* No step of a run takes the scope from its holders, or its subscription away.
LEMMA StepKeepsHeld ==
    ASSUME HeldIsActive, NEW r \in Runs, Step(r)
    PROVE  HeldIsActive'
<1>1. UNCHANGED <<config, scopeVars>>
    BY DEF Step, Begin, ServerReads, Arrives, ReadFails, Ingest, NextPage, Prune, Finish
<1>2. sub' = sub \/ sub' = Registered
    BY DEF Step, Begin, ServerReads, Arrives, ReadFails, Ingest, NextPage, Prune, Finish
<1> QED
    BY <1>1, <1>2 DEF HeldIsActive, Registered

\* HeldIsActive is inductive as it stands.
LEMMA StepHeldIsActive == HeldIsActive /\ [SyncNext]_syncVars => HeldIsActive'
<1> SUFFICES ASSUME HeldIsActive, [SyncNext]_syncVars
             PROVE  HeldIsActive'
    OBVIOUS
<1>1. ASSUME NEW d \in Docs, NEW version \in 1..MaxVersion, NEW gone \in BOOLEAN, Write(d, version, gone)
      PROVE  HeldIsActive'
    BY <1>1 DEF Write, HeldIsActive
<1>2. CASE Redeploy
    BY <1>2 DEF Redeploy, HeldIsActive
<1>3. ASSUME NEW r \in Runs, Step(r)
      PROVE  HeldIsActive'
    BY <1>3, StepKeepsHeld
<1>4. CASE Answered
  <2>1. UNCHANGED <<config, scopeVars>> /\ sub' = Registered
      BY <1>4 DEF Answered
  <2> QED
      BY <2>1 DEF HeldIsActive, Registered
<1>5. CASE RtTake
    BY <1>5 DEF RtTake, HeldIsActive
<1>6. CASE RtStore
    BY <1>6 DEF RtStore, HeldIsActive
<1>7. CASE Drop
    BY <1>7 DEF Drop, HeldIsActive
<1>8. CASE Reconnected
    BY <1>8 DEF Reconnected, Opened, HeldIsActive
<1>9. ASSUME NEW h \in Holders, Acquire(h)
      PROVE  HeldIsActive'
    BY <1>9, AcquiresKeeps DEF Acquire
<1>10. ASSUME NEW h \in Holders, Release(h)
       PROVE  HeldIsActive'
    BY <1>10 DEF Release, HeldIsActive
<1>11. CASE Restored
    BY <1>11 DEF Restored, HeldIsActive
<1>12. CASE KeepEnds
    BY <1>12 DEF KeepEnds, HeldIsActive
<1>13. CASE Extend
    BY <1>13 DEF Extend, HeldIsActive
<1>14. CASE Start
  <2>1. UNCHANGED config /\ (UNCHANGED <<scopeVars, sub>> \/ Acquires(Persisted))
      BY <1>14 DEF Start
  <2> QED
      BY <2>1, AcquiresKeeps DEF HeldIsActive
<1>15. ASSUME NEW d \in Docs, Evict(d)
       PROVE  HeldIsActive'
    BY <1>15 DEF Evict, HeldIsActive
<1>16. CASE Evicted
    BY <1>16 DEF Evicted, HeldIsActive
<1>17. CASE FlushStorage
    BY <1>17 DEF FlushStorage, HeldIsActive
<1>18. CASE Cleared
    BY <1>18 DEF Cleared, HeldIsActive
<1>19. CASE Restart
    BY <1>19 DEF Restart, HeldIsActive
<1>20. CASE DayPasses
    BY <1>20 DEF DayPasses, HeldIsActive
<1>21. CASE UNCHANGED syncVars
    BY <1>21 DEF HeldIsActive
<1> QED
    BY <1>1, <1>2, <1>3, <1>4, <1>5, <1>6, <1>7, <1>8, <1>9, <1>10, <1>11, <1>12, <1>13, <1>14, <1>15,
       <1>16, <1>17, <1>18, <1>19, <1>20, <1>21 DEF SyncNext

\* acquire(), #release and the timer: whoever holds a scope finds it active, and listening, and a scope
\* nobody uses any more does not listen, for any holders, runs and faults.
THEOREM HeldScopesListen == SyncSpec => []HeldIsActive
<1>1. SyncInit => HeldIsActive
    BY DEF SyncInit, HeldIsActive
<1> QED
    BY <1>1, StepHeldIsActive, PTL DEF SyncSpec

-----------------------------------------------------------------------------
(* The slots of the reads *)

\* What SlotsKept rests on: runs are records with a phase, those not begun yet have none, and runs queue up.
RunsShaped ==
    /\ used \in Nat
    /\ reads \in Nat
    /\ waiting \in Seq(Runs)
    /\ runs = [q \in Runs |-> runs[q]]
    /\ \A q \in Runs : "phase" \in DOMAIN runs[q]
    /\ \A q \in Runs : q > used => runs[q].phase = "none"

\* The runs that hold a slot.
Reading == {q \in Runs : runs[q].phase \in {"reading", "answered"}}

SlotsIInv == RunsShaped /\ SlotsKept

LEMMA ReadingFinite == IsFiniteSet(Reading) /\ Cardinality(Reading) \in Nat
<1>1. IsFiniteSet(Runs)
    BY FS_Interval, SizesAssumption DEF Runs
<1> QED
    BY <1>1, FS_Subset, FS_CardinalityType DEF Reading

\* A step that takes no run into or out of a slot or the queue keeps them right.
LEMMA SamePhases ==
    ASSUME SlotsIInv, RunsShaped', UNCHANGED slotVars,
           \A q \in Runs : \/ runs'[q].phase = runs[q].phase
                          \/ {runs'[q].phase, runs[q].phase} \cap {"reading", "answered", "waiting"} = {}
                          \/ {runs'[q].phase, runs[q].phase} \subseteq {"reading", "answered"}
    PROVE  SlotsIInv'
<1>1. Reading' = Reading
    BY DEF Reading
<1>2. {q \in Runs : runs'[q].phase = "waiting"} = {q \in Runs : runs[q].phase = "waiting"}
    OBVIOUS
<1> QED
    BY <1>1, <1>2 DEF SlotsIInv, SlotsKept, Reading

\* #slot, for a run that neither reads nor waits.
LEMMA SlotForKeeps ==
    ASSUME SlotsIInv, UNCHANGED used, NEW r \in 1..used, r \in Runs, NEW run, "phase" \in DOMAIN run,
           runs[r].phase \notin {"reading", "answered", "waiting"}, SlotFor(r, run)
    PROVE  SlotsIInv'
<1>1. CASE reads < Slots
  <2>1. /\ runs' = [runs EXCEPT ![r] = [run EXCEPT !.phase = "reading"]]
        /\ reads' = reads + 1 /\ waiting' = waiting
      BY <1>1 DEF SlotFor
  <2>2. runs'[r].phase = "reading" /\ \A q \in Runs \ {r} : runs'[q] = runs[q]
      BY <2>1 DEF SlotsIInv, RunsShaped
  <2>3. RunsShaped'
    <3>1. /\ runs' = [q \in Runs |-> runs'[q]] /\ reads' \in Nat /\ used' \in Nat
          /\ waiting' \in Seq(Runs)
        BY <2>1 DEF SlotsIInv, RunsShaped
    <3>2. ASSUME NEW q \in Runs PROVE "phase" \in DOMAIN runs'[q] /\ (q > used' => runs'[q].phase = "none")
        BY <2>1, <2>2 DEF SlotsIInv, RunsShaped
    <3> QED
        BY <3>1, <3>2 DEF RunsShaped
  <2>4. Reading' = Reading \cup {r} /\ r \notin Reading
    <3>1. ASSUME NEW q \in Runs PROVE q \in Reading' <=> q \in Reading \/ q = r
        BY <2>2 DEF Reading
    <3>2. Reading' \subseteq Runs /\ Reading \subseteq Runs
        BY DEF Reading
    <3>3. r \notin Reading
        BY DEF Reading
    <3> QED
        BY <3>1, <3>2, <3>3
  <2>5. Cardinality(Reading') = Cardinality(Reading) + 1
      BY <2>4, ReadingFinite, FS_AddElement
  <2>6. {q \in Runs : runs'[q].phase = "waiting"} = {q \in Runs : runs[q].phase = "waiting"}
      BY <2>2
  <2>7. waiting = <<>>
      BY <1>1, SizesAssumption DEF SlotsIInv, SlotsKept, RunsShaped
  <2>8. reads + 1 <= Slots /\ reads + 1 = Cardinality(Reading')
      BY <1>1, <2>5, SizesAssumption DEF SlotsIInv, SlotsKept, RunsShaped, Reading
  <2> QED
      BY <2>1, <2>3, <2>6, <2>7, <2>8 DEF SlotsIInv, SlotsKept, Reading
<1>2. CASE ~(reads < Slots)
  <2>1. /\ runs' = [runs EXCEPT ![r] = [run EXCEPT !.phase = "waiting"]]
        /\ reads' = reads /\ waiting' = Append(waiting, r)
      BY <1>2 DEF SlotFor
  <2>2. runs'[r].phase = "waiting" /\ \A q \in Runs \ {r} : runs'[q] = runs[q]
      BY <2>1 DEF SlotsIInv, RunsShaped
  <2>3. waiting \in Seq(Runs) /\ waiting' \in Seq(Runs)
      BY <2>1 DEF SlotsIInv, RunsShaped
  <2>4. RunsShaped'
    <3>1. runs' = [q \in Runs |-> runs'[q]] /\ reads' \in Nat /\ used' \in Nat
        BY <2>1 DEF SlotsIInv, RunsShaped
    <3>2. ASSUME NEW q \in Runs PROVE "phase" \in DOMAIN runs'[q] /\ (q > used' => runs'[q].phase = "none")
        BY <2>1, <2>2 DEF SlotsIInv, RunsShaped
    <3> QED
        BY <2>3, <3>1, <3>2 DEF RunsShaped
  <2>5. Reading' = Reading
      BY <2>2 DEF Reading
  <2>6. {q \in Runs : runs'[q].phase = "waiting"} = {q \in Runs : runs[q].phase = "waiting"} \cup {r}
      BY <2>2
  <2>7. /\ Len(waiting') = Len(waiting) + 1
        /\ \A i \in 1..Len(waiting) : waiting'[i] = waiting[i]
        /\ waiting'[Len(waiting) + 1] = r
        /\ DOMAIN waiting = 1..Len(waiting) /\ DOMAIN waiting' = 1..Len(waiting) + 1 /\ Len(waiting) \in Nat
      BY <2>1, <2>3
  <2>8. Range(waiting') = Range(waiting) \cup {r} /\ r \notin Range(waiting)
    <3>1. r \notin Range(waiting)
        BY DEF SlotsIInv, SlotsKept
    <3>2. ASSUME NEW x \in Range(waiting) PROVE x \in Range(waiting')
        BY <2>7 DEF Range
    <3>3. ASSUME NEW x \in Range(waiting') PROVE x \in Range(waiting) \cup {r}
        BY <2>7 DEF Range
    <3>4. r \in Range(waiting')
        BY <2>7 DEF Range
    <3> QED
        BY <3>1, <3>2, <3>3, <3>4
  <2>9. IsInjective(waiting')
      BY <2>7, <2>8 DEF SlotsIInv, SlotsKept, IsInjective, Range
  <2>10. reads = Slots
      BY <1>2, SizesAssumption DEF SlotsIInv, SlotsKept, RunsShaped
  <2> QED
      BY <2>1, <2>4, <2>5, <2>6, <2>8, <2>9, <2>10 DEF SlotsIInv, SlotsKept, Reading
<1> QED
    BY <1>1, <1>2

\* The end of #read, for a run that had a slot and goes on without one.
LEMMA SlotFromKeeps ==
    ASSUME SlotsIInv, UNCHANGED used, NEW r \in 1..used, r \in Reading, NEW run, "phase" \in DOMAIN run,
           run.phase \notin {"reading", "answered", "waiting"}, SlotFrom(r, run)
    PROVE  SlotsIInv'
<1>r. r \in Runs /\ runs[r].phase \in {"reading", "answered"}
    BY DEF Reading
<1>1. CASE waiting = <<>>
  <2>1. runs' = [runs EXCEPT ![r] = run] /\ reads' = reads - 1 /\ waiting' = waiting
      BY <1>1 DEF SlotFrom
  <2>2. runs'[r] = run /\ \A q \in Runs \ {r} : runs'[q] = runs[q]
      BY <2>1, <1>r DEF SlotsIInv, RunsShaped
  <2>3. Reading' = Reading \ {r}
    <3>1. ASSUME NEW q \in Runs PROVE q \in Reading' <=> q \in Reading /\ q # r
        BY <2>2 DEF Reading
    <3>2. Reading' \subseteq Runs /\ Reading \subseteq Runs
        BY DEF Reading
    <3> QED
        BY <3>1, <3>2
  <2>4. Cardinality(Reading') = Cardinality(Reading) - 1 /\ Cardinality(Reading') \in Nat
      BY <2>3, ReadingFinite, FS_RemoveElement, FS_CardinalityType
  <2>5. reads' = Cardinality(Reading') /\ reads' <= Slots /\ reads' \in Nat
      BY <2>1, <2>4, ReadingFinite, SizesAssumption DEF SlotsIInv, SlotsKept, Reading
  <2>6. RunsShaped'
    <3>1. runs' = [q \in Runs |-> runs'[q]] /\ used' \in Nat /\ waiting' \in Seq(Runs)
        BY <2>1 DEF SlotsIInv, RunsShaped
    <3>2. ASSUME NEW q \in Runs PROVE "phase" \in DOMAIN runs'[q] /\ (q > used' => runs'[q].phase = "none")
        BY <2>2 DEF SlotsIInv, RunsShaped
    <3> QED
        BY <2>5, <3>1, <3>2 DEF RunsShaped
  <2>7. {q \in Runs : runs'[q].phase = "waiting"} = {q \in Runs : runs[q].phase = "waiting"}
      BY <2>2, <1>r
  <2> QED
      BY <1>1, <2>1, <2>5, <2>6, <2>7 DEF SlotsIInv, SlotsKept, Reading
<1>2. CASE waiting # <<>>
  <2> DEFINE w == Head(waiting)
  <2>1. /\ runs' = [runs EXCEPT ![r] = run, ![w].phase = "reading"]
        /\ reads' = reads /\ waiting' = Tail(waiting)
      BY <1>2 DEF SlotFrom
  <2>2. /\ waiting \in Seq(Runs) /\ Len(waiting) \in Nat \ {0} /\ DOMAIN waiting = 1..Len(waiting)
        /\ w = waiting[1] /\ w \in Runs
        /\ waiting' \in Seq(Runs) /\ Len(waiting') = Len(waiting) - 1 /\ DOMAIN waiting' = 1..Len(waiting')
        /\ \A i \in 1..Len(waiting') : waiting'[i] = waiting[i + 1]
      BY <2>1, <1>2 DEF SlotsIInv, RunsShaped
  <2>3. w \in Range(waiting) /\ runs[w].phase = "waiting" /\ w # r
      BY <2>2, <1>r DEF SlotsIInv, SlotsKept, Range
  <2>4. /\ runs'[r] = run /\ runs'[w] = [runs[w] EXCEPT !.phase = "reading"]
        /\ \A q \in Runs \ {r, w} : runs'[q] = runs[q]
      BY <2>1, <2>2, <2>3, <1>r DEF SlotsIInv, RunsShaped
  <2>5. runs'[w].phase = "reading" /\ "phase" \in DOMAIN runs'[w]
      BY <2>4, <2>2 DEF SlotsIInv, RunsShaped
  <2>6. Reading' = (Reading \ {r}) \cup {w} /\ w \notin Reading
    <3>1. ASSUME NEW q \in Runs PROVE q \in Reading' <=> (q \in Reading /\ q # r) \/ q = w
        BY <2>4, <2>5, <2>2 DEF Reading
    <3>2. Reading' \subseteq Runs /\ Reading \subseteq Runs /\ w \notin Reading
        BY <2>3 DEF Reading
    <3> QED
        BY <3>1, <3>2, <2>2
  <2>7. Cardinality(Reading') = Cardinality(Reading)
    <3>1. IsFiniteSet(Reading \ {r}) /\ Cardinality(Reading \ {r}) = Cardinality(Reading) - 1
        BY ReadingFinite, FS_RemoveElement
    <3>2. Cardinality((Reading \ {r}) \cup {w}) = Cardinality(Reading \ {r}) + 1
        BY <3>1, <2>6, FS_AddElement
    <3> QED
        BY <3>1, <3>2, <2>6, ReadingFinite
  <2>8. RunsShaped'
    <3>1. runs' = [q \in Runs |-> runs'[q]] /\ used' \in Nat /\ reads' \in Nat
        BY <2>1 DEF SlotsIInv, RunsShaped
    <3>2. ~(w > used)
        BY <2>3, <2>2 DEF SlotsIInv, RunsShaped
    <3>3. ASSUME NEW q \in Runs PROVE "phase" \in DOMAIN runs'[q] /\ (q > used' => runs'[q].phase = "none")
        BY <2>4, <2>5, <3>2 DEF SlotsIInv, RunsShaped
    <3> QED
        BY <2>2, <3>1, <3>3 DEF RunsShaped
  <2>9. {q \in Runs : runs'[q].phase = "waiting"} = {q \in Runs : runs[q].phase = "waiting"} \ {w}
      BY <2>4, <2>5, <1>r
  <2>10. IsInjective(waiting) /\ Range(waiting) = {q \in Runs : runs[q].phase = "waiting"}
      BY DEF SlotsIInv, SlotsKept
  <2>11. Range(waiting') = Range(waiting) \ {w}
    <3>1. ASSUME NEW x \in Range(waiting') PROVE x \in Range(waiting) \ {w}
      <4>1. PICK i \in 1..Len(waiting') : x = waiting'[i]
          BY <2>2 DEF Range
      <4>2. i + 1 \in 1..Len(waiting) /\ 1 \in 1..Len(waiting) /\ i + 1 # 1 /\ x = waiting[i + 1]
          BY <4>1, <2>2
      <4> QED
          BY <4>2, <2>2, <2>10 DEF Range, IsInjective
    <3>2. ASSUME NEW x \in Range(waiting) \ {w} PROVE x \in Range(waiting')
      <4>1. PICK i \in 1..Len(waiting) : x = waiting[i]
          BY <2>2 DEF Range
      <4>2. i - 1 \in 1..Len(waiting') /\ waiting'[i - 1] = x
          BY <4>1, <2>2
      <4> QED
          BY <4>2, <2>2 DEF Range
    <3> QED
        BY <3>1, <3>2
  <2>12. IsInjective(waiting')
    <3>1. ASSUME NEW i \in 1..Len(waiting'), NEW j \in 1..Len(waiting'), waiting'[i] = waiting'[j]
          PROVE  i = j
      <4>1. /\ i + 1 \in 1..Len(waiting) /\ j + 1 \in 1..Len(waiting)
            /\ waiting[i + 1] = waiting[j + 1]
          BY <2>2, <3>1
      <4>2. i + 1 = j + 1
          BY <4>1, <2>2, <2>10 DEF IsInjective
      <4> QED
          BY <4>2
    <3> QED
        BY <3>1, <2>2 DEF IsInjective
  <2>13. reads = Slots
      BY <1>2 DEF SlotsIInv, SlotsKept
  <2> HIDE DEF w
  <2> QED
      BY <2>1, <2>7, <2>8, <2>9, <2>10, <2>11, <2>12, <2>13 DEF SlotsIInv, SlotsKept, Reading
<1> QED
    BY <1>1, <1>2

\* A run that began has a place among those used.
LEMMA BegunIsUsed ==
    ASSUME SlotsIInv, NEW r \in Runs, runs[r].phase # "none"
    PROVE  r \in 1..used
BY SizesAssumption DEF SlotsIInv, RunsShaped, Runs

\* A run goes on, and neither takes nor gives back a slot.
LEMMA OneRun ==
    ASSUME SlotsIInv, UNCHANGED <<used, slotVars>>, NEW r \in Runs, runs[r].phase # "none",
           NEW run, "phase" \in DOMAIN run, runs' = [runs EXCEPT ![r] = run],
           \/ {run.phase, runs[r].phase} \cap {"reading", "answered", "waiting"} = {}
           \/ {run.phase, runs[r].phase} \subseteq {"reading", "answered"}
    PROVE  SlotsIInv'
<1>1. runs'[r] = run /\ \A q \in Runs \ {r} : runs'[q] = runs[q]
    BY DEF SlotsIInv, RunsShaped
<1>2. ~(r > used)
    BY DEF SlotsIInv, RunsShaped
<1>3. RunsShaped'
  <2>1. runs' = [q \in Runs |-> runs'[q]] /\ used' \in Nat /\ reads' \in Nat /\ waiting' \in Seq(Runs)
      BY DEF SlotsIInv, RunsShaped
  <2>2. ASSUME NEW q \in Runs PROVE "phase" \in DOMAIN runs'[q] /\ (q > used' => runs'[q].phase = "none")
      BY <1>1, <1>2 DEF SlotsIInv, RunsShaped
  <2> QED
      BY <2>1, <2>2 DEF RunsShaped
<1>4. ASSUME NEW q \in Runs
      PROVE  \/ runs'[q].phase = runs[q].phase
             \/ {runs'[q].phase, runs[q].phase} \cap {"reading", "answered", "waiting"} = {}
             \/ {runs'[q].phase, runs[q].phase} \subseteq {"reading", "answered"}
    BY <1>1
<1> QED
    BY <1>3, <1>4, SamePhases

\* Steps that leave the phase of every run alone.
LEMMA Untouched ==
    ASSUME SlotsIInv, UNCHANGED <<used, slotVars>>, runs' = [q \in Runs |-> runs'[q]],
           \A q \in Runs : "phase" \in DOMAIN runs'[q] /\ runs'[q].phase = runs[q].phase
    PROVE  SlotsIInv'
<1>1. RunsShaped'
    BY DEF SlotsIInv, RunsShaped
<1> QED
    BY <1>1, SamePhases

\* A flag set on the runs that began leaves their phases alone.
LEMMA FlagKeepsPhases ==
    ASSUME RunsShaped, NEW f \in {"old", "disturbed"}
    PROVE  /\ Flag(runs, f) = [q \in Runs |-> Flag(runs, f)[q]]
           /\ \A q \in Runs : "phase" \in DOMAIN Flag(runs, f)[q] /\ Flag(runs, f)[q].phase = runs[q].phase
<1>1. Flag(runs, f) = [q \in Runs |-> IF runs[q].phase \in Begun THEN [runs[q] EXCEPT ![f] = TRUE] ELSE runs[q]]
    BY DEF Flag
<1>2. ASSUME NEW q \in Runs
      PROVE  "phase" \in DOMAIN [runs[q] EXCEPT ![f] = TRUE] /\ [runs[q] EXCEPT ![f] = TRUE].phase = runs[q].phase
    BY DEF RunsShaped
<1> QED
    BY <1>1, <1>2 DEF RunsShaped

\* A run is queued, for a function of runs whose phases are those of the present ones.
LEMMA QueueKeeps ==
    ASSUME SlotsIInv, UNCHANGED slotVars, NEW rs, rs = [q \in Runs |-> rs[q]],
           \A q \in Runs : "phase" \in DOMAIN rs[q] /\ rs[q].phase = runs[q].phase,
           NEW kind, NEW after, Queue(rs, kind, after)
    PROVE  SlotsIInv'
<1>1. used + 1 \in Runs /\ used' = used + 1 /\ used \in Nat
    BY SizesAssumption DEF Queue, SlotsIInv, RunsShaped, Runs
<1>2. /\ runs' = [rs EXCEPT ![used + 1] = [NoRun EXCEPT !.phase = "chained", !.kind = kind, !.after = after]]
      /\ [NoRun EXCEPT !.phase = "chained", !.kind = kind, !.after = after].phase = "chained"
      /\ "phase" \in DOMAIN [NoRun EXCEPT !.phase = "chained", !.kind = kind, !.after = after]
    BY DEF Queue, NoRun
<1>3. /\ runs'[used + 1].phase = "chained" /\ "phase" \in DOMAIN runs'[used + 1]
      /\ \A q \in Runs \ {used + 1} : runs'[q] = rs[q]
    BY <1>1, <1>2
<1>4. runs[used + 1].phase = "none"
    BY <1>1 DEF SlotsIInv, RunsShaped
<1>5. RunsShaped'
  <2>1. runs' = [q \in Runs |-> runs'[q]] /\ used' \in Nat /\ reads' \in Nat /\ waiting' \in Seq(Runs)
      BY <1>1, <1>2 DEF SlotsIInv, RunsShaped
  <2>2. ASSUME NEW q \in Runs PROVE "phase" \in DOMAIN runs'[q] /\ (q > used' => runs'[q].phase = "none")
      BY <1>1, <1>3 DEF SlotsIInv, RunsShaped, Runs
  <2> QED
      BY <2>1, <2>2 DEF RunsShaped
<1>6. ASSUME NEW q \in Runs
      PROVE  \/ runs'[q].phase = runs[q].phase
             \/ {runs'[q].phase, runs[q].phase} \cap {"reading", "answered", "waiting"} = {}
    BY <1>3, <1>4
<1> QED
    BY <1>5, <1>6, SamePhases

\* The steps of a run.
LEMMA StepKeepsSlots ==
    ASSUME SlotsIInv, NEW r \in Runs, Step(r)
    PROVE  SlotsIInv'
<1>r. "phase" \in DOMAIN runs[r]
    BY DEF SlotsIInv, RunsShaped
<1>1. CASE Begin(r)
  <2>1. runs[r].phase = "chained" /\ used' = used
      BY <1>1 DEF Begin
  <2>2. r \in 1..used
      BY <2>1, BegunIsUsed
  <2>3. CASE runs' = [runs EXCEPT ![r] = [NoRun EXCEPT !.phase = "over"]] /\ UNCHANGED slotVars
    <3>1. [NoRun EXCEPT !.phase = "over"].phase = "over" /\ "phase" \in DOMAIN [NoRun EXCEPT !.phase = "over"]
        BY DEF NoRun
    <3> QED
        BY <2>1, <2>3, <3>1, OneRun
  <2>4. CASE SlotFor(r, Starting(r))
    <3>1. "phase" \in DOMAIN Starting(r)
        BY <1>r DEF Starting
    <3> QED
        BY <2>1, <2>2, <2>4, <3>1, SlotForKeeps
  <2> QED
      BY <1>1, <2>3, <2>4 DEF Begin
<1>2. CASE ServerReads(r)
  <2>1. PICK page, cursor, more, says, count :
            runs' = [runs EXCEPT ![r] = [runs[r] EXCEPT !.phase = "answered", !.page = page, !.cursor = cursor,
                                                        !.more = more, !.says = says, !.count = count]]
      BY <1>2 DEF ServerReads
  <2> DEFINE run == [runs[r] EXCEPT !.phase = "answered", !.page = page, !.cursor = cursor,
                                    !.more = more, !.says = says, !.count = count]
  <2>2. run.phase = "answered" /\ "phase" \in DOMAIN run
      BY <1>r
  <2>3. runs[r].phase = "reading" /\ UNCHANGED <<used, slotVars>>
      BY <1>2 DEF ServerReads
  <2> HIDE DEF run
  <2> QED
      BY <2>1, <2>2, <2>3, OneRun DEF run
<1>3. CASE Arrives(r)
  <2>1. runs[r].phase = "answered" /\ used' = used
      BY <1>3 DEF Arrives
  <2>2. r \in 1..used /\ r \in Reading
      BY <2>1, BegunIsUsed DEF Reading
  <2>3. CASE runs[r].kind = "delta" /\ ~runs[r].says
    <3> DEFINE run == [runs[r] EXCEPT !.phase = "ingested", !.kind = "refresh", !.page = <<>>,
                                      !.cursor = 0, !.count = 0, !.more = TRUE]
    <3>1. run.phase = "ingested" /\ "phase" \in DOMAIN run
        BY <1>r
    <3>2. SlotFrom(r, run)
        BY <1>3, <2>3 DEF Arrives
    <3> HIDE DEF run
    <3> QED
        BY <2>1, <2>2, <3>1, <3>2, SlotFromKeeps
  <2>4. CASE ~(runs[r].kind = "delta" /\ ~runs[r].says)
    <3> DEFINE run == [runs[r] EXCEPT !.phase = IF runs[r].page = <<>> THEN "ingested" ELSE "ingesting"]
    <3>1. run.phase \in {"ingested", "ingesting"} /\ "phase" \in DOMAIN run
        BY <1>r
    <3>2. SlotFrom(r, run)
        BY <1>3, <2>4 DEF Arrives
    <3> HIDE DEF run
    <3> QED
        BY <2>1, <2>2, <3>1, <3>2, SlotFromKeeps
  <2> QED
      BY <2>3, <2>4
<1>4. CASE ReadFails(r)
  <2>1. runs[r].phase \in {"reading", "answered"} /\ used' = used /\ SlotFrom(r, [NoRun EXCEPT !.phase = "over"])
      BY <1>4 DEF ReadFails
  <2>2. r \in 1..used /\ r \in Reading
      BY <2>1, BegunIsUsed DEF Reading
  <2>3. [NoRun EXCEPT !.phase = "over"].phase = "over" /\ "phase" \in DOMAIN [NoRun EXCEPT !.phase = "over"]
      BY DEF NoRun
  <2> QED
      BY <2>1, <2>2, <2>3, SlotFromKeeps
<1>5. CASE Ingest(r)
  <2>1. PICK page, seen, phase : /\ phase \in {"ingested", runs[r].phase}
                                 /\ runs' = [runs EXCEPT ![r] = [runs[r] EXCEPT !.page = page, !.seen = seen,
                                                                               !.phase = phase]]
      BY <1>5 DEF Ingest
  <2> DEFINE run == [runs[r] EXCEPT !.page = page, !.seen = seen, !.phase = phase]
  <2>2. run.phase = phase /\ "phase" \in DOMAIN run
      BY <1>r
  <2>3. runs[r].phase = "ingesting" /\ UNCHANGED <<used, slotVars>>
      BY <1>5 DEF Ingest
  <2> HIDE DEF run
  <2> QED
      BY <2>1, <2>2, <2>3, OneRun DEF run
<1>6. CASE NextPage(r)
  <2>1. runs[r].phase = "ingested" /\ used' = used /\ SlotFor(r, runs[r])
      BY <1>6 DEF NextPage
  <2>2. r \in 1..used
      BY <2>1, BegunIsUsed
  <2> QED
      BY <1>r, <2>1, <2>2, SlotForKeeps
<1>7. CASE Prune(r)
  <2>1. PICK page, phase : /\ phase \in {"ingested", "ingesting"}
                           /\ runs' = [runs EXCEPT ![r] = [runs[r] EXCEPT !.kind = "prune", !.phase = phase,
                                                                         !.page = page]]
      BY <1>7 DEF Prune
  <2> DEFINE run == [runs[r] EXCEPT !.kind = "prune", !.phase = phase, !.page = page]
  <2>2. run.phase = phase /\ "phase" \in DOMAIN run
      BY <1>r
  <2>3. runs[r].phase = "ingested" /\ UNCHANGED <<used, slotVars>>
      BY <1>7 DEF Prune
  <2> HIDE DEF run
  <2> QED
      BY <2>1, <2>2, <2>3, OneRun DEF run
<1>8. CASE Finish(r)
  <2>1. /\ runs[r].phase = "ingested" /\ UNCHANGED <<used, slotVars>>
        /\ runs' = [runs EXCEPT ![r] = [NoRun EXCEPT !.phase = "over"]]
      BY <1>8 DEF Finish
  <2>2. [NoRun EXCEPT !.phase = "over"].phase = "over" /\ "phase" \in DOMAIN [NoRun EXCEPT !.phase = "over"]
      BY DEF NoRun
  <2> QED
      BY <2>1, <2>2, OneRun
<1> QED
    BY <1>1, <1>2, <1>3, <1>4, <1>5, <1>6, <1>7, <1>8 DEF Step

\* A step in which the scope is acquired.
LEMMA AcquiresKeepsSlots ==
    ASSUME SlotsIInv, UNCHANGED slotVars, NEW h, Acquires(h)
    PROVE  SlotsIInv'
<1>1. CASE active
    BY <1>1, Untouched DEF Acquires, SlotsIInv, RunsShaped
<1>2. CASE ~active
  <2>1. Queue(Flag(runs, "old"), "catchup", last)
      BY <1>2 DEF Acquires
  <2> QED
      BY <2>1, FlagKeepsPhases, QueueKeeps DEF SlotsIInv
<1> QED
    BY <1>1, <1>2

\* A step that does nothing to the runs and the slots.
LEMMA RunsUntouched ==
    ASSUME SlotsIInv, UNCHANGED <<runVars, slotVars>>
    PROVE  SlotsIInv'
BY Untouched DEF SlotsIInv, RunsShaped

\* A step that only notes in the runs that the device was emptied.
LEMMA DisturbedKeepsSlots ==
    ASSUME SlotsIInv, UNCHANGED <<used, slotVars>>, runs' = Flag(runs, "disturbed")
    PROVE  SlotsIInv'
BY FlagKeepsPhases, Untouched DEF SlotsIInv

LEMMA StepSlots == SlotsIInv /\ [SyncNext]_syncVars => SlotsIInv'
<1> SUFFICES ASSUME SlotsIInv, [SyncNext]_syncVars
             PROVE  SlotsIInv'
    OBVIOUS
<1>1. ASSUME NEW d \in Docs, NEW version \in 1..MaxVersion, NEW gone \in BOOLEAN, Write(d, version, gone)
      PROVE  SlotsIInv'
  <2>1. /\ UNCHANGED <<used, slotVars>>
        /\ runs' = [r \in Runs |-> IF runs[r].phase \in Begun
                                  THEN [runs[r] EXCEPT !.dirty = @ \cup {d}] ELSE runs[r]]
      BY <1>1 DEF Write
  <2>2. ASSUME NEW q \in Runs
        PROVE  /\ "phase" \in DOMAIN [runs[q] EXCEPT !.dirty = @ \cup {d}]
               /\ [runs[q] EXCEPT !.dirty = @ \cup {d}].phase = runs[q].phase
    <3> DEFINE dirty == runs[q].dirty \cup {d}
    <3>1. "phase" \in DOMAIN runs[q]
        BY DEF SlotsIInv, RunsShaped
    <3> HIDE DEF dirty
    <3>2. /\ "phase" \in DOMAIN [runs[q] EXCEPT !.dirty = dirty]
          /\ [runs[q] EXCEPT !.dirty = dirty].phase = runs[q].phase
        BY <3>1
    <3> QED
        BY <3>2 DEF dirty
  <2>3. ASSUME NEW q \in Runs PROVE "phase" \in DOMAIN runs'[q] /\ runs'[q].phase = runs[q].phase
      BY <2>1, <2>2 DEF SlotsIInv, RunsShaped
  <2>4. runs' = [q \in Runs |-> runs'[q]]
      BY <2>1
  <2> QED
      BY <2>1, <2>3, <2>4, Untouched
<1>2. CASE Redeploy
    BY <1>2, RunsUntouched DEF Redeploy
<1>3. ASSUME NEW r \in Runs, Step(r)
      PROVE  SlotsIInv'
    BY <1>3, StepKeepsSlots
<1>4. CASE Answered
    BY <1>4, RunsUntouched DEF Answered
<1>5. CASE RtTake
    BY <1>5, RunsUntouched DEF RtTake
<1>6. CASE RtStore
    BY <1>6, RunsUntouched DEF RtStore
<1>7. CASE Drop
    BY <1>7, RunsUntouched DEF Drop
<1>8. CASE Reconnected
  <2>1. Queue(Flag(runs, "old"), "catchup", last) /\ UNCHANGED slotVars
      BY <1>8 DEF Reconnected
  <2> QED
      BY <2>1, FlagKeepsPhases, QueueKeeps DEF SlotsIInv
<1>9. ASSUME NEW h \in Holders, Acquire(h)
      PROVE  SlotsIInv'
    BY <1>9, AcquiresKeepsSlots DEF Acquire
<1>10. ASSUME NEW h \in Holders, Release(h)
       PROVE  SlotsIInv'
    BY <1>10, RunsUntouched DEF Release
<1>11. CASE Restored
    BY <1>11, RunsUntouched DEF Restored
<1>12. CASE KeepEnds
    BY <1>12, RunsUntouched DEF KeepEnds
<1>13. CASE Extend
  <2>1. Queue(runs, "extend", last) /\ UNCHANGED slotVars
      BY <1>13 DEF Extend
  <2> QED
      BY <2>1, QueueKeeps DEF SlotsIInv, RunsShaped
<1>14. CASE Start
  <2>1. UNCHANGED slotVars /\ (UNCHANGED runVars \/ Acquires(Persisted))
      BY <1>14 DEF Start
  <2> QED
      BY <2>1, RunsUntouched, AcquiresKeepsSlots
<1>15. ASSUME NEW d \in Docs, Evict(d)
       PROVE  SlotsIInv'
    BY <1>15, DisturbedKeepsSlots DEF Evict
<1>16. CASE Evicted
    BY <1>16, RunsUntouched DEF Evicted
<1>17. CASE FlushStorage
    BY <1>17, DisturbedKeepsSlots DEF FlushStorage
<1>18. CASE Cleared
  <2>1. UNCHANGED slotVars /\ (UNCHANGED runVars \/ Queue(runs, "catchup", used + 1))
      BY <1>18 DEF Cleared
  <2> QED
      BY <2>1, RunsUntouched, QueueKeeps DEF SlotsIInv, RunsShaped
<1>19. CASE Restart
  <2>1. runs' = [r \in Runs |-> NoRun] /\ used' = used /\ reads' = 0 /\ waiting' = <<>>
      BY <1>19 DEF Restart
  <2>2. NoRun.phase = "none" /\ "phase" \in DOMAIN NoRun
      BY DEF NoRun
  <2>3. RunsShaped'
      BY <2>1, <2>2 DEF SlotsIInv, RunsShaped
  <2>4. Reading' = {} /\ {q \in Runs : runs'[q].phase = "waiting"} = {}
      BY <2>1, <2>2 DEF Reading
  <2>5. Range(waiting') = {} /\ IsInjective(waiting')
      BY <2>1 DEF Range, IsInjective
  <2>6. Cardinality(Reading') = 0 /\ 0 <= Slots
      BY <2>4, FS_EmptySet, SizesAssumption
  <2> QED
      BY <2>1, <2>3, <2>4, <2>5, <2>6 DEF SlotsIInv, SlotsKept, Reading
<1>20. CASE DayPasses
    BY <1>20, RunsUntouched DEF DayPasses
<1>21. CASE UNCHANGED syncVars
    BY <1>21, RunsUntouched
<1> QED
    BY <1>1, <1>2, <1>3, <1>4, <1>5, <1>6, <1>7, <1>8, <1>9, <1>10, <1>11, <1>12, <1>13, <1>14, <1>15,
       <1>16, <1>17, <1>18, <1>19, <1>20, <1>21 DEF SyncNext

LEMMA InitSlots == SyncInit => SlotsIInv
<1> SUFFICES ASSUME SyncInit PROVE SlotsIInv
    OBVIOUS
<1>1. runs = [r \in Runs |-> NoRun] /\ used = 0 /\ reads = 0 /\ waiting = <<>>
    BY DEF SyncInit
<1>2. NoRun.phase = "none" /\ "phase" \in DOMAIN NoRun
    BY DEF NoRun
<1>3. RunsShaped
    BY <1>1, <1>2 DEF RunsShaped
<1>4. Reading = {} /\ {q \in Runs : runs[q].phase = "waiting"} = {}
    BY <1>1, <1>2 DEF Reading
<1>5. Range(waiting) = {} /\ IsInjective(waiting)
    BY <1>1 DEF Range, IsInjective
<1>6. Cardinality(Reading) = 0 /\ 0 <= Slots
    BY <1>4, FS_EmptySet, SizesAssumption
<1> QED
    BY <1>1, <1>3, <1>4, <1>5, <1>6 DEF SlotsIInv, SlotsKept, Reading

\* #slot and #read: never more reads than CONCURRENT_READS, each slot counted once, every waiting run queued
\* once, and none waits while a slot is free, for any runs, slots and faults.
THEOREM SlotsAreKept == SyncSpec => []SlotsKept
<1>1. SlotsIInv => SlotsKept
    BY DEF SlotsIInv
<1> QED
    BY <1>1, InitSlots, StepSlots, PTL DEF SyncSpec

-----------------------------------------------------------------------------
(* The pages of a read *)

\* Documents laid out by how many have a key no greater than theirs are in the order of their keys, each
\* once.
LEMMA InOrder ==
    ASSUME NEW D, IsFiniteSet(D), NEW key \in [D -> Nat],
           \A a, b \in D : key[a] = key[b] => a = b,
           NEW place, place = [d \in D |-> Cardinality({e \in D : key[e] <= key[d]})]
    PROVE  /\ place \in Bijection(D, 1..Cardinality(D))
           /\ \A a, b \in D : key[a] <= key[b] <=> place[a] <= place[b]
<1> DEFINE below(d) == {e \in D : key[e] <= key[d]}
           n == Cardinality(D)
<1>1. n \in Nat
    BY FS_CardinalityType
<1>2. ASSUME NEW d \in D
      PROVE  /\ IsFiniteSet(below(d)) /\ Cardinality(below(d)) \in 1..n /\ d \in below(d)
             /\ place[d] = Cardinality(below(d))
  <2>1. below(d) \in SUBSET D /\ d \in below(d)
      OBVIOUS
  <2>2. IsFiniteSet(below(d)) /\ Cardinality(below(d)) <= n
      BY <2>1, FS_Subset
  <2>3. Cardinality(below(d)) \in Nat /\ Cardinality(below(d)) # 0
      BY <2>1, <2>2, FS_CardinalityType, FS_EmptySet
  <2> QED
      BY <1>1, <2>1, <2>2, <2>3
<1>3. ASSUME NEW a \in D, NEW b \in D, key[a] <= key[b]
      PROVE  place[a] <= place[b]
  <2>1. below(a) \in SUBSET below(b)
      BY <1>3
  <2>2. Cardinality(below(a)) <= Cardinality(below(b))
      BY <2>1, <1>2, FS_Subset
  <2> QED
      BY <2>2, <1>2
<1>4. ASSUME NEW a \in D, NEW b \in D, key[a] < key[b]
      PROVE  place[a] < place[b]
  <2>1. below(a) \in SUBSET below(b) /\ b \in below(b) /\ b \notin below(a)
      BY <1>4
  <2>2. Cardinality(below(a)) <= Cardinality(below(b)) /\ Cardinality(below(a)) # Cardinality(below(b))
      BY <2>1, <1>2, FS_Subset
  <2>3. place[a] \in 1..n /\ place[b] \in 1..n /\ place[a] <= place[b] /\ place[a] # place[b]
      BY <2>2, <1>2
  <2> QED
      BY <2>3, <1>1
<1>5. place \in Injection(D, 1..n)
  <2>1. place = [d \in D |-> place[d]] /\ \A d \in D : place[d] \in 1..n
      BY <1>2, Zenon
  <2>2. ASSUME NEW a \in D, NEW b \in D, place[a] = place[b] PROVE a = b
    <3>1. place[a] \in Nat /\ place[b] \in Nat /\ key[a] \in Nat /\ key[b] \in Nat
        BY <1>1, <2>1
    <3>2. ~(key[a] < key[b]) /\ ~(key[b] < key[a])
        BY <1>4, <2>2, <3>1
    <3> QED
        BY <3>1, <3>2
  <2>3. place \in [D -> 1..n] /\ DOMAIN place = D
      BY <2>1
  <2> QED
      BY <2>3, <2>2 DEF Injection, IsInjective
<1>6. IsFiniteSet(1..n) /\ Cardinality(1..n) = n
  <2>1. 1 \in Int /\ n \in Int
      BY <1>1
  <2>2. IsFiniteSet(1..n) /\ Cardinality(1..n) = IF 1 > n THEN 0 ELSE n - 1 + 1
      BY <2>1, FS_Interval, Zenon
  <2> QED
      BY <1>1, <2>2
<1>7. place \in Surjection(D, 1..n)
    BY <1>5, <1>6, FS_Injection
<1>8. \A a, b \in D : key[a] <= key[b] <=> place[a] <= place[b]
  <2> TAKE a \in D, b \in D
  <2>1. place[a] \in Nat /\ place[b] \in Nat /\ key[a] \in Nat /\ key[b] \in Nat
      BY <1>1, <1>5 DEF Injection
  <2>2. key[b] < key[a] => place[b] < place[a]
      BY <1>4
  <2>3. key[a] <= key[b] => place[a] <= place[b]
      BY <1>3
  <2> QED
      BY <2>1, <2>2, <2>3
<1> QED
    BY <1>5, <1>7, <1>8 DEF Bijection

\* #query: a read has what matches, in order, up to its limit; and says whether there is more.
LEMMA PageReads ==
    ASSUME NEW run, run.cursor \in Nat, Limit(run) \in Int,
           \A d \in Docs : server[d].version \in Nat,
           \A d, e \in Docs : server[d].version = server[e].version /\ server[d].version # 0 => d = e
    PROVE  /\ PageOf(run) \in Seq(Docs) /\ Len(Sorted(run)) \in Nat
           /\ \A d \in Range(PageOf(run)) : d \in Docs /\ Matches(run, d)
           /\ PageOf(run) # <<>> => Last(PageOf(run)) \in Range(PageOf(run))
           /\ \A d \in Docs :
                 /\ Matches(run, d)
                 /\ \/ ~HasNext(Len(Sorted(run)), Limit(run))
                    \/ PageOf(run) # <<>> /\ Key(run, d) <= Key(run, Last(PageOf(run)))
                 => d \in Range(PageOf(run))
<1> DEFINE D == {d \in Docs : Matches(run, d)}
           n == Cardinality(D)
           key == [d \in D |-> Key(run, d)]
           place == [d \in D |-> Cardinality({e \in D : key[e] <= key[d]})]
           s == Sorted(run)
           m == IF Limit(run) < Len(s) THEN Limit(run) ELSE Len(s)
           page == PageOf(run)
<1>1. IsFiniteSet(D) /\ n \in Nat
    BY DocsAssumption, FS_Subset, FS_CardinalityType
<1>2. key \in [D -> Nat] /\ \A a, b \in D : key[a] = key[b] => a = b
  <2>1. \A d \in D : d \in Docs /\ d \in Nat /\ Key(run, d) \in Nat /\ Key(run, d) > run.cursor
      BY DocsAssumption DEF Matches, Key
  <2>2. ASSUME NEW a \in D, NEW b \in D, Key(run, a) = Key(run, b) PROVE a = b
      BY <2>1, <2>2 DEF Key
  <2> QED
      BY <2>1, <2>2
<1>3. /\ place \in Bijection(D, 1..n)
      /\ \A a, b \in D : key[a] <= key[b] <=> place[a] <= place[b]
  <2> HIDE DEF key, D
  <2> QED
      BY <1>1, <1>2, InOrder
<1>4. /\ \A d \in D : place[d] \in 1..n
      /\ \A a, b \in D : place[a] = place[b] => a = b
      /\ \A i \in 1..n : \E d \in D : place[d] = i
  <2> HIDE DEF place, D
  <2> QED
      BY <1>3 DEF Bijection, Injection, Surjection, IsInjective
<1>5. s = [i \in 1..n |-> CHOOSE d \in D : place[d] = i]
  <2>1. \A d \in D : {e \in D : Key(run, e) <= Key(run, d)} = {e \in D : key[e] <= key[d]}
      OBVIOUS
  <2>2. \A i \in 1..n : (CHOOSE d \in D : place[d] = i)
                        = (CHOOSE d \in D : Cardinality({e \in D : Key(run, e) <= Key(run, d)}) = i)
      BY <2>1
  <2> QED
      BY <2>2 DEF Sorted
<1> HIDE DEF place, s, key, D
<1>6. ASSUME NEW i \in 1..n PROVE s[i] \in D /\ place[s[i]] = i
    BY <1>4, <1>5
<1>7. s \in Seq(D) /\ Len(s) = n
    BY <1>1, <1>5, <1>6
<1>8. ASSUME NEW d \in D PROVE s[place[d]] = d
    BY <1>4, <1>6
<1>9. m \in Int /\ m <= n /\ page = SubSeq(s, 1, m)
    BY <1>1, <1>7 DEF s, PageOf
<1> HIDE DEF m, page
<1>10. /\ page \in Seq(D) /\ Len(page) = (IF 1 <= m THEN m ELSE 0)
       /\ \A i \in 1..m : page[i] = s[i]
  <2>1. s \in Seq(D) /\ m \in Int /\ m <= Len(s)
      BY <1>7, <1>9
  <2>2. /\ SubSeq(s, 1, m) \in Seq(D) /\ Len(SubSeq(s, 1, m)) = (IF 1 <= m THEN m ELSE 0)
        /\ \A i \in 1..m : SubSeq(s, 1, m)[i] = s[i]
      BY <2>1
  <2> QED
      BY <2>2, <1>9
<1>11. Range(page) = {page[i] : i \in 1..m}
  <2>1. DOMAIN page = 1..m
      BY <1>9, <1>10
  <2> QED
      BY <2>1 DEF Range
<1>12. page \in Seq(Docs)
    BY <1>10 DEF D
<1>13. \A d \in Range(page) : d \in Docs /\ Matches(run, d)
  <2>1. \A i \in 1..m : page[i] \in D
      BY <1>1, <1>6, <1>9, <1>10
  <2> QED
      BY <2>1, <1>11 DEF D
<1>14. page # <<>> => 1 <= m /\ m \in 1..m /\ Last(page) = page[m] /\ Last(page) \in Range(page)
  <2>1. page # <<>> => 1 <= m /\ m \in 1..m /\ Len(page) = m
      BY <1>9, <1>10
  <2> QED
      BY <2>1, <1>11 DEF Last
<1>15. ASSUME NEW d \in Docs, Matches(run, d),
              \/ ~HasNext(Len(s), Limit(run))
              \/ page # <<>> /\ Key(run, d) <= Key(run, Last(page))
       PROVE  d \in Range(page)
  <2>1. d \in D /\ place[d] \in 1..n
      BY <1>4, <1>15 DEF D
  <2>2. CASE ~HasNext(Len(s), Limit(run))
    <3>1. m = n
        BY <2>2, <1>1, <1>7 DEF HasNext, m
    <3> QED
        BY <3>1, <2>1, <1>8, <1>10, <1>11
  <2>3. CASE page # <<>> /\ Key(run, d) <= Key(run, Last(page))
    <3>1. m \in 1..m /\ m \in 1..n /\ Last(page) = s[m] /\ s[m] \in D /\ place[s[m]] = m
        BY <2>3, <1>1, <1>6, <1>9, <1>10, <1>14
    <3>2. key[d] <= key[s[m]]
        BY <2>1, <2>3, <3>1 DEF key
    <3>3. place[d] <= m
        BY <1>3, <2>1, <3>1, <3>2
    <3>4. place[d] \in 1..m
        BY <2>1, <3>1, <3>3
    <3> QED
        BY <3>4, <2>1, <1>8, <1>10, <1>11
  <2> QED
      BY <1>15, <2>2, <2>3
<1> QED
    BY <1>1, <1>7, <1>12, <1>13, <1>14, <1>15 DEF page, s

-----------------------------------------------------------------------------
(* The types *)

Kinds == {"none", "catchup", "extend", "first", "delta", "refresh", "prune"}

\* A change of a document, as a page or an event brings it.
ChangeRecord == [doc : Docs, version : 0..MaxVersion, how : {"added", "modified", "removed", "tombstone"}]

MetaRecord == [loaded : BOOLEAN, complete : BOOLEAN, next : Docs \cup {0}, synced : 0..MaxVersion,
               sync : BOOLEAN, at : 0..MaxDays, used : 0..MaxDays]

RunRecord == [phase : Ended \cup Begun \cup {"chained"}, kind : Kinds, after : Nat, since : Nat, cursor : Nat,
              count : Nat, more : BOOLEAN, says : BOOLEAN, page : Seq(ChangeRecord), seen : SUBSET Docs,
              old : BOOLEAN, dirty : SUBSET (Docs \cup {0}), disturbed : BOOLEAN]

\* A page is there from the answer until it is ingested; what a run is, is settled when it begins; the
\* versions of a delta are no place in the sort order.
Sound(run) ==
    /\ run.phase \notin {"answered", "ingesting"} => run.page = <<>>
    /\ run.phase = "ingesting" => run.page # <<>>
    /\ run.phase \notin Begun => run.seen = {}
    /\ run.phase \in Begun => run.kind \notin {"none", "catchup"}
    /\ run.kind = "refresh" => \A c \in Range(run.page) : c.how = "added"
    /\ run.kind # "delta" => run.cursor \in Docs \cup {0}

RunsTyped ==
    /\ used \in 0..MaxRuns
    /\ runs \in [Runs -> RunRecord]
    /\ \A r \in Runs : Sound(runs[r]) /\ runs[r].after \in 0..r /\ (r > used => runs[r] = NoRun)

\* Types that do not depend on those of the runs.
ServerTyped ==
    /\ server \in [Docs -> [version : 0..MaxVersion, live : BOOLEAN]]
    /\ spent \subseteq 1..MaxVersion
    /\ serves \in BOOLEAN

FlightTyped ==
    /\ answer \subseteq ChangeRecord \cup {Due}
    /\ wire \in Seq(ChangeRecord)
    /\ rt \in ChangeRecord \cup {Nothing}

ScopeTyped ==
    /\ config \in [full : BOOLEAN, always : BOOLEAN]
    /\ scope \in {"none", "restoring", "ready"} /\ held \subseteq Holders \cup {Persisted}
    /\ active \in BOOLEAN /\ timer \in BOOLEAN
    /\ sub \in {"off", "asked", "on", "lost"} /\ live \in BOOLEAN /\ first \in BOOLEAN
    /\ opening \in {"no", "evicting", "over"} /\ evicting \subseteq Docs /\ flushing \in BOOLEAN
    /\ faults \in 0..MaxFaults /\ day \in 0..MaxDays
    /\ last \in 0..used

MetaTyped ==
    /\ meta \in MetaRecord
    /\ stored = {} \/ \E m \in MetaRecord : stored = {m}

DeviceTyped == device \in [Docs -> 0..MaxVersion]

SyncTyped == RunsTyped /\ ServerTyped /\ FlightTyped /\ ScopeTyped /\ MetaTyped /\ DeviceTyped

\* The runs that are not begun yet, or over.
LEMMA NoRunTyped ==
    /\ NoRun \in RunRecord /\ Sound(NoRun) /\ NoRun.after = 0
    /\ [NoRun EXCEPT !.phase = "over"] \in RunRecord /\ Sound([NoRun EXCEPT !.phase = "over"])
    /\ [NoRun EXCEPT !.phase = "over"].after = 0 /\ [NoRun EXCEPT !.phase = "over"].phase = "over"
    /\ [NoRun EXCEPT !.phase = "over"].kind = "none" /\ [NoRun EXCEPT !.phase = "over"].page = <<>>
<1>1. /\ <<>> \in Seq(ChangeRecord) /\ {} \in SUBSET Docs /\ {} \in SUBSET (Docs \cup {0})
      /\ Range(<<>>) = {}
    BY DEF Range
<1>2. NoRun \in RunRecord /\ [NoRun EXCEPT !.phase = "over"] \in RunRecord
    BY <1>1 DEF NoRun, RunRecord, Kinds, Ended, Begun
<1>3. /\ NoRun.page = <<>> /\ NoRun.seen = {} /\ NoRun.phase = "none" /\ NoRun.kind = "none" /\ NoRun.cursor = 0
      /\ NoRun.after = 0
      /\ [NoRun EXCEPT !.phase = "over"].page = <<>> /\ [NoRun EXCEPT !.phase = "over"].seen = {}
      /\ [NoRun EXCEPT !.phase = "over"].phase = "over" /\ [NoRun EXCEPT !.phase = "over"].kind = "none"
      /\ [NoRun EXCEPT !.phase = "over"].cursor = 0 /\ [NoRun EXCEPT !.phase = "over"].after = 0
    BY DEF NoRun
<1> QED
    BY <1>1, <1>2, <1>3 DEF Sound, Begun

\* A new record of one run.
\* A run gets, or waits for, a slot.
LEMMA WaitingTyped ==
    ASSUME NEW run \in RunRecord, Sound(run), run.page = <<>>, run.kind \notin {"none", "catchup"},
           NEW phase \in {"waiting", "reading"}
    PROVE  [run EXCEPT !.phase = phase] \in RunRecord /\ Sound([run EXCEPT !.phase = phase])
<1> DEFINE new == [run EXCEPT !.phase = phase]
<1>1. new \in RunRecord
    BY DEF RunRecord, Begun
<1>2. /\ new.phase = phase /\ new.page = run.page /\ new.seen = run.seen /\ new.kind = run.kind
      /\ new.cursor = run.cursor
    BY DEF RunRecord
<1> HIDE DEF new
<1>3. Range(<<>>) = {}
    BY DEF Range
<1>4. Sound(new)
    BY <1>2, <1>3 DEF Sound, Begun
<1> QED
    BY <1>1, <1>4 DEF new

\* The other runs, in a step of one: the longest waiting one may get its slot.
Others(r) ==
    /\ runs' = [q \in Runs |-> runs'[q]]
    /\ \A q \in Runs \ {r} :
          \/ runs'[q] = runs[q]
          \/ runs[q].phase = "waiting" /\ runs'[q] = [runs[q] EXCEPT !.phase = "reading"]

\* What #slot does to the runs.
LEMMA SlotForDoes ==
    ASSUME RunsTyped, NEW r \in Runs, NEW run, SlotFor(r, run)
    PROVE  /\ Others(r)
           /\ \E phase \in {"waiting", "reading"} : runs'[r] = [run EXCEPT !.phase = phase]
BY DEF SlotFor, RunsTyped, Others

\* What the end of #read does to them.
LEMMA SlotFromDoes ==
    ASSUME SlotsIInv, RunsTyped, NEW r \in Runs, runs[r].phase # "waiting", NEW run, SlotFrom(r, run)
    PROVE  runs'[r] = run /\ Others(r)
<1>1. CASE waiting = <<>>
    BY <1>1 DEF SlotFrom, RunsTyped, Others
<1>2. CASE waiting # <<>>
  <2> DEFINE w == Head(waiting)
  <2>1. runs' = [runs EXCEPT ![r] = run, ![w].phase = "reading"]
      BY <1>2 DEF SlotFrom
  <2>2. waiting \in Seq(Runs)
      BY DEF SlotsIInv, RunsShaped
  <2>3. w \in Range(waiting)
      BY <1>2, <2>2 DEF Range
  <2>4. w \in Runs /\ runs[w].phase = "waiting"
      BY <2>3 DEF SlotsIInv, SlotsKept
  <2> HIDE DEF w
  <2> QED
      BY <2>1, <2>4 DEF RunsTyped, Others
<1> QED
    BY <1>1, <1>2

\* A step of one run leaves the others what they are, if one of them does not get the slot.
LEMMA StepTyped ==
    ASSUME RunsTyped, UNCHANGED used, NEW r \in Runs, runs[r].phase # "none",
           runs'[r] \in RunRecord, Sound(runs'[r]), runs'[r].after \in 0..r, Others(r)
    PROVE  RunsTyped'
<1>1. ASSUME NEW q \in Runs \ {r}, runs[q].phase = "waiting", runs'[q] = [runs[q] EXCEPT !.phase = "reading"]
      PROVE  /\ runs'[q] \in RunRecord /\ Sound(runs'[q]) /\ runs'[q].after = runs[q].after
             /\ ~(q > used)
  <2>1. runs[q] \in RunRecord /\ Sound(runs[q])
      BY DEF RunsTyped
  <2>2. runs[q].page = <<>> /\ runs[q].kind \notin {"none", "catchup"}
      BY <1>1, <2>1 DEF Sound, Begun
  <2>3. [runs[q] EXCEPT !.phase = "reading"] \in RunRecord /\ Sound([runs[q] EXCEPT !.phase = "reading"])
      BY <2>1, <2>2, WaitingTyped
  <2>4. [runs[q] EXCEPT !.phase = "reading"].after = runs[q].after
      BY <2>1 DEF RunRecord
  <2>5. ~(q > used)
      BY <1>1 DEF RunsTyped, NoRun
  <2> QED
      BY <1>1, <2>3, <2>4, <2>5
<1>2. ~(r > used)
    BY DEF RunsTyped, NoRun
<1>3. ASSUME NEW q \in Runs
      PROVE  /\ runs'[q] \in RunRecord /\ Sound(runs'[q]) /\ runs'[q].after \in 0..q
             /\ (q > used' => runs'[q] = NoRun)
  <2>1. CASE q = r
      BY <2>1, <1>2
  <2>2. CASE q # r
      BY <2>2, <1>1 DEF RunsTyped, Others
  <2> QED
      BY <2>1, <2>2
<1>4. runs' \in [Runs -> RunRecord]
    BY <1>3 DEF Others
<1> QED
    BY <1>3, <1>4 DEF RunsTyped

\* A flag keeps them too.
LEMMA FlagTyped ==
    ASSUME RunsTyped, NEW f \in {"old", "disturbed"}
    PROVE  /\ Flag(runs, f) \in [Runs -> RunRecord]
           /\ \A q \in Runs : /\ Sound(Flag(runs, f)[q]) /\ Flag(runs, f)[q].after = runs[q].after
                              /\ Flag(runs, f)[q].phase = runs[q].phase
                              /\ Flag(runs, f)[q].page = runs[q].page
                              /\ (q > used => Flag(runs, f)[q] = NoRun)
<1>1. ASSUME NEW q \in Runs
      PROVE  /\ Flag(runs, f)[q] \in RunRecord /\ Sound(Flag(runs, f)[q])
             /\ Flag(runs, f)[q].after = runs[q].after /\ Flag(runs, f)[q].phase = runs[q].phase
             /\ Flag(runs, f)[q].page = runs[q].page
             /\ (q > used => Flag(runs, f)[q] = NoRun)
  <2>1. runs[q] \in RunRecord /\ Sound(runs[q]) /\ (q > used => runs[q] = NoRun)
      BY DEF RunsTyped
  <2> DEFINE new == [runs[q] EXCEPT ![f] = TRUE]
  <2>2. /\ new \in RunRecord /\ new.phase = runs[q].phase /\ new.page = runs[q].page /\ new.seen = runs[q].seen
        /\ new.kind = runs[q].kind /\ new.cursor = runs[q].cursor /\ new.after = runs[q].after
    <3>1. CASE f = "old"
        BY <3>1, <2>1 DEF RunRecord
    <3>2. CASE f = "disturbed"
        BY <3>2, <2>1 DEF RunRecord
    <3> QED
        BY <3>1, <3>2
  <2> HIDE DEF new
  <2>3. Sound(new)
      BY <2>1, <2>2 DEF Sound
  <2>4. Flag(runs, f)[q] = IF runs[q].phase \in Begun THEN new ELSE runs[q]
      BY DEF Flag, new
  <2>5. NoRun.phase \notin Begun
      BY DEF NoRun, Begun
  <2> QED
      BY <2>1, <2>2, <2>3, <2>4, <2>5
<1>2. Flag(runs, f) \in [Runs -> RunRecord]
    BY <1>1 DEF Flag
<1> QED
    BY <1>1, <1>2

\* A run is queued.
LEMMA QueueTyped ==
    ASSUME RunsTyped, last \in 0..used, NEW rs \in [Runs -> RunRecord],
           \A q \in Runs : Sound(rs[q]) /\ rs[q].after = runs[q].after /\ (q > used => rs[q] = NoRun),
           NEW kind \in {"catchup", "extend"}, NEW after \in 0..used + 1, Queue(rs, kind, after)
    PROVE  RunsTyped' /\ last' \in 0..used'
<1> DEFINE new == [NoRun EXCEPT !.phase = "chained", !.kind = kind, !.after = after]
<1>1. /\ used \in Nat /\ used < MaxRuns /\ used' = used + 1 /\ used + 1 \in Runs
      /\ runs' = [rs EXCEPT ![used + 1] = new]
      /\ last' \in {last, used + 1}
    BY SizesAssumption DEF Queue, RunsTyped, Runs
<1>2. new \in RunRecord /\ Sound(new) /\ new.after = after
  <2>1. NoRun \in RunRecord /\ after \in Nat
      BY <1>1, NoRunTyped
  <2>2. /\ new.phase = "chained" /\ new.page = <<>> /\ new.seen = {} /\ new.kind = kind /\ new.cursor = 0
        /\ new.after = after
      BY DEF NoRun
  <2>3. new \in RunRecord
      BY <2>1 DEF RunRecord, Kinds
  <2> HIDE DEF new
  <2>4. Sound(new)
      BY <2>2 DEF Sound, Begun
  <2> QED
      BY <2>2, <2>3, <2>4
<1> HIDE DEF new
<1>3. runs' \in [Runs -> RunRecord] /\ runs'[used + 1] = new /\ \A q \in Runs \ {used + 1} : runs'[q] = rs[q]
    BY <1>1, <1>2
<1>4. ASSUME NEW q \in Runs
      PROVE  Sound(runs'[q]) /\ runs'[q].after \in 0..q /\ (q > used' => runs'[q] = NoRun)
  <2>1. CASE q = used + 1
      BY <2>1, <1>1, <1>2, <1>3
  <2>2. CASE q # used + 1
    <3>1. runs'[q] = rs[q] /\ q \in Nat
        BY <2>2, <1>3 DEF Runs
    <3>2. q > used' => q > used
        BY <1>1, <3>1
    <3> QED
        BY <3>1, <3>2 DEF RunsTyped
  <2> QED
      BY <2>1, <2>2
<1>5. used' \in 0..MaxRuns /\ last' \in 0..used'
    BY <1>1, SizesAssumption
<1> QED
    BY <1>3, <1>4, <1>5 DEF RunsTyped

\* What a run is when it begins.
LEMMA StartingTyped ==
    ASSUME RunsTyped, FlightTyped, MetaTyped, NEW r \in Runs, runs[r].phase = "chained"
    PROVE  /\ Starting(r) \in RunRecord
           /\ Starting(r).kind \in {"extend", "first", "delta", "refresh"}
           /\ Starting(r).kind = "extend" <=> runs[r].kind = "extend"
           /\ Starting(r).kind # "extend" => Starting(r).cursor = 0
           /\ Starting(r).page = <<>> /\ Starting(r).seen = {} /\ Starting(r).phase = "chained"
           /\ Starting(r).dirty = InFlight
           /\ Starting(r).disturbed = \E o \in Runs \ {r} : runs[o].phase \in Begun /\ runs[o].kind # "extend"
           /\ Starting(r).after = runs[r].after
           /\ Sound(Starting(r))
<1> DEFINE kind == KindOf(runs[r])
           since == IF kind = "delta" /\ meta.synced > Overlap THEN meta.synced - Overlap ELSE 0
           cursor == IF kind = "extend" THEN meta.next ELSE 0
           other == \E o \in Runs \ {r} : runs[o].phase \in Begun /\ runs[o].kind # "extend"
<1>1. runs[r] \in RunRecord /\ Sound(runs[r])
    BY DEF RunsTyped
<1>2. kind \in {"extend", "first", "delta", "refresh"} /\ (kind = "extend" <=> runs[r].kind = "extend")
    BY DEF KindOf
<1>3. meta.synced \in Nat /\ meta.next \in Docs \cup {0} /\ Docs \subseteq Nat /\ Overlap \in Nat
    BY SizesAssumption, DocsAssumption DEF MetaTyped, MetaRecord
<1> HIDE DEF kind
<1>4. since \in Nat /\ cursor \in Nat /\ cursor \in Docs \cup {0} /\ (kind # "extend" => cursor = 0)
  <2>1. since \in Nat
      BY <1>3
  <2>2. cursor \in Docs \cup {0} /\ (kind # "extend" => cursor = 0)
      BY <1>3
  <2>3. \A d \in Docs \cup {0} : d \in Nat
      BY <1>3
  <2> QED
      BY <2>1, <2>2, <2>3
<1>5. InFlight \in SUBSET (Docs \cup {0})
  <2>1. \A c \in {rt} \cup answer \cup Range(wire) : c.doc \in Docs \cup {0}
    <3>1. \A c \in Range(wire) : c \in ChangeRecord
        BY DEF FlightTyped, Range
    <3> QED
        BY <3>1 DEF FlightTyped, ChangeRecord, Due, Nothing
  <2>2. ASSUME NEW q \in Runs, NEW c \in Range(runs[q].page) PROVE c.doc \in Docs
    <3>1. runs[q].page \in Seq(ChangeRecord)
        BY DEF RunsTyped, RunRecord
    <3>2. c \in ChangeRecord
        BY <3>1 DEF Range
    <3> QED
        BY <3>2 DEF ChangeRecord
  <2> QED
      BY <2>1, <2>2 DEF InFlight
<1> HIDE DEF since, cursor, other
<1>6. Starting(r) = [runs[r] EXCEPT !.kind = kind, !.since = since, !.cursor = cursor, !.dirty = InFlight,
                                    !.disturbed = other]
    BY DEF Starting, kind, since, cursor, other
<1>7. other \in BOOLEAN /\ kind \in Kinds
    BY <1>2 DEF other, Kinds
<1>8. Starting(r) \in RunRecord
    BY <1>1, <1>4, <1>5, <1>6, <1>7 DEF RunRecord
<1>9. /\ Starting(r).kind = kind /\ Starting(r).cursor = cursor /\ Starting(r).dirty = InFlight
      /\ Starting(r).disturbed = other /\ Starting(r).page = runs[r].page /\ Starting(r).seen = runs[r].seen
      /\ Starting(r).phase = runs[r].phase /\ Starting(r).after = runs[r].after
    BY <1>1, <1>6 DEF RunRecord
<1>10. runs[r].page = <<>> /\ runs[r].seen = {}
    BY <1>1 DEF Sound, Begun
<1>11. Range(<<>>) = {}
    BY DEF Range
<1>12. Sound(Starting(r))
    BY <1>2, <1>4, <1>9, <1>10, <1>11 DEF Sound, Begun
<1> QED
    BY <1>2, <1>4, <1>8, <1>9, <1>10, <1>12 DEF other

-----------------------------------------------------------------------------
(* What the steps of a run do to it *)

LEMMA BeginDoes ==
    ASSUME RunsTyped, FlightTyped, MetaTyped, NEW r \in Runs, Begin(r)
    PROVE  /\ runs[r].phase = "chained" /\ Others(r) /\ UNCHANGED <<used, server, spent, device>>
           /\ \/ runs'[r] = [NoRun EXCEPT !.phase = "over"]
              \/ \E phase \in {"waiting", "reading"} : runs'[r] = [Starting(r) EXCEPT !.phase = phase]
           /\ RunsTyped'
<1>1. runs[r].phase = "chained" /\ UNCHANGED <<used, server, spent, device>>
    BY DEF Begin
<1>2. CASE runs' = [runs EXCEPT ![r] = [NoRun EXCEPT !.phase = "over"]]
  <2>1. Others(r) /\ runs'[r] = [NoRun EXCEPT !.phase = "over"]
      BY <1>2 DEF Others, RunsTyped
  <2>2. RunsTyped'
    <3>1. runs[r].phase # "none" /\ 0 \in 0..r
        BY <1>1 DEF Runs
    <3>2. runs'[r] \in RunRecord /\ Sound(runs'[r]) /\ runs'[r].after \in 0..r
        BY <2>1, <3>1, NoRunTyped
    <3> QED
        BY <1>1, <2>1, <3>1, <3>2, StepTyped
  <2> QED
      BY <1>1, <2>1, <2>2
<1>3. CASE SlotFor(r, Starting(r))
  <2>1. PICK phase \in {"waiting", "reading"} : runs'[r] = [Starting(r) EXCEPT !.phase = phase]
      BY <1>3, SlotForDoes
  <2>2. Others(r)
      BY <1>3, SlotForDoes
  <2>3. /\ Starting(r) \in RunRecord /\ Sound(Starting(r)) /\ Starting(r).page = <<>>
        /\ Starting(r).kind \notin {"none", "catchup"} /\ Starting(r).after \in 0..r
    <3>1. runs[r].after \in 0..r
        BY DEF RunsTyped
    <3> QED
        BY <1>1, <3>1, StartingTyped
  <2>4. [Starting(r) EXCEPT !.phase = phase] \in RunRecord /\ Sound([Starting(r) EXCEPT !.phase = phase])
      BY <2>1, <2>3, WaitingTyped
  <2>5. [Starting(r) EXCEPT !.phase = phase].after = Starting(r).after
      BY <2>3 DEF RunRecord
  <2>6. RunsTyped'
    <3>1. runs[r].phase # "none"
        BY <1>1
    <3> QED
        BY <1>1, <2>1, <2>2, <2>3, <2>4, <2>5, <3>1, StepTyped
  <2> QED
      BY <1>1, <2>1, <2>2, <2>6
<1> QED
    BY <1>2, <1>3 DEF Begin

\* The changes a page brings are what the server has.
LEMMA PageTyped ==
    ASSUME ServerTyped, NEW docs \in Seq(Docs)
    PROVE  LET page == [i \in DOMAIN docs |-> Change(docs[i])]
           IN  /\ page \in Seq(ChangeRecord) /\ (page = <<>> <=> docs = <<>>)
               /\ Range(page) = {Change(d) : d \in Range(docs)}
<1> DEFINE page == [i \in DOMAIN docs |-> Change(docs[i])]
<1>1. ASSUME NEW d \in Docs PROVE Change(d) \in ChangeRecord
    BY DEF Change, ChangeRecord, ServerTyped
<1>2. DOMAIN docs = 1..Len(docs) /\ Len(docs) \in Nat /\ \A i \in 1..Len(docs) : docs[i] \in Docs
    OBVIOUS
<1>3. page \in Seq(ChangeRecord) /\ Len(page) = Len(docs) /\ DOMAIN page = 1..Len(docs)
    BY <1>1, <1>2
<1>4. Range(page) = {Change(d) : d \in Range(docs)}
    BY <1>2 DEF Range
<1> QED
    BY <1>3, <1>4

LEMMA LimitType ==
    ASSUME NEW run \in RunRecord
    PROVE  Limit(run) \in Int
BY SizesAssumption DEF Limit, RunRecord

LEMMA ServerReadsDoes ==
    ASSUME RunsTyped, ServerTyped, NEW r \in Runs, ServerReads(r),
           \A d, e \in Docs : server[d].version = server[e].version /\ server[d].version # 0 => d = e
    PROVE  LET run == runs[r]
               page == PageOf(run)
               new == runs'[r]
           IN  /\ run.phase = "reading" /\ Others(r) /\ UNCHANGED <<used, server, spent, device>>
               /\ new.phase = "answered" /\ Range(new.page) = {Change(d) : d \in Range(page)}
               /\ new.cursor = (IF page = <<>> THEN run.cursor ELSE Key(run, Last(page)))
               /\ new.more = HasNext(Len(Sorted(run)), Limit(run)) /\ new.says = serves
               /\ new.kind = run.kind /\ new.since = run.since /\ new.seen = run.seen /\ new.dirty = run.dirty
               /\ new.disturbed = run.disturbed
               /\ RunsTyped'
<1> DEFINE run == runs[r]
           docs == PageOf(run)
           page == [i \in DOMAIN docs |-> Change(docs[i])]
           cursor == IF docs = <<>> THEN run.cursor ELSE Key(run, Last(docs))
           more == HasNext(Len(Sorted(run)), Limit(run))
           count == IF run.kind = "refresh" THEN run.count + PageSize ELSE run.count + Len(docs)
           new == [run EXCEPT !.phase = "answered", !.page = page, !.cursor = cursor, !.more = more,
                              !.says = serves, !.count = count]
<1>1. run.phase = "reading" /\ UNCHANGED <<used, server, spent, device>> /\ runs' = [runs EXCEPT ![r] = new]
    BY DEF ServerReads
<1>2. run \in RunRecord /\ Sound(run) /\ run.after \in 0..r
    BY DEF RunsTyped
<1>3. run.cursor \in Nat /\ run.count \in Nat /\ run.kind \in Kinds
    BY <1>2 DEF RunRecord
<1>4. Limit(run) \in Int
    BY <1>2, LimitType
<1>5. \A d \in Docs : server[d].version \in Nat
    BY DEF ServerTyped
<1> HIDE DEF run, docs
<1>6. /\ docs \in Seq(Docs) /\ Len(Sorted(run)) \in Nat
      /\ \A d \in Range(docs) : d \in Docs /\ Matches(run, d)
      /\ docs # <<>> => Last(docs) \in Range(docs)
    BY <1>3, <1>4, <1>5, PageReads DEF docs
<1>7. page \in Seq(ChangeRecord) /\ Range(page) = {Change(d) : d \in Range(docs)}
    BY <1>6, PageTyped
<1>8. cursor \in Nat /\ (run.kind # "delta" => cursor \in Docs \cup {0})
  <2>1. CASE docs = <<>>
      BY <2>1, <1>2, <1>3 DEF Sound
  <2>2. CASE docs # <<>>
    <3>1. Last(docs) \in Docs
        BY <2>2, <1>6
    <3> QED
        BY <2>2, <3>1, <1>5, DocsAssumption DEF Key
  <2> QED
      BY <2>1, <2>2
<1>9. more \in BOOLEAN /\ serves \in BOOLEAN /\ count \in Nat
  <2>1. Len(docs) \in Nat
      BY <1>6
  <2> QED
      BY <2>1, <1>3, SizesAssumption DEF ServerTyped, HasNext
<1>10. run.kind = "refresh" => \A c \in Range(page) : c.how = "added"
    BY <1>6, <1>7 DEF Matches, Visible, Change
<1> HIDE DEF page, cursor, more, count
<1>11. new \in RunRecord
    BY <1>2, <1>7, <1>8, <1>9 DEF RunRecord, Begun
<1>12. /\ new.phase = "answered" /\ new.page = page /\ new.cursor = cursor /\ new.more = more
       /\ new.says = serves /\ new.kind = run.kind /\ new.since = run.since /\ new.seen = run.seen
       /\ new.dirty = run.dirty /\ new.disturbed = run.disturbed /\ new.after = run.after
    BY <1>2 DEF RunRecord
<1>13. Sound(new)
    BY <1>2, <1>1, <1>8, <1>10, <1>12 DEF Sound, Begun
<1>14. Others(r) /\ runs'[r] = new
    BY <1>1 DEF Others, RunsTyped, run
<1> HIDE DEF new
<1>15. RunsTyped'
  <2>1. runs[r].phase # "none"
      BY <1>1 DEF run
  <2> QED
      BY <2>1, <1>1, <1>2, <1>11, <1>12, <1>13, <1>14, StepTyped
<1> QED
    BY <1>1, <1>7, <1>12, <1>14, <1>15 DEF page, cursor, more, run, docs

LEMMA ArrivesDoes ==
    ASSUME SlotsIInv, RunsTyped, NEW r \in Runs, Arrives(r)
    PROVE  LET run == runs[r]
               new == runs'[r]
           IN  /\ run.phase = "answered" /\ Others(r) /\ UNCHANGED <<used, server, spent, device>>
               /\ new.dirty = run.dirty /\ new.disturbed = run.disturbed /\ new.seen = run.seen
               /\ \/ /\ run.kind = "delta" /\ ~run.says
                     /\ new.phase = "ingested" /\ new.kind = "refresh" /\ new.page = <<>> /\ new.cursor = 0
                     /\ new.more = TRUE
                  \/ /\ ~(run.kind = "delta" /\ ~run.says)
                     /\ new.phase \in {"ingested", "ingesting"}
                     /\ new.kind = run.kind /\ new.since = run.since /\ new.page = run.page
                     /\ new.cursor = run.cursor /\ new.more = run.more
               /\ RunsTyped'
<1> DEFINE run == runs[r]
           new == IF run.kind = "delta" /\ ~run.says
                  THEN [run EXCEPT !.phase = "ingested", !.kind = "refresh", !.page = <<>>,
                                   !.cursor = 0, !.count = 0, !.more = TRUE]
                  ELSE [run EXCEPT !.phase = IF run.page = <<>> THEN "ingested" ELSE "ingesting"]
<1>1. run.phase = "answered" /\ UNCHANGED <<used, server, spent, device>> /\ SlotFrom(r, new)
    BY DEF Arrives
<1>2. run \in RunRecord /\ Sound(run) /\ run.after \in 0..r
    BY DEF RunsTyped
<1>3. runs'[r] = new /\ Others(r)
  <2>1. runs[r].phase # "waiting"
      BY <1>1
  <2> HIDE DEF new
  <2> QED
      BY <1>1, <2>1, SlotFromDoes
<1> HIDE DEF run
<1>4. <<>> \in Seq(ChangeRecord) /\ Range(<<>>) = {}
    BY DEF Range
<1>5. new \in RunRecord
    BY <1>2, <1>4 DEF RunRecord, Begun, Kinds
<1>6. /\ new.dirty = run.dirty /\ new.disturbed = run.disturbed /\ new.seen = run.seen /\ new.after = run.after
      /\ \/ /\ run.kind = "delta" /\ ~run.says
            /\ new.phase = "ingested" /\ new.kind = "refresh" /\ new.page = <<>> /\ new.cursor = 0
            /\ new.more = TRUE
         \/ /\ ~(run.kind = "delta" /\ ~run.says)
            /\ new.phase = IF run.page = <<>> THEN "ingested" ELSE "ingesting"
            /\ new.kind = run.kind /\ new.since = run.since /\ new.page = run.page
            /\ new.cursor = run.cursor /\ new.more = run.more
    BY <1>2 DEF RunRecord
<1> HIDE DEF new
<1>7. Sound(new)
  <2>1. run.kind \notin {"none", "catchup"}
      BY <1>1, <1>2 DEF Sound, Begun
  <2> QED
      BY <1>2, <1>4, <1>6, <2>1 DEF Sound, Begun
<1>8. RunsTyped'
  <2>1. runs[r].phase # "none"
      BY <1>1 DEF run
  <2> QED
      BY <2>1, <1>1, <1>2, <1>3, <1>5, <1>6, <1>7, StepTyped
<1> QED
    BY <1>1, <1>3, <1>6, <1>8 DEF run

LEMMA ReadFailsDoes ==
    ASSUME SlotsIInv, RunsTyped, NEW r \in Runs, ReadFails(r)
    PROVE  /\ runs[r].phase \in {"reading", "answered"} /\ Others(r) /\ UNCHANGED <<used, server, spent, device>>
           /\ runs'[r] = [NoRun EXCEPT !.phase = "over"]
           /\ RunsTyped'
<1>1. /\ runs[r].phase \in {"reading", "answered"} /\ UNCHANGED <<used, server, spent, device>>
      /\ SlotFrom(r, [NoRun EXCEPT !.phase = "over"])
    BY DEF ReadFails
<1>2. runs'[r] = [NoRun EXCEPT !.phase = "over"] /\ Others(r)
  <2>1. runs[r].phase # "waiting"
      BY <1>1
  <2> QED
      BY <1>1, <2>1, SlotFromDoes
<1>3. runs'[r] \in RunRecord /\ Sound(runs'[r]) /\ runs'[r].after \in 0..r
    BY <1>2, NoRunTyped DEF Runs
<1>4. RunsTyped'
  <2>1. runs[r].phase # "none"
      BY <1>1
  <2> QED
      BY <1>1, <1>2, <1>3, <2>1, StepTyped
<1> QED
    BY <1>1, <1>2, <1>4

LEMMA FinishDoes ==
    ASSUME RunsTyped, NEW r \in Runs, Finish(r)
    PROVE  /\ runs[r].phase = "ingested" /\ ~Continues(runs[r]) /\ Others(r)
           /\ UNCHANGED <<used, server, spent, device>>
           /\ runs'[r] = [NoRun EXCEPT !.phase = "over"]
           /\ RunsTyped'
<1>1. /\ runs[r].phase = "ingested" /\ UNCHANGED <<used, server, spent, device>> /\ ~Continues(runs[r])
      /\ runs' = [runs EXCEPT ![r] = [NoRun EXCEPT !.phase = "over"]]
    BY DEF Finish
<1>2. runs'[r] = [NoRun EXCEPT !.phase = "over"] /\ Others(r)
    BY <1>1 DEF Others, RunsTyped
<1>3. runs'[r] \in RunRecord /\ Sound(runs'[r]) /\ runs'[r].after \in 0..r
    BY <1>2, NoRunTyped DEF Runs
<1>4. RunsTyped'
  <2>1. runs[r].phase # "none"
      BY <1>1
  <2> QED
      BY <1>1, <1>2, <1>3, <2>1, StepTyped
<1> QED
    BY <1>1, <1>2, <1>4

LEMMA NextPageDoes ==
    ASSUME RunsTyped, NEW r \in Runs, NextPage(r)
    PROVE  /\ runs[r].phase = "ingested" /\ runs[r].more /\ Others(r) /\ UNCHANGED <<used, server, spent, device>>
           /\ \E phase \in {"waiting", "reading"} : runs'[r] = [runs[r] EXCEPT !.phase = phase]
           /\ RunsTyped'
<1>1. runs[r].phase = "ingested" /\ runs[r].more /\ UNCHANGED <<used, server, spent, device>> /\ SlotFor(r, runs[r])
    BY DEF NextPage, Continues
<1>2. Others(r)
    BY <1>1, SlotForDoes
<1>3. PICK phase \in {"waiting", "reading"} : runs'[r] = [runs[r] EXCEPT !.phase = phase]
    BY <1>1, SlotForDoes
<1>4. runs[r] \in RunRecord /\ Sound(runs[r]) /\ runs[r].after \in 0..r
    BY DEF RunsTyped
<1>5. runs[r].page = <<>> /\ runs[r].kind \notin {"none", "catchup"}
    BY <1>1, <1>4 DEF Sound, Begun
<1>6. runs'[r] \in RunRecord /\ Sound(runs'[r])
    BY <1>3, <1>4, <1>5, WaitingTyped
<1>7. runs'[r].after = runs[r].after
    BY <1>3, <1>4 DEF RunRecord
<1>8. RunsTyped'
  <2>1. runs[r].phase # "none"
      BY <1>1
  <2> QED
      BY <1>1, <1>2, <1>4, <1>6, <1>7, <2>1, StepTyped
<1> QED
    BY <1>1, <1>2, <1>3, <1>8

LEMMA IngestDoes ==
    ASSUME RunsTyped, NEW r \in Runs, Ingest(r)
    PROVE  LET run == runs[r]
               c == Head(run.page)
               new == runs'[r]
           IN  /\ run.phase = "ingesting" /\ Others(r) /\ UNCHANGED <<used, server, spent>>
               /\ c \in Range(run.page) /\ c \in ChangeRecord /\ Stores(c)
               /\ Range(run.page) = {c} \cup Range(new.page)
               /\ new.phase \in {"ingesting", "ingested"}
               /\ new.seen = (IF run.kind = "refresh" /\ ~Ignored(c) THEN run.seen \cup {c.doc} ELSE run.seen)
               /\ new.kind = run.kind /\ new.since = run.since /\ new.cursor = run.cursor /\ new.more = run.more
               /\ new.dirty = run.dirty /\ new.disturbed = run.disturbed
               /\ RunsTyped'
<1> DEFINE run == runs[r]
           c == Head(run.page)
           seen == IF run.kind = "refresh" /\ ~Ignored(c) THEN run.seen \cup {c.doc} ELSE run.seen
           phase == IF Len(run.page) = 1 THEN "ingested" ELSE run.phase
           page == Tail(run.page)
           new == [run EXCEPT !.page = page, !.seen = seen, !.phase = phase]
<1>1. /\ run.phase = "ingesting" /\ UNCHANGED <<used, server, spent>> /\ Stores(c)
      /\ runs' = [runs EXCEPT ![r] = new]
    BY DEF Ingest
<1>2. run \in RunRecord /\ Sound(run) /\ run.after \in 0..r
    BY DEF RunsTyped
<1> HIDE DEF run
<1>3. run.page \in Seq(ChangeRecord) /\ run.page # <<>> /\ run.seen \in SUBSET Docs
    BY <1>1, <1>2 DEF RunRecord, Sound
<1>4. /\ c \in Range(run.page) /\ c \in ChangeRecord
      /\ page \in Seq(ChangeRecord) /\ Len(page) = Len(run.page) - 1
      /\ Range(run.page) = {c} \cup Range(page)
  <2>1. /\ Len(run.page) \in Nat \ {0} /\ DOMAIN run.page = 1..Len(run.page) /\ c = run.page[1]
        /\ page \in Seq(ChangeRecord) /\ Len(page) = Len(run.page) - 1 /\ DOMAIN page = 1..Len(page)
        /\ \A i \in 1..Len(page) : page[i] = run.page[i + 1]
      BY <1>3
  <2> HIDE DEF c, page
  <2>2. c \in Range(run.page)
      BY <2>1 DEF Range
  <2>3. ASSUME NEW x \in Range(page) PROVE x \in Range(run.page)
    <3>1. PICK i \in 1..Len(page) : x = page[i]
        BY <2>1 DEF Range
    <3>2. i + 1 \in 1..Len(run.page) /\ x = run.page[i + 1]
        BY <2>1, <3>1
    <3> QED
        BY <2>1, <3>2 DEF Range
  <2>4. ASSUME NEW x \in Range(run.page), x # c PROVE x \in Range(page)
    <3>1. PICK i \in 1..Len(run.page) : x = run.page[i]
        BY <2>1 DEF Range
    <3>2. i - 1 \in 1..Len(page) /\ x = page[i - 1]
        BY <2>1, <2>4, <3>1
    <3> QED
        BY <2>1, <3>2 DEF Range
  <2>5. c \in ChangeRecord
      BY <2>1, <1>3
  <2> QED
      BY <2>1, <2>2, <2>3, <2>4, <2>5
<1>5. seen \in SUBSET Docs
    BY <1>3, <1>4 DEF ChangeRecord
<1>6. /\ phase \in {"ingested", "ingesting"} /\ (phase = "ingested" => page = <<>>)
      /\ (phase = "ingesting" => page # <<>>)
  <2>1. Len(run.page) \in Nat
      BY <1>3
  <2> HIDE DEF page, c
  <2>2. page = <<>> <=> Len(page) = 0
      BY <1>4, EmptySeq
  <2>3. page = <<>> <=> Len(run.page) = 1
      BY <1>4, <2>1, <2>2
  <2> QED
      BY <1>1, <2>3
<1> HIDE DEF c, seen, phase, page
<1>7. new \in RunRecord
    BY <1>2, <1>4, <1>5, <1>6 DEF RunRecord, Begun
<1>8. /\ new.phase = phase /\ new.page = page /\ new.seen = seen /\ new.kind = run.kind /\ new.since = run.since
      /\ new.cursor = run.cursor /\ new.more = run.more /\ new.dirty = run.dirty
      /\ new.disturbed = run.disturbed /\ new.after = run.after
    BY <1>2 DEF RunRecord
<1> HIDE DEF new
<1>9. Sound(new)
  <2>1. run.kind \notin {"none", "catchup"}
      BY <1>1, <1>2 DEF Sound, Begun
  <2>2. run.kind = "refresh" => \A x \in Range(page) : x.how = "added"
      BY <1>2, <1>4 DEF Sound
  <2>3. run.kind # "delta" => run.cursor \in Docs \cup {0}
      BY <1>2 DEF Sound
  <2> QED
      BY <1>6, <1>8, <2>1, <2>2, <2>3 DEF Sound, Begun
<1>10. runs'[r] = new /\ Others(r)
    BY <1>1 DEF Others, RunsTyped
<1>11. RunsTyped'
  <2>1. runs[r].phase # "none"
      BY <1>1 DEF run
  <2> QED
      BY <2>1, <1>1, <1>2, <1>7, <1>8, <1>9, <1>10, StepTyped
<1> QED
    BY <1>1, <1>4, <1>6, <1>8, <1>10, <1>11 DEF run, c, seen

\* A finite set as a sequence.
LEMMA SetAsSeq ==
    ASSUME NEW S, IsFiniteSet(S)
    PROVE  SetToSeq(S) \in Seq(S) /\ Range(SetToSeq(S)) = S
<1> DEFINE n == Cardinality(S)
           f == SetToSeq(S)
<1>1. n \in Nat /\ ExistsBijection(1..n, S)
    BY FS_CardinalityType
<1>2. \E g \in [1..n -> S] : IsInjective(g)
    BY <1>1 DEF ExistsBijection, Bijection, Injection
<1>3. f \in [1..n -> S] /\ IsInjective(f)
    BY <1>2 DEF SetToSeq
<1> HIDE DEF f
<1>4. f \in Injection(1..n, S)
    BY <1>3 DEF Injection
<1>5. IsFiniteSet(1..n) /\ Cardinality(1..n) = n
  <2>1. 1 \in Int /\ n \in Int
      BY <1>1
  <2>2. IsFiniteSet(1..n) /\ Cardinality(1..n) = IF 1 > n THEN 0 ELSE n - 1 + 1
      BY <2>1, FS_Interval, Zenon
  <2> QED
      BY <1>1, <2>2
<1>6. f \in Surjection(1..n, S)
    BY <1>4, <1>5, FS_Injection
<1>7. f \in Seq(S) /\ DOMAIN f = 1..n
    BY <1>1, <1>3
<1>8. Range(f) = S
    BY <1>6, <1>7 DEF Surjection, Range
<1> QED
    BY <1>7, <1>8 DEF f

LEMMA PruneDoes ==
    ASSUME RunsTyped, NEW r \in Runs, Prune(r)
    PROVE  LET run == runs[r]
               gone == {d \in Docs : device[d] # 0 /\ d \notin run.seen}
               new == runs'[r]
           IN  /\ run.phase = "ingested" /\ run.kind = "refresh" /\ ~run.more /\ Others(r)
               /\ UNCHANGED <<used, server, spent, device>>
               /\ new.phase \in {"ingesting", "ingested"} /\ new.kind = "prune"
               /\ Range(new.page) = {[doc |-> d, version |-> 0, how |-> "removed"] : d \in gone}
               /\ new.seen = run.seen /\ new.dirty = run.dirty /\ new.disturbed = run.disturbed
               /\ RunsTyped'
<1> DEFINE run == runs[r]
           gone == {d \in Docs : device[d] # 0 /\ d \notin run.seen}
           s == SetToSeq(gone)
           page == [i \in DOMAIN s |-> [doc |-> s[i], version |-> 0, how |-> "removed"]]
           phase == IF s = <<>> THEN "ingested" ELSE "ingesting"
           new == [run EXCEPT !.kind = "prune", !.phase = phase, !.page = page]
<1>1. /\ run.phase = "ingested" /\ run.kind = "refresh" /\ ~run.more
      /\ UNCHANGED <<used, server, spent, device>> /\ runs' = [runs EXCEPT ![r] = new]
    BY DEF Prune
<1>2. run \in RunRecord /\ Sound(run) /\ run.after \in 0..r
    BY DEF RunsTyped
<1>3. s \in Seq(gone) /\ Range(s) = gone
  <2>1. IsFiniteSet(gone)
      BY DocsAssumption, FS_Subset
  <2> QED
      BY <2>1, SetAsSeq
<1>4. s \in Seq(Docs)
    BY <1>3
<1> HIDE DEF run, s, gone
<1>5. /\ page \in Seq(ChangeRecord) /\ (page = <<>> <=> s = <<>>)
      /\ Range(page) = {[doc |-> d, version |-> 0, how |-> "removed"] : d \in gone}
  <2>1. \A d \in Docs : [doc |-> d, version |-> 0, how |-> "removed"] \in ChangeRecord
      BY SizesAssumption DEF ChangeRecord
  <2>2. DOMAIN s = 1..Len(s) /\ Len(s) \in Nat /\ \A i \in 1..Len(s) : s[i] \in Docs
      BY <1>4
  <2>3. page \in Seq(ChangeRecord) /\ Len(page) = Len(s) /\ DOMAIN page = 1..Len(s)
      BY <2>1, <2>2
  <2>4. Range(page) = {[doc |-> d, version |-> 0, how |-> "removed"] : d \in Range(s)}
      BY <2>2 DEF Range
  <2> QED
      BY <1>3, <1>4, <2>3, <2>4
<1> HIDE DEF page
<1>6. phase \in {"ingested", "ingesting"}
    OBVIOUS
<1>7. new \in RunRecord
    BY <1>2, <1>5, <1>6 DEF RunRecord, Begun, Kinds
<1>8. /\ new.phase = phase /\ new.page = page /\ new.seen = run.seen /\ new.kind = "prune"
      /\ new.cursor = run.cursor /\ new.dirty = run.dirty /\ new.disturbed = run.disturbed
      /\ new.after = run.after
    BY <1>2 DEF RunRecord
<1> HIDE DEF new
<1>9. Sound(new)
    BY <1>1, <1>2, <1>5, <1>8 DEF Sound, Begun
<1>10. runs'[r] = new /\ Others(r)
    BY <1>1 DEF Others, RunsTyped, run
<1>11. RunsTyped'
  <2>1. runs[r].phase # "none"
      BY <1>1 DEF run
  <2> QED
      BY <2>1, <1>1, <1>2, <1>7, <1>8, <1>9, <1>10, StepTyped
<1> QED
    BY <1>1, <1>5, <1>6, <1>8, <1>10, <1>11 DEF run, gone

-----------------------------------------------------------------------------
(* What the other steps do to the runs *)

\* A run goes on as it was, or gets its slot; more documents may have been written meanwhile.
Kept(run, new) ==
    /\ new.phase = run.phase \/ (run.phase = "waiting" /\ new.phase = "reading")
    /\ new.kind = run.kind /\ new.since = run.since /\ new.cursor = run.cursor /\ new.more = run.more
    /\ new.says = run.says /\ new.page = run.page /\ new.seen = run.seen
    /\ run.dirty \subseteq new.dirty /\ (run.disturbed => new.disturbed)

\* It does, or is not one that began.
Goes(q) == Kept(runs[q], runs'[q]) \/ runs'[q].phase \notin Begun

LEMMA OthersGo ==
    ASSUME RunsTyped, NEW r, Others(r), NEW q \in Runs \ {r}
    PROVE  Goes(q)
<1>1. runs[q] \in RunRecord
    BY DEF RunsTyped
<1>2. CASE runs'[q] = runs[q]
    BY <1>2 DEF Goes, Kept
<1>3. CASE runs[q].phase = "waiting" /\ runs'[q] = [runs[q] EXCEPT !.phase = "reading"]
    BY <1>1, <1>3 DEF Goes, Kept, RunRecord
<1> QED
    BY <1>2, <1>3 DEF Others

LEMMA FlagKept ==
    ASSUME RunsTyped, NEW f \in {"old", "disturbed"}, NEW q \in Runs
    PROVE  Kept(runs[q], Flag(runs, f)[q])
<1>1. runs[q] \in RunRecord
    BY DEF RunsTyped
<1>2. Flag(runs, f)[q] = IF runs[q].phase \in Begun THEN [runs[q] EXCEPT ![f] = TRUE] ELSE runs[q]
    BY DEF Flag
<1>3. CASE f = "old"
    BY <1>1, <1>2, <1>3 DEF Kept, RunRecord
<1>4. CASE f = "disturbed"
    BY <1>1, <1>2, <1>4 DEF Kept, RunRecord
<1> QED
    BY <1>3, <1>4

LEMMA QueueGoes ==
    ASSUME RunsTyped, NEW rs \in [Runs -> RunRecord], \A q \in Runs : Kept(runs[q], rs[q]),
           NEW kind, NEW after, Queue(rs, kind, after), NEW q \in Runs
    PROVE  Goes(q)
<1>1. used + 1 \in Runs
    BY SizesAssumption DEF Queue, RunsTyped, Runs
<1>2. runs'[q] = rs[q] \/ runs'[q] = [NoRun EXCEPT !.phase = "chained", !.kind = kind, !.after = after]
    BY <1>1 DEF Queue
<1>3. [NoRun EXCEPT !.phase = "chained", !.kind = kind, !.after = after].phase = "chained"
    BY DEF NoRun
<1> QED
    BY <1>2, <1>3 DEF Goes, Begun

\* Realtime is opened again.
LEMMA ReopenedRuns ==
    ASSUME RunsTyped, last \in 0..used, Queue(Flag(runs, "old"), "catchup", last)
    PROVE  RunsTyped' /\ last' \in 0..used' /\ \A q \in Runs : Goes(q)
<1>1. /\ Flag(runs, "old") \in [Runs -> RunRecord]
      /\ \A q \in Runs : /\ Sound(Flag(runs, "old")[q]) /\ Flag(runs, "old")[q].after = runs[q].after
                         /\ (q > used => Flag(runs, "old")[q] = NoRun)
      /\ \A q \in Runs : Kept(runs[q], Flag(runs, "old")[q])
    BY FlagTyped, FlagKept
<1>2. last \in 0..used + 1
    BY DEF RunsTyped
<1> DEFINE rs == Flag(runs, "old")
<1> HIDE DEF rs
<1>3. RunsTyped' /\ last' \in 0..used'
    BY <1>1, <1>2, QueueTyped DEF rs
<1>4. \A q \in Runs : Goes(q)
    BY <1>1, QueueGoes DEF rs
<1> QED
    BY <1>3, <1>4

\* A run is queued, and the others are left alone.
LEMMA QueuedRuns ==
    ASSUME RunsTyped, last \in 0..used, NEW kind \in {"catchup", "extend"}, NEW after \in 0..used + 1,
           Queue(runs, kind, after)
    PROVE  RunsTyped' /\ last' \in 0..used' /\ \A q \in Runs : Goes(q)
<1>1. runs \in [Runs -> RunRecord] /\ \A q \in Runs : Sound(runs[q]) /\ (q > used => runs[q] = NoRun)
    BY DEF RunsTyped
<1>2. \A q \in Runs : Kept(runs[q], runs[q])
    BY DEF Kept
<1> QED
    BY <1>1, <1>2, QueueTyped, QueueGoes

LEMMA AcquiredRuns ==
    ASSUME RunsTyped, last \in 0..used, NEW h, Acquires(h)
    PROVE  RunsTyped' /\ last' \in 0..used' /\ \A q \in Runs : Goes(q)
<1>1. CASE active
    BY <1>1 DEF Acquires, RunsTyped, Goes, Kept
<1>2. CASE ~active
    BY <1>2, ReopenedRuns DEF Acquires
<1> QED
    BY <1>1, <1>2

\* The storage was emptied under the runs: none works undisturbed.
LEMMA DisturbedRuns ==
    ASSUME RunsTyped, UNCHANGED used, runs' = Flag(runs, "disturbed")
    PROVE  /\ RunsTyped'
           /\ \A q \in Runs : Goes(q) /\ (runs'[q].phase \in Begun => runs'[q].disturbed)
<1>1. \A q \in Runs : Goes(q)
    BY FlagKept DEF Goes
<1>2. RunsTyped'
    BY FlagTyped DEF RunsTyped
<1>3. ASSUME NEW q \in Runs, runs'[q].phase \in Begun PROVE runs'[q].disturbed
  <2>1. runs[q] \in RunRecord
      BY DEF RunsTyped
  <2>2. runs'[q].phase = runs[q].phase
      BY FlagTyped
  <2>3. runs'[q] = [runs[q] EXCEPT !.disturbed = TRUE]
      BY <1>3, <2>2 DEF Flag
  <2> QED
      BY <2>1, <2>3 DEF RunRecord
<1> QED
    BY <1>1, <1>2, <1>3

\* A write is noted in the runs.
LEMMA WriteRuns ==
    ASSUME RunsTyped, NEW d \in Docs, NEW version, NEW gone, Write(d, version, gone)
    PROVE  /\ RunsTyped'
           /\ \A q \in Runs : Goes(q) /\ (runs'[q].phase \in Begun => d \in runs'[q].dirty)
<1>1. /\ UNCHANGED used
      /\ runs' = [q \in Runs |-> IF runs[q].phase \in Begun
                                THEN [runs[q] EXCEPT !.dirty = @ \cup {d}] ELSE runs[q]]
    BY DEF Write
<1>2. ASSUME NEW q \in Runs
      PROVE  /\ runs'[q] \in RunRecord /\ Sound(runs'[q]) /\ runs'[q].after = runs[q].after
             /\ (q > used => runs'[q] = NoRun) /\ Kept(runs[q], runs'[q])
             /\ (runs'[q].phase \in Begun => d \in runs'[q].dirty)
  <2> DEFINE dirty == runs[q].dirty \cup {d}
             new == [runs[q] EXCEPT !.dirty = dirty]
  <2>1. runs[q] \in RunRecord /\ Sound(runs[q]) /\ (q > used => runs[q] = NoRun)
      BY DEF RunsTyped
  <2>2. dirty \in SUBSET (Docs \cup {0}) /\ runs[q].dirty \subseteq dirty /\ d \in dirty
      BY <2>1 DEF RunRecord
  <2>3. runs'[q] = IF runs[q].phase \in Begun THEN new ELSE runs[q]
      BY <1>1
  <2> HIDE DEF dirty
  <2>4. /\ new \in RunRecord /\ new.phase = runs[q].phase /\ new.page = runs[q].page /\ new.seen = runs[q].seen
        /\ new.kind = runs[q].kind /\ new.cursor = runs[q].cursor /\ new.after = runs[q].after
        /\ new.since = runs[q].since /\ new.more = runs[q].more /\ new.says = runs[q].says
        /\ new.dirty = dirty /\ new.disturbed = runs[q].disturbed
      BY <2>1, <2>2 DEF RunRecord
  <2> HIDE DEF new
  <2>5. Sound(new) /\ Kept(runs[q], new) /\ Kept(runs[q], runs[q])
      BY <2>1, <2>2, <2>4 DEF Sound, Kept
  <2>6. NoRun.phase \notin Begun
      BY DEF NoRun, Begun
  <2> QED
      BY <2>1, <2>2, <2>3, <2>4, <2>5, <2>6
<1>3. runs' \in [Runs -> RunRecord]
    BY <1>1, <1>2
<1> QED
    BY <1>1, <1>2, <1>3 DEF RunsTyped, Goes

-----------------------------------------------------------------------------
(* The types are kept *)

\* A set of versions has a greatest one.
LEMMA Greatest ==
    ASSUME NEW K \in Nat, NEW S \in SUBSET (0..K), S # {}
    PROVE  Max(S) \in 0..K /\ \A y \in S : y <= Max(S)
<1> DEFINE T == {x..K : x \in S}
<1>1. \A x \in S : IsFiniteSet(x..K) /\ x..K \in SUBSET Nat
  <2> TAKE x \in S
  <2>1. x \in Int /\ K \in Int
      BY SMT
  <2>2. IsFiniteSet(x..K)
      BY <2>1, FS_Interval, Zenon
  <2> QED
      BY <2>2, SMT
<1>2. T \subseteq FiniteSubsetsOf(Nat) /\ T # {}
    BY <1>1 DEF FiniteSubsetsOf
<1>3. IsWellFoundedOn(StrictSubsetOrdering(Nat), FiniteSubsetsOf(Nat))
    BY FS_StrictSubsetOrderingWellFounded
<1> HIDE DEF T
<1>4. \E a \in T : \A b \in T : <<b, a>> \notin StrictSubsetOrdering(Nat)
    BY <1>2, <1>3, WFMin, Zenon
<1> USE DEF T
<1>5. PICK x \in S : \A y \in S : <<y..K, x..K>> \notin StrictSubsetOrdering(Nat)
    BY <1>4
<1>6. ASSUME NEW y \in S, y > x
      PROVE  FALSE
  <2>1. y..K \in SUBSET Nat /\ x..K \in SUBSET Nat
      BY <1>1
  <2>2. y..K \subseteq x..K /\ x \in x..K /\ x \notin y..K
      BY <1>6, SMT
  <2>3. <<y..K, x..K>> \in StrictSubsetOrdering(Nat)
      BY <2>1, <2>2 DEF StrictSubsetOrdering
  <2> QED
      BY <2>3, <1>5
<1>7. \E m \in S : \A y \in S : m >= y
    BY <1>5, <1>6, SMT
<1>8. Max(S) \in S /\ \A y \in S : Max(S) >= y
    BY <1>7 DEF Max
<1> QED
    BY <1>8

LEMMA AdvancedTyped ==
    ASSUME NEW m \in MetaRecord, NEW changes \in Seq(ChangeRecord)
    PROVE  Advanced(m, changes) \in MetaRecord
<1> DEFINE S == {m.synced} \cup {c.version : c \in {e \in Range(changes) : e.how # "removed"}}
           synced == Max(S)
<1>1. \A c \in Range(changes) : c.version \in 0..MaxVersion
  <2>1. \A c \in Range(changes) : c \in ChangeRecord
      BY DEF Range
  <2> QED
      BY <2>1 DEF ChangeRecord
<1>2. m.synced \in 0..MaxVersion
    BY DEF MetaRecord
<1>3. S \in SUBSET (0..MaxVersion) /\ S # {}
    BY <1>1, <1>2
<1> HIDE DEF S
<1>4. synced \in 0..MaxVersion
    BY <1>3, SizesAssumption, Greatest
<1> HIDE DEF synced
<1>5. Advanced(m, changes) = [m EXCEPT !.synced = synced]
    BY DEF Advanced, S, synced
<1> QED
    BY <1>4, <1>5 DEF MetaRecord

LEMMA StoresTyped ==
    ASSUME DeviceTyped, NEW c \in ChangeRecord, Stores(c)
    PROVE  DeviceTyped'
<1>1. c.version \in 0..MaxVersion /\ 0 \in 0..MaxVersion /\ c.doc \in Docs
    BY SizesAssumption DEF ChangeRecord
<1>2. PICK v : device' = [device EXCEPT ![c.doc] = v] /\ v \in {device[c.doc], 0, c.version}
    BY DEF Stores
<1> QED
    BY <1>1, <1>2 DEF DeviceTyped

LEMMA EmptyMetaTyped ==
    ASSUME ScopeTyped
    PROVE  EmptyMeta \in MetaRecord
BY SizesAssumption DEF ScopeTyped, EmptyMeta, MetaRecord

\* No step of a run changes what the scope is.
LEMMA StepScopeTyped ==
    ASSUME ScopeTyped, NEW r \in Runs, Step(r)
    PROVE  ScopeTyped' /\ UNCHANGED <<answer, wire, rt, server, spent, serves, last, used>>
<1>1. /\ UNCHANGED <<config, scopeVars, sessionVars, day, last, used, first, answer, wire, rt, server, spent, serves>>
      /\ sub' \in {sub, Registered}
      /\ live' = live \/ live' = (sub # "off")
    BY DEF Step, Begin, ServerReads, Arrives, ReadFails, Ingest, NextPage, Prune, Finish
<1>2. sub' \in {"off", "asked", "on", "lost"}
    BY <1>1 DEF ScopeTyped, Registered
<1>3. live' \in BOOLEAN
    BY <1>1 DEF ScopeTyped
<1> QED
    BY <1>1, <1>2, <1>3 DEF ScopeTyped

LEMMA StepTypedAll ==
    ASSUME SlotsIInv, SyncTyped, NEW r \in Runs, Step(r),
           \A d, e \in Docs : server[d].version = server[e].version /\ server[d].version # 0 => d = e
    PROVE  SyncTyped'
<1>1. ScopeTyped' /\ FlightTyped' /\ ServerTyped'
    BY StepScopeTyped DEF SyncTyped, FlightTyped, ServerTyped
<1>2. RunsTyped'
    BY BeginDoes, ServerReadsDoes, ArrivesDoes, ReadFailsDoes, IngestDoes, NextPageDoes, PruneDoes, FinishDoes
       DEF Step, SyncTyped
<1>3. DeviceTyped'
  <2>1. CASE Ingest(r)
      BY <2>1, IngestDoes, StoresTyped DEF SyncTyped
  <2>2. CASE ~Ingest(r)
    <3>1. device' = device
        BY <2>2 DEF Step, Begin, ServerReads, Arrives, ReadFails, NextPage, Prune, Finish
    <3> QED
        BY <3>1 DEF SyncTyped, DeviceTyped
  <2> QED
      BY <2>1, <2>2
<1>4. MetaTyped'
  <2>1. runs[r] \in RunRecord /\ Sound(runs[r]) /\ meta \in MetaRecord
      BY DEF SyncTyped, RunsTyped, MetaTyped
  <2>2. CASE Arrives(r)
    <3> DEFINE said == [meta EXCEPT !.sync = runs[r].says]
    <3>1. said \in MetaRecord
        BY <2>1 DEF MetaRecord, RunRecord
    <3>2. Advanced(said, runs[r].page) \in MetaRecord
      <4>1. runs[r].page \in Seq(ChangeRecord)
          BY <2>1 DEF RunRecord
      <4> HIDE DEF said
      <4> QED
          BY <3>1, <4>1, AdvancedTyped
    <3>3. meta' \in {said, Advanced(said, runs[r].page)} /\ stored' = stored
        BY <2>2 DEF Arrives
    <3> QED
        BY <3>1, <3>2, <3>3 DEF MetaTyped, SyncTyped
  <2>3. CASE Finish(r)
    <3> DEFINE next == IF runs[r].more THEN runs[r].cursor ELSE 0
               loaded == meta.loaded \/ runs[r].kind = "first"
               complete == ~runs[r].more
    <3>1. /\ \/ meta' = meta
             \/ meta' = [meta EXCEPT !.loaded = loaded, !.next = next, !.complete = complete] /\ next \in Docs \cup {0}
          /\ stored' = {meta'}
      <4>1. runs[r].kind \in {"first", "extend"} => next \in Docs \cup {0}
          BY <2>1 DEF Sound
      <4> QED
          BY <2>3, <4>1 DEF Finish
    <3>2. loaded \in BOOLEAN /\ complete \in BOOLEAN
        BY <2>1 DEF MetaRecord, RunRecord
    <3> HIDE DEF next, loaded, complete
    <3>3. meta' \in MetaRecord
        BY <2>1, <3>1, <3>2 DEF MetaRecord
    <3> QED
        BY <3>1, <3>3 DEF MetaTyped
  <2>4. CASE ~Arrives(r) /\ ~Finish(r)
    <3>1. UNCHANGED <<meta, stored>>
        BY <2>4 DEF Step, Begin, ServerReads, ReadFails, Ingest, NextPage, Prune
    <3> QED
        BY <3>1 DEF SyncTyped, MetaTyped
  <2> QED
      BY <2>2, <2>3, <2>4
<1> QED
    BY <1>1, <1>2, <1>3, <1>4 DEF SyncTyped

\* The wire, while events are taken from it.
LEMMA WireTail ==
    ASSUME FlightTyped, wire # <<>>
    PROVE  /\ Tail(wire) \in Seq(ChangeRecord) /\ Head(wire) \in ChangeRecord
           /\ Range(Tail(wire)) \subseteq Range(wire) /\ Head(wire) \in Range(wire)
<1>1. /\ wire \in Seq(ChangeRecord) /\ Len(wire) \in Nat \ {0} /\ DOMAIN wire = 1..Len(wire)
      /\ Tail(wire) \in Seq(ChangeRecord) /\ DOMAIN Tail(wire) = 1..Len(wire) - 1
      /\ \A i \in 1..Len(wire) - 1 : Tail(wire)[i] = wire[i + 1]
      /\ Head(wire) = wire[1]
    BY DEF FlightTyped
<1>2. ASSUME NEW x \in Range(Tail(wire)) PROVE x \in Range(wire)
  <2>1. PICK i \in 1..Len(wire) - 1 : x = Tail(wire)[i]
      BY <1>1 DEF Range
  <2>2. i + 1 \in 1..Len(wire) /\ x = wire[i + 1]
      BY <1>1, <2>1
  <2> QED
      BY <1>1, <2>2 DEF Range
<1>3. Head(wire) \in Range(wire) /\ Head(wire) \in ChangeRecord
    BY <1>1 DEF Range
<1> QED
    BY <1>1, <1>2, <1>3

\* The query is opened, or left alone.
LEMMA AcquiresTyped ==
    ASSUME SyncTyped, NEW h \in Holders \cup {Persisted}, Acquires(h),
           UNCHANGED <<config, faults, day, rt, stored>>,
           opening' \in {"no", "evicting", "over"}, evicting' \subseteq Docs, flushing' \in BOOLEAN
    PROVE  RunsTyped' /\ ScopeTyped' /\ FlightTyped' /\ MetaTyped'
<1>1. RunsTyped' /\ last' \in 0..used'
    BY AcquiredRuns DEF SyncTyped, ScopeTyped
<1>2. \/ sub' = sub /\ live' = live /\ first' = first /\ answer' = answer /\ wire' = wire
      \/ sub' = "asked" /\ live' = FALSE /\ first' = TRUE /\ answer' = {Due} /\ wire' = <<>>
    BY DEF Acquires, Opened
<1>3. FlightTyped'
  <2>1. <<>> \in Seq(ChangeRecord)
      OBVIOUS
  <2> QED
      BY <1>2, <2>1 DEF SyncTyped, FlightTyped
<1>4. sub' \in {"off", "asked", "on", "lost"} /\ live' \in BOOLEAN /\ first' \in BOOLEAN
    BY <1>2 DEF SyncTyped, ScopeTyped
<1>5. /\ scope' \in {"none", "restoring", "ready"} /\ held' \subseteq Holders \cup {Persisted}
      /\ active' \in BOOLEAN /\ timer' \in BOOLEAN
    BY DEF Acquires, SyncTyped, ScopeTyped
<1>6. ScopeTyped'
    BY <1>1, <1>4, <1>5 DEF SyncTyped, ScopeTyped
<1>7. meta' = meta \/ meta' = [meta EXCEPT !.at = day, !.used = day]
    BY DEF Acquires
<1>8. meta' \in MetaRecord
    BY <1>7 DEF SyncTyped, MetaTyped, ScopeTyped, MetaRecord
<1>9. MetaTyped'
    BY <1>8 DEF SyncTyped, MetaTyped
<1> QED
    BY <1>1, <1>3, <1>6, <1>9

\* A write, and what is told of it.
LEMMA WriteTyped ==
    ASSUME SyncTyped, NEW d \in Docs, NEW version \in 1..MaxVersion, NEW gone \in BOOLEAN,
           Write(d, version, gone)
    PROVE  SyncTyped'
<1>1. RunsTyped'
    BY WriteRuns DEF SyncTyped
<1>2. ServerTyped'
  <2>1. /\ server' = [server EXCEPT ![d] = [version |-> version, live |-> ~gone]]
        /\ spent' = spent \cup {version} /\ serves' = serves
      BY DEF Write
  <2>2. version \in 0..MaxVersion /\ (~gone) \in BOOLEAN
      BY SizesAssumption
  <2> QED
      BY <2>1, <2>2 DEF SyncTyped, ServerTyped
<1>3. FlightTyped'
  <2>1. \A c \in Told(d, version, gone) : c \in ChangeRecord
      BY SizesAssumption DEF Told, ChangeRecord
  <2>2. \/ wire' = wire
        \/ \E c \in Told(d, version, gone) : wire' = Append(wire, c)
      BY DEF Write
  <2>3. wire' \in Seq(ChangeRecord)
      BY <2>1, <2>2 DEF SyncTyped, FlightTyped
  <2>4. UNCHANGED <<answer, rt>>
      BY DEF Write
  <2> QED
      BY <2>3, <2>4 DEF SyncTyped, FlightTyped
<1>4. UNCHANGED <<config, scopeVars, sub, live, first, sessionVars, day, last, used, meta, stored, device>>
    BY DEF Write
<1> QED
    BY <1>1, <1>2, <1>3, <1>4 DEF SyncTyped, ScopeTyped, MetaTyped, DeviceTyped

\* The realtime of the scope.
LEMMA RealtimeTyped ==
    ASSUME SyncTyped, Answered \/ RtTake \/ RtStore \/ Drop \/ Reconnected
    PROVE  SyncTyped'
<1>1. CASE Answered
  <2>1. /\ UNCHANGED <<config, serverVars, device, stored, meta, scopeVars, runVars, wire, live, rt, sessionVars, day>>
        /\ sub' = Registered
      BY <1>1 DEF Answered
  <2>2. /\ first' \in BOOLEAN
        /\ \/ answer' = {}
           \/ \E d \in Docs : answer' = {[doc |-> d, version |-> server[d].version, how |-> "added"]}
      BY <1>1 DEF Answered, SyncTyped, ScopeTyped
  <2>3. answer' \subseteq ChangeRecord \cup {Due}
      BY <2>2 DEF SyncTyped, ServerTyped, ChangeRecord
  <2>4. sub' \in {"off", "asked", "on", "lost"}
      BY <2>1 DEF SyncTyped, ScopeTyped, Registered
  <2> QED
      BY <2>1, <2>2, <2>3, <2>4
         DEF SyncTyped, RunsTyped, ServerTyped, FlightTyped, ScopeTyped, MetaTyped, DeviceTyped
<1>2. CASE RtTake
  <2>1. /\ UNCHANGED <<config, serverVars, device, stored, scopeVars, runVars, sub, live, sessionVars, day>>
        /\ first' = FALSE
      BY <1>2 DEF RtTake
  <2>2. PICK c \in (answer \ {Due}) \cup (IF wire = <<>> THEN {} ELSE {Head(wire)}) :
            /\ IF c \in answer THEN answer' = {} /\ wire' = wire ELSE answer' = answer /\ wire' = Tail(wire)
            /\ rt' = c
            /\ meta' = IF ~first /\ live THEN Advanced(meta, <<c>>) ELSE meta
      BY <1>2 DEF RtTake
  <2>3. c \in ChangeRecord /\ (c \notin answer => wire # <<>>)
      BY <2>2, WireTail DEF SyncTyped, FlightTyped
  <2>4. FlightTyped'
      BY <2>2, <2>3, WireTail DEF SyncTyped, FlightTyped
  <2>5. meta' \in MetaRecord
    <3>1. <<c>> \in Seq(ChangeRecord) /\ meta \in MetaRecord
        BY <2>3 DEF SyncTyped, MetaTyped
    <3> QED
        BY <2>2, <3>1, AdvancedTyped
  <2>6. ScopeTyped'
      BY <2>1 DEF SyncTyped, ScopeTyped
  <2>7. RunsTyped' /\ ServerTyped' /\ DeviceTyped'
      BY <2>1 DEF SyncTyped, RunsTyped, ServerTyped, DeviceTyped
  <2>8. MetaTyped'
      BY <2>1, <2>5 DEF SyncTyped, MetaTyped
  <2> QED
      BY <2>4, <2>6, <2>7, <2>8 DEF SyncTyped
<1>3. CASE RtStore
  <2>1. /\ UNCHANGED <<config, serverVars, meta, scopeVars, runVars, realtimeVars, sessionVars, day>>
        /\ rt # Nothing /\ Stores(rt) /\ stored' = {meta} /\ rt' = Nothing
      BY <1>3 DEF RtStore
  <2>2. rt \in ChangeRecord
      BY <2>1 DEF SyncTyped, FlightTyped
  <2>3. DeviceTyped'
      BY <2>1, <2>2, StoresTyped DEF SyncTyped
  <2> QED
      BY <2>1, <2>3 DEF SyncTyped, RunsTyped, ServerTyped, FlightTyped, ScopeTyped, MetaTyped
<1>4. CASE Drop
  <2>1. /\ UNCHANGED <<config, serverVars, device, stored, meta, scopeVars, runVars, answer, first, live, rt,
                       opening, evicting, flushing, day>>
        /\ sub' = "lost" /\ wire' = <<>> /\ faults' \in 0..MaxFaults
      BY <1>4, SizesAssumption DEF Drop, SyncTyped, ScopeTyped
  <2>2. <<>> \in Seq(ChangeRecord)
      OBVIOUS
  <2> QED
      BY <2>1, <2>2 DEF SyncTyped, RunsTyped, ServerTyped, FlightTyped, ScopeTyped, MetaTyped, DeviceTyped
<1>5. CASE Reconnected
  <2>1. /\ UNCHANGED <<config, serverVars, device, stored, meta, scopeVars, rt, sessionVars, day>>
        /\ sub' = "asked" /\ answer' = {Due} /\ wire' = <<>> /\ first' = TRUE /\ live' = FALSE
        /\ Queue(Flag(runs, "old"), "catchup", last)
      BY <1>5 DEF Reconnected, Opened
  <2>2. RunsTyped' /\ last' \in 0..used'
      BY <2>1, ReopenedRuns DEF SyncTyped, ScopeTyped
  <2>3. <<>> \in Seq(ChangeRecord)
      OBVIOUS
  <2> QED
      BY <2>1, <2>2, <2>3 DEF SyncTyped, ServerTyped, FlightTyped, ScopeTyped, MetaTyped, DeviceTyped
<1> QED
    BY <1>1, <1>2, <1>3, <1>4, <1>5

\* The scope, its holders and the sessions.
LEMMA SessionTyped ==
    ASSUME SyncTyped,
           \/ Restored \/ KeepEnds \/ Extend \/ Start \/ Evicted \/ FlushStorage \/ Cleared \/ Restart
           \/ DayPasses \/ Redeploy
           \/ \E h \in Holders : Acquire(h) \/ Release(h)
           \/ \E d \in Docs : Evict(d)
    PROVE  SyncTyped'
<1> USE DEF SyncTyped
<1>e. <<>> \in Seq(ChangeRecord) /\ 0 \in 0..MaxVersion
    BY SizesAssumption
<1>1. CASE Restored
  <2>1. /\ UNCHANGED <<config, serverVars, device, stored, held, active, timer, runVars, realtimeVars, rt,
                       sessionVars, day>>
        /\ scope' = "ready"
        /\ meta' = IF stored = {} THEN meta ELSE FromStorage(CHOOSE m \in stored : TRUE)
      BY <1>1 DEF Restored
  <2>2. meta' \in MetaRecord
    <3>1. CASE stored = {}
        BY <2>1, <3>1 DEF MetaTyped
    <3>2. CASE stored # {}
      <4>1. PICK m \in MetaRecord : stored = {m}
          BY <3>2 DEF MetaTyped
      <4>2. (CHOOSE n \in stored : TRUE) = m
          BY <4>1
      <4>3. FromStorage(m) \in MetaRecord
          BY DEF FromStorage, MetaTyped, MetaRecord
      <4> QED
          BY <2>1, <3>2, <4>2, <4>3
    <3> QED
        BY <3>1, <3>2
  <2> QED
      BY <2>1, <2>2 DEF RunsTyped, ServerTyped, FlightTyped, ScopeTyped, MetaTyped, DeviceTyped
<1>2. CASE KeepEnds
  <2>1. /\ UNCHANGED <<config, serverVars, device, stored, meta, scope, held, runVars, first, live, rt, sessionVars, day>>
        /\ timer' = FALSE
        /\ \/ UNCHANGED <<active, sub, answer, wire>>
           \/ active' = FALSE /\ sub' = "off" /\ answer' = {} /\ wire' = <<>>
      BY <1>2 DEF KeepEnds
  <2>2. ScopeTyped'
      BY <2>1 DEF ScopeTyped
  <2>3. RunsTyped' /\ ServerTyped' /\ FlightTyped' /\ DeviceTyped'
      BY <1>e, <2>1 DEF RunsTyped, ServerTyped, FlightTyped, DeviceTyped
  <2> QED
      BY <2>1, <2>2, <2>3 DEF MetaTyped
<1>3. CASE Extend
  <2>1. /\ UNCHANGED <<config, serverVars, device, stored, meta, scopeVars, realtimeVars, rt, sessionVars, day>>
        /\ Queue(runs, "extend", last)
      BY <1>3 DEF Extend
  <2>2. last \in 0..used + 1
      BY DEF ScopeTyped, RunsTyped
  <2>3. RunsTyped' /\ last' \in 0..used'
      BY <2>1, <2>2, QueuedRuns DEF ScopeTyped
  <2> QED
      BY <2>1, <2>3 DEF ServerTyped, FlightTyped, ScopeTyped, MetaTyped, DeviceTyped
<1>4. CASE Start
  <2>1. /\ UNCHANGED <<config, serverVars, device, stored, rt, flushing, faults, day>>
        /\ opening' \in {"evicting", "over"}
        /\ \/ evicting' = {d \in Docs : device[d] # 0}
           \/ evicting' = {}
        /\ \/ Acquires(Persisted)
           \/ UNCHANGED <<meta, scopeVars, realtimeVars, runVars>>
      BY <1>4 DEF Start
  <2>2. evicting' \subseteq Docs
      BY <2>1
  <2>3. CASE Acquires(Persisted)
    <3>1. flushing' \in BOOLEAN /\ opening' \in {"no", "evicting", "over"}
        BY <2>1 DEF ScopeTyped
    <3>2. RunsTyped' /\ ScopeTyped' /\ FlightTyped' /\ MetaTyped'
        BY <2>1, <2>2, <2>3, <3>1, AcquiresTyped
    <3> QED
        BY <2>1, <3>2 DEF ServerTyped, DeviceTyped
  <2>4. CASE UNCHANGED <<meta, scopeVars, realtimeVars, runVars>>
      BY <2>1, <2>2, <2>4 DEF RunsTyped, ServerTyped, FlightTyped, ScopeTyped, MetaTyped, DeviceTyped
  <2> QED
      BY <2>1, <2>3, <2>4
<1>5. CASE Evicted
  <2>1. /\ UNCHANGED <<config, serverVars, device, meta, scopeVars, runVars, realtimeVars, rt, evicting, flushing, faults, day>>
        /\ opening' = "over" /\ stored' = {}
      BY <1>5 DEF Evicted
  <2> QED
      BY <2>1 DEF RunsTyped, ServerTyped, FlightTyped, ScopeTyped, MetaTyped, DeviceTyped
<1>6. CASE FlushStorage
  <2>1. /\ UNCHANGED <<config, serverVars, meta, scopeVars, used, last, realtimeVars, rt, opening, evicting, day>>
        /\ flushing' = TRUE /\ faults' \in 0..MaxFaults /\ stored' = {}
        /\ device' = [d \in Docs |-> 0] /\ runs' = Flag(runs, "disturbed")
      BY <1>6, SizesAssumption DEF FlushStorage, ScopeTyped
  <2>2. RunsTyped'
      BY <2>1, DisturbedRuns
  <2> QED
      BY <1>e, <2>1, <2>2 DEF ServerTyped, FlightTyped, ScopeTyped, MetaTyped, DeviceTyped
<1>7. CASE Cleared
  <2>1. /\ UNCHANGED <<config, serverVars, device, stored, scopeVars, realtimeVars, rt, opening, evicting, faults, day>>
        /\ flushing' = FALSE /\ meta' = EmptyMeta
        /\ UNCHANGED runVars \/ Queue(runs, "catchup", used + 1)
      BY <1>7 DEF Cleared
  <2>2. used + 1 \in 0..used + 1 /\ last \in 0..used
      BY DEF RunsTyped, ScopeTyped
  <2>3. RunsTyped' /\ last' \in 0..used'
    <3>1. CASE UNCHANGED runVars
        BY <2>2, <3>1 DEF RunsTyped
    <3>2. CASE Queue(runs, "catchup", used + 1)
        BY <2>2, <3>2, QueuedRuns
    <3> QED
        BY <2>1, <3>1, <3>2
  <2>4. meta' \in MetaRecord
      BY <2>1, EmptyMetaTyped
  <2>5. ScopeTyped'
      BY <2>1, <2>3 DEF ScopeTyped
  <2>6. ServerTyped' /\ FlightTyped' /\ DeviceTyped'
      BY <2>1 DEF ServerTyped, FlightTyped, DeviceTyped
  <2> QED
      BY <2>1, <2>3, <2>4, <2>5, <2>6 DEF MetaTyped
<1>8. CASE Restart
  <2>1. /\ UNCHANGED <<config, serverVars, device, stored, day>>
        /\ faults' \in 0..MaxFaults /\ meta' = EmptyMeta
        /\ scope' = "none" /\ held' = {} /\ active' = FALSE /\ timer' = FALSE
        /\ runs' = [r \in Runs |-> NoRun] /\ used' = used /\ last' = 0
        /\ sub' = "off" /\ answer' = {} /\ wire' = <<>> /\ first' = FALSE /\ live' = FALSE
        /\ rt' = Nothing /\ opening' = "no" /\ evicting' = {} /\ flushing' = FALSE
      BY <1>8, SizesAssumption DEF Restart, ScopeTyped
  <2>2. RunsTyped' /\ last' \in 0..used'
    <3>1. runs' \in [Runs -> RunRecord] /\ \A q \in Runs : runs'[q] = NoRun /\ 0 \in 0..q
        BY <2>1, NoRunTyped DEF Runs
    <3> QED
        BY <2>1, <3>1, NoRunTyped DEF RunsTyped
  <2>3. meta' \in MetaRecord
      BY <2>1, EmptyMetaTyped
  <2>4. ScopeTyped' /\ FlightTyped'
      BY <1>e, <2>1, <2>2 DEF ScopeTyped, FlightTyped
  <2> QED
      BY <2>1, <2>2, <2>3, <2>4 DEF ServerTyped, MetaTyped, DeviceTyped
<1>9. CASE DayPasses
  <2>1. /\ UNCHANGED <<config, serverVars, device, stored, meta, scopeVars, runVars, realtimeVars, rt, sessionVars>>
        /\ day' \in 0..MaxDays
      BY <1>9, SizesAssumption DEF DayPasses, ScopeTyped
  <2> QED
      BY <2>1 DEF RunsTyped, ServerTyped, FlightTyped, ScopeTyped, MetaTyped, DeviceTyped
<1>10. CASE Redeploy
  <2>1. /\ UNCHANGED <<config, server, spent, device, stored, meta, scopeVars, runVars, realtimeVars, rt, opening,
                       evicting, flushing, day>>
        /\ serves' = FALSE /\ faults' \in 0..MaxFaults
      BY <1>10, SizesAssumption DEF Redeploy, ScopeTyped
  <2>2. ScopeTyped'
      BY <2>1 DEF ScopeTyped
  <2>3. RunsTyped' /\ ServerTyped' /\ FlightTyped' /\ DeviceTyped'
      BY <2>1 DEF RunsTyped, ServerTyped, FlightTyped, DeviceTyped
  <2> QED
      BY <2>1, <2>2, <2>3 DEF MetaTyped
<1>11. ASSUME NEW h \in Holders, Acquire(h) PROVE SyncTyped'
  <2>1. Acquires(h) /\ UNCHANGED <<config, serverVars, device, stored, rt, sessionVars, day>>
      BY <1>11 DEF Acquire
  <2>2. opening' \in {"no", "evicting", "over"} /\ evicting' \subseteq Docs /\ flushing' \in BOOLEAN
      BY <2>1 DEF ScopeTyped
  <2>3. RunsTyped' /\ ScopeTyped' /\ FlightTyped' /\ MetaTyped'
      BY <2>1, <2>2, AcquiresTyped
  <2> QED
      BY <2>1, <2>3 DEF ServerTyped, DeviceTyped
<1>12. ASSUME NEW h \in Holders, Release(h) PROVE SyncTyped'
  <2>1. /\ UNCHANGED <<config, serverVars, device, stored, meta, scope, active, runVars, realtimeVars, rt, sessionVars, day>>
        /\ held' \subseteq held /\ timer' \in BOOLEAN
      BY <1>12 DEF Release
  <2> QED
      BY <2>1 DEF RunsTyped, ServerTyped, FlightTyped, ScopeTyped, MetaTyped, DeviceTyped
<1>13. ASSUME NEW d \in Docs, Evict(d) PROVE SyncTyped'
  <2>1. /\ UNCHANGED <<config, serverVars, stored, meta, scopeVars, used, last, realtimeVars, rt, opening, flushing,
                       faults, day>>
        /\ evicting' \subseteq evicting /\ device' = [device EXCEPT ![d] = 0]
        /\ runs' = Flag(runs, "disturbed")
      BY <1>13 DEF Evict
  <2>2. RunsTyped'
      BY <2>1, DisturbedRuns
  <2> QED
      BY <1>e, <2>1, <2>2 DEF ServerTyped, FlightTyped, ScopeTyped, MetaTyped, DeviceTyped
<1> QED
    BY <1>1, <1>2, <1>3, <1>4, <1>5, <1>6, <1>7, <1>8, <1>9, <1>10, <1>11, <1>12, <1>13

\* withVersion: a version is given to one write.
VersionsOnce ==
    /\ \A d \in Docs : server[d].version \in spent \cup {0}
    /\ \A d, e \in Docs : server[d].version = server[e].version /\ server[d].version # 0 => d = e

TypedIInv == SyncTyped /\ VersionsOnce /\ SlotsIInv

LEMMA StepVersionsOnce ==
    ASSUME SyncTyped, VersionsOnce, [SyncNext]_syncVars
    PROVE  VersionsOnce'
<1>1. ASSUME NEW d \in Docs, NEW version \in 1..MaxVersion, NEW gone \in BOOLEAN, Write(d, version, gone)
      PROVE  VersionsOnce'
  <2>1. /\ version \notin spent /\ spent' = spent \cup {version}
        /\ server' = [server EXCEPT ![d] = [version |-> version, live |-> ~gone]]
      BY <1>1 DEF Write
  <2>2. server'[d].version = version /\ \A e \in Docs \ {d} : server'[e] = server[e]
      BY <2>1 DEF SyncTyped, ServerTyped
  <2>3. \A e \in Docs \ {d} : server'[e].version # version
      BY <2>1, <2>2, SizesAssumption DEF VersionsOnce
  <2> QED
      BY <2>1, <2>2, <2>3 DEF VersionsOnce
<1>2. CASE UNCHANGED <<server, spent>>
    BY <1>2 DEF VersionsOnce
<1>3. (\E d \in Docs, version \in 1..MaxVersion, gone \in BOOLEAN : Write(d, version, gone))
      \/ UNCHANGED <<server, spent>>
  <2>1. ASSUME NEW r \in Runs, Step(r) PROVE UNCHANGED <<server, spent>>
      BY <2>1, StepScopeTyped DEF SyncTyped
  <2> QED
      BY <2>1 DEF SyncNext, Redeploy, Answered, RtTake, RtStore, Drop, Reconnected, Acquire, Release, Restored,
                  KeepEnds, Extend, Start, Evict, Evicted, FlushStorage, Cleared, Restart, DayPasses
<1> QED
    BY <1>1, <1>2, <1>3

LEMMA StepTypedIInv == TypedIInv /\ [SyncNext]_syncVars => TypedIInv'
<1> SUFFICES ASSUME TypedIInv, [SyncNext]_syncVars
             PROVE  TypedIInv'
    OBVIOUS
<1>1. SlotsIInv' /\ VersionsOnce'
    BY StepSlots, StepVersionsOnce DEF TypedIInv
<1>2. SyncTyped
    BY DEF TypedIInv
<1>3. ASSUME NEW r \in Runs, Step(r) PROVE SyncTyped'
    BY <1>3, StepTypedAll DEF TypedIInv, VersionsOnce
<1>4. ASSUME NEW d \in Docs, NEW version \in 1..MaxVersion, NEW gone \in BOOLEAN, Write(d, version, gone)
      PROVE  SyncTyped'
    BY <1>2, <1>4, WriteTyped
<1>5. ASSUME Answered \/ RtTake \/ RtStore \/ Drop \/ Reconnected
      PROVE  SyncTyped'
    BY <1>2, <1>5, RealtimeTyped
<1>6. ASSUME \/ Restored \/ KeepEnds \/ Extend \/ Start \/ Evicted \/ FlushStorage \/ Cleared \/ Restart
             \/ DayPasses \/ Redeploy
             \/ \E h \in Holders : Acquire(h) \/ Release(h)
             \/ \E d \in Docs : Evict(d)
      PROVE  SyncTyped'
    BY <1>2, <1>6, SessionTyped
<1>7. ASSUME UNCHANGED syncVars
      PROVE  SyncTyped'
  <2>1. RunsTyped' /\ ServerTyped' /\ FlightTyped'
      BY <1>2, <1>7 DEF SyncTyped, RunsTyped, ServerTyped, FlightTyped
  <2>2. ScopeTyped' /\ MetaTyped' /\ DeviceTyped'
      BY <1>2, <1>7 DEF SyncTyped, ScopeTyped, MetaTyped, DeviceTyped
  <2> QED
      BY <2>1, <2>2 DEF SyncTyped
<1>8. SyncTyped'
    BY <1>3, <1>4, <1>5, <1>6, <1>7 DEF SyncNext
<1> QED
    BY <1>1, <1>8 DEF TypedIInv

LEMMA InitTypedIInv == SyncInit => TypedIInv
<1> SUFFICES ASSUME SyncInit PROVE TypedIInv
    OBVIOUS
<1>1. SlotsIInv
    BY InitSlots
<1>2. ScopeTyped
  <2>1. config \in [full : BOOLEAN, always : BOOLEAN]
      BY ModesAssumption DEF SyncInit
  <2>2. last \in 0..used /\ faults \in 0..MaxFaults /\ day \in 0..MaxDays
      BY SizesAssumption DEF SyncInit
  <2> QED
      BY <2>1, <2>2 DEF SyncInit, ScopeTyped
<1>3. RunsTyped
  <2>1. runs = [q \in Runs |-> NoRun] /\ used = 0 /\ \A q \in Runs : 0 \in 0..q
      BY DEF SyncInit, Runs
  <2> QED
      BY <2>1, NoRunTyped, SizesAssumption DEF RunsTyped
<1>4. ServerTyped /\ VersionsOnce
  <2>1. /\ server = [d \in Docs |-> IF d \in There THEN [version |-> d, live |-> TRUE]
                                   ELSE [version |-> 0, live |-> FALSE]]
        /\ spent = There /\ serves = TRUE
      BY DEF SyncInit
  <2>2. There \subseteq 1..MaxVersion /\ 1..MaxVersion \subseteq 0..MaxVersion /\ 0 \in 0..MaxVersion
      BY ThereAssumption, SizesAssumption
  <2>3. ASSUME NEW d \in Docs
        PROVE  /\ server[d] \in [version : 0..MaxVersion, live : BOOLEAN]
               /\ server[d].version = IF d \in There THEN d ELSE 0
      BY <2>1, <2>2
  <2>4. ServerTyped
      BY <2>1, <2>2, <2>3 DEF ServerTyped
  <2>5. VersionsOnce
      BY <2>1, <2>3 DEF VersionsOnce
  <2> QED
      BY <2>4, <2>5
<1>5. FlightTyped
  <2>1. <<>> \in Seq(ChangeRecord)
      OBVIOUS
  <2> QED
      BY <2>1 DEF SyncInit, FlightTyped
<1>6. MetaTyped
  <2>1. meta = EmptyMeta /\ stored = {}
      BY DEF SyncInit
  <2> QED
      BY <1>2, <2>1, EmptyMetaTyped DEF MetaTyped
<1>7. DeviceTyped
    BY SizesAssumption DEF SyncInit, DeviceTyped
<1> QED
    BY <1>1, <1>2, <1>3, <1>4, <1>5, <1>6, <1>7 DEF TypedIInv, SyncTyped

\* Every value is one of its type, the slots are within their bounds, and runs are used in turn, for any
\* documents, holders, runs, slots and faults.
THEOREM SyncTypes == SyncSpec => []SyncTypeOK
<1>1. TypedIInv => SyncTypeOK
  <2> SUFFICES ASSUME TypedIInv PROVE SyncTypeOK
      OBVIOUS
  <2>1. reads \in 0..Slots /\ waiting \in Seq(Runs)
      BY SizesAssumption DEF TypedIInv, SlotsIInv, SlotsKept, RunsShaped
  <2>2. \A r \in Runs : /\ runs[r].phase \in Ended \cup Begun \cup {"chained"} /\ runs[r].kind \in Kinds
                        /\ runs[r].after \in 0..r /\ (r > used => runs[r] = NoRun)
      BY DEF TypedIInv, SyncTyped, RunsTyped, RunRecord
  <2>3. stored = {} \/ \E m \in stored : stored = {m} /\ DOMAIN m = DOMAIN meta
    <3>1. \A m \in MetaRecord : DOMAIN m = DOMAIN meta
        BY DEF TypedIInv, SyncTyped, MetaTyped, MetaRecord
    <3> QED
        BY <3>1 DEF TypedIInv, SyncTyped, MetaTyped
  <2>4. used \in 0..MaxRuns
      BY DEF TypedIInv, SyncTyped, RunsTyped
  <2> QED
      BY <2>1, <2>2, <2>3, <2>4
         DEF SyncTypeOK, TypedIInv, SyncTyped, ServerTyped, ScopeTyped, MetaTyped, MetaRecord, DeviceTyped, Kinds
<1> QED
    BY <1>1, InitTypedIInv, StepTypedIInv, PTL DEF SyncSpec

-----------------------------------------------------------------------------
(* What a catch-up has done so far *)

\* What is on its way to the device.
TheChanges == {rt} \cup answer \cup Range(wire) \cup UNION {Range(runs[r].page) : r \in Runs}

\* A catch-up under which the device was not emptied, and beside which no other runs.
AtWork(run) == run.phase \in Begun /\ run.kind # "extend" /\ ~run.disturbed

\* The device holds what the server has.
Got(d) == device[d] = IF server[d].live THEN server[d].version ELSE 0

\* A change is not behind the server.
Current(c) ==
    IF server[c.doc].live THEN c.how = "added" /\ c.version = server[c.doc].version
    ELSE c.how = "removed" \/ (c.how = "tombstone" /\ c.version = server[c.doc].version)

Brings(run, d) == \E c \in Range(run.page) : c.doc = d

\* A read was answered since the run last waited for one: `more` speaks of it.
HasRead(run) == run.phase \in {"answered", "ingesting", "ingested"}

Reached(run, key) == key <= run.cursor \/ (HasRead(run) /\ ~run.more)

\* The run has read a document, or found it gone.
Passed(run, d) ==
    \/ /\ run.kind = "delta" /\ (run.phase = "answered" => run.says)
       /\ server[d].version >= run.since /\ server[d].version # 0 /\ Reached(run, server[d].version)
    \/ run.kind \in {"first", "refresh"} /\ server[d].live /\ Reached(run, d)
    \/ run.kind = "prune"

\* Of the documents nobody wrote to, what the run passed is on the device, or on its way; what it saw is there.
Worked(run) ==
    \A d \in Docs \ run.dirty : /\ Passed(run, d) => Got(d) \/ Brings(run, d)
                                /\ d \in run.seen => server[d].live

\* A re-read saw what it passed.
SeenSo(run, D) ==
    run.phase \in Begun /\ run.kind = "refresh"
    => \A d \in D : server[d].live /\ Reached(run, d) => d \in run.seen \/ Brings(run, d)

\* Nothing old is on its way to these documents, and no re-read takes one that is there for gone.
Calm(D) ==
    /\ \A c \in TheChanges : c.doc \in D => Current(c)
    /\ \A o \in Runs : SeenSo(runs[o], D)

\* Versions on the device, and on their way, are not ahead of the server.
VersionsBehind ==
    /\ \A c \in TheChanges : c \in ChangeRecord => c.version <= server[c.doc].version
    /\ \A d \in Docs : device[d] <= server[d].version

WorkKept == \A r \in Runs : AtWork(runs[r]) => Calm(Docs \ runs[r].dirty) /\ Worked(runs[r])

WorkIInv == TypedIInv /\ VersionsBehind /\ WorkKept

LEMMA CalmSubset ==
    ASSUME NEW E, NEW D \in SUBSET E, Calm(E)
    PROVE  Calm(D)
BY DEF Calm, SeenSo

LEMMA FlightInfo ==
    ASSUME TypedIInv, NEW c \in TheChanges
    PROVE  c \in ChangeRecord \cup {Due, Nothing} /\ c.doc \in InFlight
<1>1. SyncTyped
    BY DEF TypedIInv
<1>2. \A x \in Range(wire) : x \in ChangeRecord
    BY <1>1 DEF SyncTyped, FlightTyped, Range
<1>3. ASSUME NEW q \in Runs, NEW x \in Range(runs[q].page) PROVE x \in ChangeRecord
  <2>1. runs[q].page \in Seq(ChangeRecord)
      BY <1>1 DEF SyncTyped, RunsTyped, RunRecord
  <2> QED
      BY <2>1 DEF Range
<1>4. c \in ChangeRecord \cup {Due, Nothing}
    BY <1>1, <1>2, <1>3 DEF TheChanges, SyncTyped, FlightTyped
<1>5. c.doc \in InFlight
    BY DEF InFlight, TheChanges
<1> QED
    BY <1>4, <1>5

\* What the page of a run that goes on brings was on its way before.
LEMMA PageGoes ==
    ASSUME TypedIInv', NEW q \in Runs, Goes(q)
    PROVE  Range(runs'[q].page) \subseteq Range(runs[q].page)
<1>1. CASE Kept(runs[q], runs'[q])
    BY <1>1 DEF Kept
<1>2. CASE runs'[q].phase \notin Begun
  <2>1. Sound(runs'[q])
      BY DEF TypedIInv, SyncTyped, RunsTyped
  <2>2. runs'[q].page = <<>>
      BY <1>2, <2>1 DEF Sound, Begun
  <2> QED
      BY <2>2 DEF Range
<1> QED
    BY <1>1, <1>2 DEF Goes

\* Storing a change that is not behind the server brings the device up to it.
LEMMA StoresCurrent ==
    ASSUME TypedIInv, VersionsBehind, NEW c \in ChangeRecord, Stores(c)
    PROVE  /\ \A d \in Docs \ {c.doc} : device'[d] = device[d]
           /\ device'[c.doc] \in {device[c.doc], 0, c.version}
           /\ Current(c) => /\ ~Ignored(c)
                            /\ device'[c.doc] = IF server[c.doc].live THEN server[c.doc].version ELSE 0
<1>1. /\ c.doc \in Docs /\ c.version \in Nat /\ server[c.doc].version \in Nat /\ device[c.doc] \in Nat
      /\ DOMAIN device = Docs
  <2>1. c.doc \in Docs /\ c.version \in 0..MaxVersion
      BY DEF ChangeRecord
  <2> QED
      BY <2>1 DEF TypedIInv, SyncTyped, ServerTyped, DeviceTyped
<1>2. device[c.doc] <= server[c.doc].version
    BY <1>1 DEF VersionsBehind
<1> DEFINE v == IF Ignored(c) \/ (c.how = "modified" /\ device[c.doc] = 0) THEN device[c.doc]
                ELSE IF c.how \in {"removed", "tombstone"} THEN 0 ELSE c.version
<1>3. device' = [device EXCEPT ![c.doc] = v]
    BY DEF Stores
<1>4. device'[c.doc] = v /\ \A d \in Docs \ {c.doc} : device'[d] = device[d]
    BY <1>1, <1>3
<1>5. Current(c) => ~Ignored(c) /\ v = IF server[c.doc].live THEN server[c.doc].version ELSE 0
    BY <1>1, <1>2 DEF Current, Ignored
<1> QED
    BY <1>4, <1>5

-----------------------------------------------------------------------------
(* What a step keeps *)

LEMMA StaysBehind ==
    ASSUME TypedIInv, TypedIInv', VersionsBehind,
           \A d \in Docs : server[d].version <= server'[d].version,
           \A c \in TheChanges' \ TheChanges : c \in ChangeRecord => c.version <= server'[c.doc].version,
           \A d \in Docs : \/ device'[d] \in {device[d], 0}
                           \/ \E c \in TheChanges : c \in ChangeRecord /\ c.doc = d /\ device'[d] = c.version
    PROVE  VersionsBehind'
<1>1. ASSUME NEW d \in Docs
      PROVE  server[d].version \in Nat /\ server'[d].version \in Nat /\ device[d] \in Nat
    BY DEF TypedIInv, SyncTyped, ServerTyped, DeviceTyped
<1>2. ASSUME NEW c \in TheChanges, c \in ChangeRecord
      PROVE  c.version \in Nat /\ c.doc \in Docs /\ c.version <= server'[c.doc].version
  <2>1. c.version \in Nat /\ c.doc \in Docs
      BY <1>2 DEF ChangeRecord
  <2> QED
      BY <2>1, <1>1, <1>2 DEF VersionsBehind
<1>3. ASSUME NEW d \in Docs PROVE device'[d] <= server'[d].version
    BY <1>1, <1>2 DEF VersionsBehind
<1> QED
    BY <1>2, <1>3 DEF VersionsBehind

\* A step is fine for documents when it keeps them calm, and what the device has of them.
Fine(D) ==
    Calm(D) => Calm(D)' /\ \A d \in D : server'[d] = server[d] /\ (Got(d) => Got(d)')

LEMMA KeptSeen ==
    ASSUME NEW q \in Runs, Goes(q), NEW D, \A d \in D : server'[d] = server[d], SeenSo(runs[q], D)
    PROVE  SeenSo(runs[q], D)'
<1>1. CASE Kept(runs[q], runs'[q])
    BY <1>1 DEF Kept, SeenSo, Begun, Reached, HasRead, Brings
<1>2. CASE runs'[q].phase \notin Begun
    BY <1>2 DEF SeenSo
<1> QED
    BY <1>1, <1>2 DEF Goes

\* Documents stay calm if what is new on its way to them is not behind the server, and the run that moved
\* still saw what it passed.
LEMMA CalmKept ==
    ASSUME TypedIInv, TypedIInv', NEW D \in SUBSET Docs, Calm(D), \A d \in D : server'[d] = server[d],
           \A c \in TheChanges' \ TheChanges : c.doc \in D => Current(c)',
           NEW r, \A q \in Runs \ {r} : Goes(q),
           r \in Runs => SeenSo(runs[r], D)'
    PROVE  Calm(D)'
<1>1. ASSUME NEW c \in TheChanges', c.doc \in D PROVE Current(c)'
  <2>1. CASE c \in TheChanges
    <3>1. Current(c) /\ server'[c.doc] = server[c.doc]
        BY <1>1, <2>1 DEF Calm
    <3> QED
        BY <3>1 DEF Current
  <2>2. CASE c \notin TheChanges
      BY <1>1, <2>2
  <2> QED
      BY <2>1, <2>2
<1>2. ASSUME NEW o \in Runs PROVE SeenSo(runs[o], D)'
  <2>1. CASE o # r
    <3>1. SeenSo(runs[o], D) /\ Goes(o)
        BY <2>1 DEF Calm
    <3> QED
        BY <3>1, KeptSeen
  <2> QED
      BY <2>1
<1> QED
    BY <1>1, <1>2 DEF Calm

LEMMA KeptWorked ==
    ASSUME NEW q \in Runs, Kept(runs[q], runs'[q]), Worked(runs[q]),
           \A d \in Docs \ runs'[q].dirty : server'[d] = server[d] /\ (Got(d) => Got(d)')
    PROVE  Worked(runs[q])'
<1> SUFFICES ASSUME NEW d \in Docs \ runs'[q].dirty
             PROVE  /\ Passed(runs[q], d)' => Got(d)' \/ Brings(runs[q], d)'
                    /\ d \in runs'[q].seen => server'[d].live
    BY DEF Worked
<1>1. d \notin runs[q].dirty /\ server'[d] = server[d] /\ (Got(d) => Got(d)')
    BY DEF Kept
<1>2. Passed(runs[q], d)' => Passed(runs[q], d)
    BY <1>1 DEF Kept, Passed, Reached, HasRead
<1>3. (Brings(runs[q], d) <=> Brings(runs[q], d)') /\ runs'[q].seen = runs[q].seen
    BY DEF Kept, Brings
<1> QED
    BY <1>1, <1>2, <1>3 DEF Worked

\* A step that is fine for what the runs have to do lets all go on but the one that moved.
LEMMA WorkGoes ==
    ASSUME WorkIInv, TypedIInv', NEW r, \A q \in Runs \ {r} : Goes(q),
           \A D \in SUBSET Docs :
              (\E q \in Runs : AtWork(runs'[q]) /\ D \cap runs'[q].dirty = {}) => Fine(D),
           r \in Runs /\ AtWork(runs'[r]) => Calm(Docs \ runs[r].dirty)' /\ Worked(runs[r])'
    PROVE  WorkKept'
<1> SUFFICES ASSUME NEW q \in Runs, AtWork(runs'[q])
             PROVE  Calm(Docs \ runs[q].dirty)' /\ Worked(runs[q])'
    BY DEF WorkKept
<1>1. CASE q = r
    BY <1>1
<1>2. CASE q # r
  <2>1. Kept(runs[q], runs'[q])
      BY <1>2 DEF Goes, AtWork
  <2>2. AtWork(runs[q])
      BY <2>1 DEF Kept, AtWork, Begun
  <2>3. Calm(Docs \ runs[q].dirty) /\ Worked(runs[q])
      BY <2>2 DEF WorkIInv, WorkKept
  <2>4. PICK D \in SUBSET Docs : D = Docs \ runs'[q].dirty
      OBVIOUS
  <2>5. PICK E : E = Docs \ runs[q].dirty
      OBVIOUS
  <2>6. Calm(D)
    <3>1. D \in SUBSET E /\ Calm(E)
        BY <2>1, <2>3, <2>4, <2>5 DEF Kept
    <3> QED
        BY <3>1, CalmSubset
  <2>7. Fine(D)
      BY <2>4
  <2>8. Calm(D)' /\ \A d \in D : server'[d] = server[d] /\ (Got(d) => Got(d)')
      BY <2>6, <2>7 DEF Fine
  <2>9. Calm(Docs \ runs[q].dirty)'
      BY <2>4, <2>8
  <2>10. Worked(runs[q])'
      BY <2>1, <2>3, <2>4, <2>8, KeptWorked
  <2> QED
      BY <2>9, <2>10
<1> QED
    BY <1>1, <1>2

-----------------------------------------------------------------------------
(* The steps of a run do its work *)

LEMMA RunFlight ==
    ASSUME TypedIInv', NEW r \in Runs, \A q \in Runs \ {r} : Goes(q), UNCHANGED <<answer, wire, rt>>
    PROVE  TheChanges' \subseteq TheChanges \cup Range(runs'[r].page)
<1>1. ASSUME NEW c \in TheChanges', c \notin Range(runs'[r].page) PROVE c \in TheChanges
  <2>1. CASE c \in {rt} \cup answer \cup Range(wire)
      BY <2>1 DEF TheChanges
  <2>2. CASE \E q \in Runs : c \in Range(runs'[q].page)
    <3>1. PICK q \in Runs : c \in Range(runs'[q].page)
        BY <2>2
    <3>2. Range(runs'[q].page) \subseteq Range(runs[q].page)
        BY <1>1, <3>1, PageGoes
    <3> QED
        BY <3>1, <3>2 DEF TheChanges
  <2> QED
      BY <1>1, <2>1, <2>2 DEF TheChanges
<1> QED
    BY <1>1

\* A step of a run that leaves the server and the device alone, and brings nothing old to the documents of
\* the others.
LEMMA RunStep ==
    ASSUME WorkIInv, TypedIInv', NEW r \in Runs, Others(r), UNCHANGED <<answer, wire, rt, server, device>>,
           \A c \in Range(runs'[r].page) \ TheChanges : c.version <= server[c.doc].version,
           \A D \in SUBSET Docs : Calm(D) =>
              /\ SeenSo(runs[r], D)'
              /\ \A c \in Range(runs'[r].page) \ TheChanges : c.doc \in D => Current(c),
           AtWork(runs'[r]) => /\ Calm(Docs \ runs'[r].dirty) \/ Calm(Docs \ runs[r].dirty)'
                               /\ Worked(runs[r])'
    PROVE  WorkKept' /\ VersionsBehind'
<1>1. TypedIInv /\ SyncTyped /\ RunsTyped
    BY DEF WorkIInv, TypedIInv, SyncTyped
<1>2. \A q \in Runs \ {r} : Goes(q)
    BY <1>1, OthersGo
<1>3. TheChanges' \subseteq TheChanges \cup Range(runs'[r].page)
    BY <1>2, RunFlight
<1>4. VersionsBehind'
  <2>1. \A d \in Docs : server[d].version <= server'[d].version
      BY <1>1 DEF SyncTyped, ServerTyped
  <2> QED
      BY <1>1, <1>3, <2>1, StaysBehind DEF WorkIInv
<1>5. ASSUME NEW D \in SUBSET Docs PROVE Fine(D)
  <2>1. Calm(D) => Calm(D)'
    <3> SUFFICES ASSUME Calm(D) PROVE Calm(D)'
        OBVIOUS
    <3>1. \A c \in TheChanges' \ TheChanges : c.doc \in D => Current(c)'
      <4>1. \A c \in TheChanges' \ TheChanges : c.doc \in D => Current(c)
          BY <1>3
      <4> QED
          BY <4>1 DEF Current
    <3>2. SeenSo(runs[r], D)' /\ \A d \in D : server'[d] = server[d]
        OBVIOUS
    <3> QED
        BY <1>1, <1>2, <3>1, <3>2, CalmKept
  <2> QED
      BY <2>1 DEF Fine, Got
<1>6. ASSUME AtWork(runs'[r]) PROVE Calm(Docs \ runs[r].dirty)' /\ Worked(runs[r])'
  <2>1. PICK D \in SUBSET Docs : D = Docs \ runs'[r].dirty
      OBVIOUS
  <2>2. Calm(D) => Calm(D)'
      BY <1>5 DEF Fine
  <2>3. Calm(D) \/ Calm(D)'
      BY <1>6, <2>1
  <2> QED
      BY <1>6, <2>1, <2>2, <2>3
<1> QED
    BY <1>2, <1>4, <1>5, <1>6, WorkGoes

LEMMA BeginWorks ==
    ASSUME WorkIInv, TypedIInv', NEW r \in Runs, Begin(r)
    PROVE  WorkKept' /\ VersionsBehind'
<1>1. TypedIInv /\ RunsTyped /\ FlightTyped /\ MetaTyped /\ ServerTyped
    BY DEF WorkIInv, TypedIInv, SyncTyped
<1>2. UNCHANGED <<answer, wire, rt>>
    BY DEF Begin
<1>3. /\ runs[r].phase = "chained" /\ Others(r) /\ UNCHANGED <<used, server, spent, device>>
      /\ \/ runs'[r] = [NoRun EXCEPT !.phase = "over"]
         \/ \E phase \in {"waiting", "reading"} : runs'[r] = [Starting(r) EXCEPT !.phase = phase]
    BY <1>1, BeginDoes
<1>4. CASE runs'[r] = [NoRun EXCEPT !.phase = "over"]
  <2>1. runs'[r].phase \notin Begun /\ Range(runs'[r].page) = {}
      BY <1>4, NoRunTyped DEF Begun, Range
  <2>2. ~AtWork(runs'[r]) /\ \A D \in SUBSET Docs : SeenSo(runs[r], D)'
      BY <2>1 DEF AtWork, SeenSo
  <2> QED
      BY <1>2, <1>3, <2>1, <2>2, RunStep
<1>5. CASE \E phase \in {"waiting", "reading"} : runs'[r] = [Starting(r) EXCEPT !.phase = phase]
  <2>1. PICK phase \in {"waiting", "reading"} : runs'[r] = [Starting(r) EXCEPT !.phase = phase]
      BY <1>5
  <2>2. /\ Starting(r) \in RunRecord /\ Starting(r).kind \in {"extend", "first", "delta", "refresh"}
        /\ Starting(r).kind # "extend" => Starting(r).cursor = 0
        /\ Starting(r).page = <<>> /\ Starting(r).seen = {} /\ Starting(r).dirty = InFlight
        /\ Starting(r).disturbed = \E o \in Runs \ {r} : runs[o].phase \in Begun /\ runs[o].kind # "extend"
      BY <1>1, <1>3, StartingTyped
  <2>3. /\ runs'[r].phase = phase /\ runs'[r].kind = Starting(r).kind /\ runs'[r].cursor = Starting(r).cursor
        /\ runs'[r].page = <<>> /\ runs'[r].seen = {} /\ runs'[r].dirty = InFlight
        /\ runs'[r].disturbed = Starting(r).disturbed
      BY <2>1, <2>2 DEF RunRecord
  <2>4. Range(runs'[r].page) = {} /\ ~HasRead(runs'[r])
      BY <2>1, <2>3 DEF Range, HasRead
  <2>5. \A D \in SUBSET Docs : SeenSo(runs[r], D)'
    <3>1. ASSUME NEW d \in Docs, runs'[r].kind = "refresh" PROVE ~Reached(runs'[r], d)
      <4>1. d \in Nat \ {0} /\ runs'[r].cursor = 0
          BY <2>2, <2>3, <3>1, DocsAssumption
      <4> QED
          BY <2>4, <4>1 DEF Reached
    <3> QED
        BY <3>1 DEF SeenSo
  <2>6. ASSUME AtWork(runs'[r]) PROVE Calm(Docs \ runs'[r].dirty)
    <3>1. ASSUME NEW c \in TheChanges PROVE c.doc \notin Docs \ runs'[r].dirty
        BY <1>1, <2>3, FlightInfo
    <3>2. ASSUME NEW o \in Runs PROVE ~(runs[o].phase \in Begun /\ runs[o].kind = "refresh")
      <4>1. CASE o = r
          BY <1>3, <4>1 DEF Begun
      <4>2. CASE o # r
        <5>1. ~Starting(r).disturbed
            BY <2>3, <2>6 DEF AtWork
        <5> QED
            BY <2>2, <4>2, <5>1
      <4> QED
          BY <4>1, <4>2
    <3> QED
        BY <3>1, <3>2 DEF Calm, SeenSo
  <2>7. ASSUME AtWork(runs'[r]) PROVE Worked(runs[r])'
    <3>1. ASSUME NEW d \in Docs PROVE ~Passed(runs[r], d)'
      <4>1. runs'[r].cursor = 0 /\ runs'[r].kind # "prune" /\ d \in Nat \ {0}
          BY <2>2, <2>3, <2>7, DocsAssumption DEF AtWork
      <4>2. server'[d].version \in Nat
          BY <1>1, <1>3 DEF ServerTyped
      <4> QED
          BY <2>4, <4>1, <4>2 DEF Passed, Reached
    <3> QED
        BY <2>3, <3>1 DEF Worked
  <2> QED
      BY <1>2, <1>3, <2>4, <2>5, <2>6, <2>7, RunStep
<1> QED
    BY <1>3, <1>4, <1>5

\* A read is answered with what matches, as far as the cursor goes afterwards.
LEMMA ReadBrings ==
    ASSUME RunsTyped, ServerTyped, VersionsOnce, NEW r \in Runs, ServerReads(r)
    PROVE  LET run == runs[r]
               new == runs'[r]
           IN  /\ run.phase = "reading" /\ Others(r) /\ UNCHANGED <<used, server, spent, device>>
               /\ new.phase = "answered" /\ new.says = serves
               /\ new.kind = run.kind /\ new.since = run.since /\ new.seen = run.seen /\ new.dirty = run.dirty
               /\ new.disturbed = run.disturbed
               /\ \A c \in Range(new.page) : \E d \in Docs : Matches(run, d) /\ c = Change(d)
               /\ \A d \in Docs : Matches(run, d) /\ Reached(new, Key(run, d)) => Change(d) \in Range(new.page)
<1> DEFINE run == runs[r]
           docs == PageOf(run)
           new == runs'[r]
<1>3. /\ run.phase = "reading" /\ Others(r) /\ UNCHANGED <<used, server, spent, device>>
      /\ new.phase = "answered" /\ Range(new.page) = {Change(d) : d \in Range(docs)}
      /\ new.cursor = (IF docs = <<>> THEN run.cursor ELSE Key(run, Last(docs)))
      /\ new.more = HasNext(Len(Sorted(run)), Limit(run)) /\ new.says = serves
      /\ new.kind = run.kind /\ new.since = run.since /\ new.seen = run.seen /\ new.dirty = run.dirty
      /\ new.disturbed = run.disturbed
  <2> HIDE DEF run
  <2> QED
      BY ServerReadsDoes DEF VersionsOnce, run
<1>4. run \in RunRecord
    BY DEF RunsTyped
<1>5. run.cursor \in Nat /\ Limit(run) \in Int /\ \A d \in Docs : server[d].version \in Nat
    BY <1>4, LimitType DEF RunRecord, ServerTyped
<1> HIDE DEF run
<1>6. /\ \A d \in Range(docs) : d \in Docs /\ Matches(run, d)
      /\ docs # <<>> => Last(docs) \in Range(docs)
      /\ \A d \in Docs :
            /\ Matches(run, d)
            /\ ~HasNext(Len(Sorted(run)), Limit(run)) \/ (docs # <<>> /\ Key(run, d) <= Key(run, Last(docs)))
            => d \in Range(docs)
    BY <1>5, PageReads DEF VersionsOnce
<1> HIDE DEF docs
<1>8. ASSUME NEW d \in Docs, Matches(run, d), Reached(new, Key(run, d)) PROVE Change(d) \in Range(new.page)
  <2>1. ~HasNext(Len(Sorted(run)), Limit(run)) \/ (docs # <<>> /\ Key(run, d) <= Key(run, Last(docs)))
    <3>1. CASE ~new.more
        BY <1>3, <3>1
    <3>2. CASE Key(run, d) <= new.cursor
      <4>1. Key(run, d) > run.cursor /\ Key(run, d) \in Nat
          BY <1>5, <1>8, DocsAssumption DEF Matches, Key
      <4>2. docs # <<>>
          BY <1>3, <1>5, <3>2, <4>1
      <4> QED
          BY <1>3, <3>2, <4>2
    <3> QED
        BY <1>8, <3>1, <3>2 DEF Reached
  <2>2. d \in Range(docs)
      BY <1>6, <1>8, <2>1
  <2> QED
      BY <2>2, <1>3
<1>9. ASSUME NEW c \in Range(new.page) PROVE \E d \in Docs : Matches(run, d) /\ c = Change(d)
    BY <1>3, <1>6
<1> QED
    BY <1>3, <1>8, <1>9 DEF run

LEMMA ServerReadsWorks ==
    ASSUME WorkIInv, TypedIInv', NEW r \in Runs, ServerReads(r)
    PROVE  WorkKept' /\ VersionsBehind'
<1> DEFINE run == runs[r]
           new == runs'[r]
<1>1. TypedIInv /\ RunsTyped /\ ServerTyped /\ VersionsOnce
    BY DEF WorkIInv, TypedIInv, SyncTyped
<1>2. UNCHANGED <<answer, wire, rt>>
    BY DEF ServerReads
<1>3. /\ run.phase = "reading" /\ Others(r) /\ UNCHANGED <<used, server, spent, device>>
      /\ new.phase = "answered" /\ new.says = serves
      /\ new.kind = run.kind /\ new.since = run.since /\ new.seen = run.seen /\ new.dirty = run.dirty
      /\ new.disturbed = run.disturbed
      /\ \A c \in Range(new.page) : \E d \in Docs : Matches(run, d) /\ c = Change(d)
      /\ \A d \in Docs : Matches(run, d) /\ Reached(new, Key(run, d)) => Change(d) \in Range(new.page)
    BY <1>1, ReadBrings
<1>4. run \in RunRecord /\ Sound(run)
    BY <1>1 DEF RunsTyped
<1>5. run.cursor \in Nat /\ \A d \in Docs : server[d].version \in Nat
    BY <1>1, <1>4 DEF RunRecord, ServerTyped
<1> HIDE DEF run
<1>7. \A d \in Docs : /\ Change(d).doc = d /\ Change(d).version = server[d].version
                      /\ Matches(run, d) => Current(Change(d))
    BY DEF Change, Current
<1>8. ASSUME NEW d \in Docs, Matches(run, d), Reached(new, Key(run, d)) PROVE Brings(new, d)
    BY <1>3, <1>7, <1>8 DEF Brings
<1>9. run.page = <<>> /\ Range(run.page) = {} /\ run.kind \in Kinds
    BY <1>3, <1>4 DEF Sound, Range, RunRecord
\* What it had not passed before is in the page.
<1>10. ASSUME NEW d \in Docs, server[d].live, new.kind = "refresh", Reached(new, d)
       PROVE  Reached(run, d) \/ Brings(new, d)
  <2>1. d \in Nat /\ Key(run, d) = d /\ Visible(d, FALSE)
      BY <1>3, <1>10, DocsAssumption DEF Key, Visible
  <2>2. CASE d > run.cursor
    <3>1. Matches(run, d)
        BY <1>3, <1>10, <2>1, <2>2 DEF Matches, Visible
    <3> QED
        BY <1>8, <1>10, <2>1, <3>1
  <2>3. CASE ~(d > run.cursor)
      BY <1>5, <2>1, <2>3 DEF Reached
  <2> QED
      BY <2>2, <2>3
<1>11. ASSUME NEW D \in SUBSET Docs, Calm(D)
       PROVE  SeenSo(runs[r], D)'
  <2> SUFFICES ASSUME new.kind = "refresh", NEW d \in D, server[d].live, Reached(new, d)
               PROVE  d \in new.seen \/ Brings(new, d)
      BY <1>3 DEF SeenSo
  <2>1. SeenSo(run, D)
      BY <1>11 DEF Calm, run
  <2>2. Reached(run, d) => d \in run.seen
      BY <1>3, <1>9, <2>1 DEF SeenSo, Begun, Brings
  <2> QED
      BY <1>3, <1>10, <2>2
<1>12. ASSUME AtWork(new)
       PROVE  Worked(runs[r])' /\ Calm(Docs \ new.dirty)
  <2>1. AtWork(run)
      BY <1>3, <1>12 DEF AtWork, Begun
  <2>2. Worked(run) /\ Calm(Docs \ run.dirty)
      BY <2>1 DEF WorkIInv, WorkKept, run
  <2>3. ASSUME NEW d \in Docs \ run.dirty, Passed(runs[r], d)'
        PROVE  Got(d) \/ Brings(new, d)
    <3>1. Passed(run, d) => Got(d)
        BY <1>9, <2>2 DEF Worked, Brings
    <3>2. CASE new.kind = "delta"
      <4>1. /\ serves /\ server[d].version >= run.since /\ server[d].version # 0
            /\ Reached(new, server[d].version)
          BY <1>3, <2>3, <3>2 DEF Passed
      <4>2. Key(run, d) = server[d].version /\ server[d].version \in Nat
          BY <1>3, <1>5, <3>2 DEF Key
      <4>3. CASE server[d].version > run.cursor
        <5>1. Matches(run, d)
            BY <1>3, <3>2, <4>1, <4>2, <4>3 DEF Matches, Visible
        <5> QED
            BY <1>8, <4>1, <4>2, <5>1
      <4>4. CASE ~(server[d].version > run.cursor)
        <5>1. Passed(run, d)
            BY <1>3, <1>5, <3>2, <4>1, <4>2, <4>4 DEF Passed, Reached
        <5> QED
            BY <3>1, <5>1
      <4> QED
          BY <4>3, <4>4
    <3>3. CASE new.kind \in {"first", "refresh"}
      <4>1. server[d].live /\ Reached(new, d) /\ Key(run, d) = d /\ d \in Nat
          BY <1>3, <2>3, <3>3, DocsAssumption DEF Passed, Key
      <4>2. CASE d > run.cursor
        <5>1. Matches(run, d)
            BY <1>3, <3>3, <4>1, <4>2 DEF Matches, Visible
        <5> QED
            BY <1>8, <4>1, <5>1
      <4>3. CASE ~(d > run.cursor)
        <5>1. Passed(run, d)
            BY <1>3, <1>5, <3>3, <4>1, <4>3 DEF Passed, Reached
        <5> QED
            BY <3>1, <5>1
      <4> QED
          BY <4>2, <4>3
    <3>4. CASE new.kind = "prune"
      <4>1. Passed(run, d)
          BY <1>3, <3>4 DEF Passed
      <4> QED
          BY <3>1, <4>1
    <3> QED
        BY <2>3, <3>2, <3>3, <3>4 DEF Passed
  <2>4. \A d \in Docs \ run.dirty : d \in run.seen => server[d].live
      BY <2>2 DEF Worked
  <2> QED
      BY <1>3, <2>2, <2>3, <2>4 DEF Worked, Got
<1> QED
  <2>1. /\ \A c \in Range(new.page) : c.version <= server[c.doc].version /\ Current(c)
    <3>1. ASSUME NEW d \in Docs PROVE Change(d).version <= server[Change(d).doc].version
        BY <1>5, <1>7
    <3> QED
        BY <1>3, <1>7, <3>1
  <2> QED
      BY <1>2, <1>3, <1>11, <1>12, <2>1, RunStep

LEMMA OverWorks ==
    ASSUME WorkIInv, TypedIInv', NEW r \in Runs, ReadFails(r) \/ Finish(r)
    PROVE  WorkKept' /\ VersionsBehind'
<1>1. TypedIInv /\ RunsTyped /\ SlotsIInv
    BY DEF WorkIInv, TypedIInv, SyncTyped
<1>2. UNCHANGED <<answer, wire, rt>>
    BY DEF ReadFails, Finish
<1>3. Others(r) /\ UNCHANGED <<server, device>> /\ runs'[r] = [NoRun EXCEPT !.phase = "over"]
    BY <1>1, ReadFailsDoes, FinishDoes
<1>4. runs'[r].phase \notin Begun /\ Range(runs'[r].page) = {}
    BY <1>3, NoRunTyped DEF Begun, Range
<1>5. ~AtWork(runs'[r]) /\ \A D \in SUBSET Docs : SeenSo(runs[r], D)'
    BY <1>4 DEF AtWork, SeenSo
<1> QED
    BY <1>2, <1>3, <1>4, <1>5, RunStep

LEMMA ArrivesWorks ==
    ASSUME WorkIInv, TypedIInv', NEW r \in Runs, Arrives(r)
    PROVE  WorkKept' /\ VersionsBehind'
<1> DEFINE run == runs[r]
           new == runs'[r]
<1>1. TypedIInv /\ RunsTyped /\ ServerTyped /\ SlotsIInv
    BY DEF WorkIInv, TypedIInv, SyncTyped
<1>2. UNCHANGED <<answer, wire, rt>>
    BY DEF Arrives
<1>3. /\ run.phase = "answered" /\ Others(r) /\ UNCHANGED <<used, server, spent, device>>
      /\ new.dirty = run.dirty /\ new.disturbed = run.disturbed /\ new.seen = run.seen
      /\ \/ /\ run.kind = "delta" /\ ~run.says
            /\ new.phase = "ingested" /\ new.kind = "refresh" /\ new.page = <<>> /\ new.cursor = 0
            /\ new.more = TRUE
         \/ /\ ~(run.kind = "delta" /\ ~run.says)
            /\ new.phase \in {"ingested", "ingesting"}
            /\ new.kind = run.kind /\ new.since = run.since /\ new.page = run.page
            /\ new.cursor = run.cursor /\ new.more = run.more
    BY <1>1, ArrivesDoes
<1> HIDE DEF run
<1>4. Range(new.page) \subseteq Range(run.page) /\ Range(run.page) \subseteq TheChanges
  <2>1. Range(<<>>) = {}
      BY DEF Range
  <2> QED
      BY <1>3, <2>1 DEF TheChanges, run
<1>5. new.kind = "refresh" \/ AtWork(new)
      => \/ new.kind = run.kind /\ new.since = run.since /\ new.page = run.page /\ new.cursor = run.cursor
            /\ (new.more <=> run.more) /\ ~(run.kind = "delta" /\ ~run.says)
         \/ new.kind = "refresh" /\ \A d \in Docs : ~Reached(new, d)
  <2>1. \A d \in Docs : d \in Nat \ {0}
      BY DocsAssumption
  <2> QED
      BY <1>3, <2>1 DEF Reached
<1>6. HasRead(new) /\ HasRead(run) /\ run.phase \in Begun /\ new.phase # "answered"
    BY <1>3 DEF HasRead, Begun
<1>7. ASSUME NEW D \in SUBSET Docs, Calm(D) PROVE SeenSo(runs[r], D)'
  <2>1. SeenSo(run, D)
      BY <1>7 DEF Calm, run
  <2> QED
      BY <1>3, <1>5, <1>6, <2>1 DEF SeenSo, Reached, Brings
<1>8. ASSUME AtWork(new) PROVE Worked(runs[r])' /\ Calm(Docs \ new.dirty)
  <2>1. AtWork(run)
      BY <1>3, <1>8 DEF AtWork, Begun
  <2>2. Worked(run) /\ Calm(Docs \ run.dirty)
      BY <2>1 DEF WorkIInv, WorkKept, run
  <2>3. ASSUME NEW d \in Docs \ run.dirty, Passed(runs[r], d)' PROVE Got(d) \/ Brings(new, d)
    <3>1. Passed(run, d) /\ new.page = run.page
        BY <1>3, <1>5, <1>6, <1>8, <2>3 DEF Passed, Reached
    <3> QED
        BY <2>2, <3>1 DEF Worked, Brings
  <2> QED
      BY <1>3, <2>2, <2>3 DEF Worked, Got
<1> QED
    BY <1>2, <1>3, <1>4, <1>7, <1>8, RunStep

LEMMA NextPageWorks ==
    ASSUME WorkIInv, TypedIInv', NEW r \in Runs, NextPage(r)
    PROVE  WorkKept' /\ VersionsBehind'
<1> DEFINE run == runs[r]
           new == runs'[r]
<1>1. TypedIInv /\ RunsTyped
    BY DEF WorkIInv, TypedIInv, SyncTyped
<1>2. UNCHANGED <<answer, wire, rt>>
    BY DEF NextPage
<1>3. /\ run.phase = "ingested" /\ run.more /\ Others(r) /\ UNCHANGED <<server, device>>
      /\ \E phase \in {"waiting", "reading"} : new = [run EXCEPT !.phase = phase]
    BY <1>1, NextPageDoes
<1>4. run \in RunRecord
    BY <1>1 DEF RunsTyped
<1>5. /\ new.phase \in {"waiting", "reading"} /\ new.kind = run.kind /\ new.since = run.since
      /\ new.cursor = run.cursor /\ new.more = run.more /\ new.page = run.page /\ new.seen = run.seen
      /\ new.dirty = run.dirty /\ new.disturbed = run.disturbed
    BY <1>3, <1>4 DEF RunRecord
<1>6. Range(new.page) \subseteq TheChanges
    BY <1>5 DEF TheChanges
<1> HIDE DEF run, new
<1>7. \A key : Reached(new, key) => Reached(run, key)
    BY <1>5 DEF Reached, HasRead
<1>8. ASSUME NEW D \in SUBSET Docs, Calm(D) PROVE SeenSo(runs[r], D)'
  <2>1. SeenSo(run, D)
      BY <1>8 DEF Calm, run
  <2>2. run.phase \in Begun
      BY <1>3 DEF Begun
  <2>3. \A d \in Docs : Brings(run, d) <=> Brings(new, d)
      BY <1>5 DEF Brings
  <2> QED
      BY <1>3, <1>5, <1>7, <2>1, <2>2, <2>3 DEF SeenSo, new
<1>9. ASSUME AtWork(new) PROVE Worked(runs[r])' /\ Calm(Docs \ new.dirty)
  <2>1. AtWork(run)
      BY <1>3, <1>5, <1>9 DEF AtWork, Begun
  <2>2. Worked(run) /\ Calm(Docs \ run.dirty)
      BY <2>1 DEF WorkIInv, WorkKept, run
  <2>3. ASSUME NEW d \in Docs, Passed(runs[r], d)' PROVE Passed(run, d)
      BY <1>3, <1>5, <1>7, <2>3 DEF Passed, new
  <2>4. \A d \in Docs : Brings(run, d) <=> Brings(new, d)
      BY <1>5 DEF Brings
  <2> QED
      BY <1>3, <1>5, <2>2, <2>3, <2>4 DEF Worked, Got, new
<1> QED
    BY <1>2, <1>3, <1>6, <1>8, <1>9, RunStep DEF new

LEMMA PruneWorks ==
    ASSUME WorkIInv, TypedIInv', NEW r \in Runs, Prune(r)
    PROVE  WorkKept' /\ VersionsBehind'
<1> DEFINE run == runs[r]
           gone == {d \in Docs : device[d] # 0 /\ d \notin run.seen}
           new == runs'[r]
<1>1. TypedIInv /\ RunsTyped /\ ServerTyped
    BY DEF WorkIInv, TypedIInv, SyncTyped
<1>2. UNCHANGED <<answer, wire, rt>>
    BY DEF Prune
<1>3. /\ run.phase = "ingested" /\ run.kind = "refresh" /\ ~run.more /\ Others(r)
      /\ UNCHANGED <<used, server, spent, device>>
      /\ new.phase \in {"ingesting", "ingested"} /\ new.kind = "prune"
      /\ Range(new.page) = {[doc |-> d, version |-> 0, how |-> "removed"] : d \in gone}
      /\ new.seen = run.seen /\ new.dirty = run.dirty /\ new.disturbed = run.disturbed
    BY <1>1, PruneDoes
<1>4. run.page = <<>>
    BY <1>1, <1>3 DEF RunsTyped, Sound
<1> HIDE DEF run
<1>5. run.phase \in Begun /\ \A d \in Docs : Reached(run, d) /\ ~Brings(run, d)
  <2>1. Range(run.page) = {}
      BY <1>4 DEF Range
  <2> QED
      BY <1>3, <2>1 DEF Begun, Reached, HasRead, Brings
<1>6. ASSUME NEW D \in SUBSET Docs, Calm(D)
      PROVE  \A c \in Range(new.page) : c.doc \in D => Current(c)
  <2> SUFFICES ASSUME NEW d \in gone, d \in D
               PROVE  Current([doc |-> d, version |-> 0, how |-> "removed"])
      BY <1>3
  <2>1. SeenSo(run, D)
      BY <1>6 DEF Calm, run
  <2>2. ~server[d].live
      BY <1>3, <1>5, <2>1 DEF SeenSo
  <2> QED
      BY <2>2 DEF Current
<1>7. \A D : SeenSo(runs[r], D)'
    BY <1>3 DEF SeenSo
<1>8. ASSUME NEW c \in Range(new.page) PROVE c.version <= server[c.doc].version
    BY <1>1, <1>3 DEF ServerTyped
<1>9. ASSUME AtWork(new) PROVE Worked(runs[r])' /\ Calm(Docs \ new.dirty)
  <2>1. AtWork(run)
      BY <1>3, <1>9 DEF AtWork, Begun
  <2>2. Worked(run) /\ Calm(Docs \ run.dirty)
      BY <2>1 DEF WorkIInv, WorkKept, run
  <2>3. ASSUME NEW d \in Docs \ run.dirty PROVE Got(d) \/ Brings(new, d)
    <3>1. CASE server[d].live
      <4>1. Passed(run, d)
          BY <1>3, <1>5, <3>1 DEF Passed
      <4> QED
          BY <1>5, <2>2, <4>1 DEF Worked
    <3>2. CASE ~server[d].live /\ device[d] = 0
        BY <3>2 DEF Got
    <3>3. CASE ~server[d].live /\ device[d] # 0
      <4>1. d \in gone
          BY <2>2, <3>3 DEF Worked
      <4>2. [doc |-> d, version |-> 0, how |-> "removed"] \in Range(new.page)
          BY <1>3, <4>1
      <4> QED
          BY <4>2 DEF Brings
    <3> QED
        BY <3>1, <3>2, <3>3
  <2> QED
      BY <1>3, <2>2, <2>3 DEF Worked, Got
<1> QED
    BY <1>2, <1>3, <1>6, <1>7, <1>8, <1>9, RunStep

\* Storing a change that is on its way to the device does no harm to documents that are calm, and brings the
\* one it is of.
LEMMA StoresFine ==
    ASSUME WorkIInv, NEW c \in TheChanges, c \in ChangeRecord, Stores(c), UNCHANGED server,
           NEW D \in SUBSET Docs, Calm(D)
    PROVE  /\ \A d \in D : Got(d) => Got(d)'
           /\ c.doc \in D => Current(c) /\ ~Ignored(c) /\ Got(c.doc)'
<1>1. /\ \A d \in Docs \ {c.doc} : device'[d] = device[d]
      /\ Current(c) => /\ ~Ignored(c)
                       /\ device'[c.doc] = IF server[c.doc].live THEN server[c.doc].version ELSE 0
    BY StoresCurrent DEF WorkIInv
<1>2. c.doc \in D => Current(c)
    BY DEF Calm
<1>3. c.doc \in D => Current(c) /\ ~Ignored(c) /\ Got(c.doc)'
    BY <1>1, <1>2 DEF Got
<1>4. ASSUME NEW d \in D, Got(d) PROVE Got(d)'
  <2>1. CASE d = c.doc
      BY <1>3, <2>1
  <2>2. CASE d # c.doc
      BY <1>1, <1>4, <2>2 DEF Got
  <2> QED
      BY <2>1, <2>2
<1> QED
    BY <1>3, <1>4

\* The versions on the device stay behind the server.
LEMMA StoresBehind ==
    ASSUME WorkIInv, TypedIInv', NEW c \in TheChanges, c \in ChangeRecord, Stores(c), UNCHANGED server,
           TheChanges' \subseteq TheChanges \cup {Nothing}
    PROVE  VersionsBehind'
<1>1. TypedIInv /\ VersionsBehind /\ ServerTyped
    BY DEF WorkIInv, TypedIInv, SyncTyped
<1>2. /\ \A d \in Docs \ {c.doc} : device'[d] = device[d]
      /\ device'[c.doc] \in {device[c.doc], 0, c.version}
    BY <1>1, StoresCurrent
<1>3. \A d \in Docs : server[d].version <= server'[d].version
    BY <1>1 DEF ServerTyped
<1>4. Nothing \notin ChangeRecord
    BY DocsAssumption DEF Nothing, ChangeRecord
<1>5. \A x \in TheChanges' \ TheChanges : x \in ChangeRecord => x.version <= server'[x.doc].version
    BY <1>4
<1>6. \A d \in Docs : \/ device'[d] \in {device[d], 0}
                      \/ \E x \in TheChanges : x \in ChangeRecord /\ x.doc = d /\ device'[d] = x.version
    BY <1>2
<1> QED
    BY <1>1, <1>3, <1>5, <1>6, StaysBehind

LEMMA IngestWorks ==
    ASSUME WorkIInv, TypedIInv', NEW r \in Runs, Ingest(r)
    PROVE  WorkKept' /\ VersionsBehind'
<1> DEFINE run == runs[r]
           new == runs'[r]
<1>0. PICK c : c = Head(run.page)
    OBVIOUS
<1>1. TypedIInv /\ RunsTyped
    BY DEF WorkIInv, TypedIInv, SyncTyped
<1>2. UNCHANGED <<answer, wire, rt>>
    BY DEF Ingest
<1>3. /\ run.phase = "ingesting" /\ Others(r) /\ UNCHANGED <<used, server, spent>>
      /\ c \in Range(run.page) /\ c \in ChangeRecord /\ Stores(c)
      /\ Range(run.page) = {c} \cup Range(new.page)
      /\ new.phase \in {"ingesting", "ingested"}
      /\ new.seen = (IF run.kind = "refresh" /\ ~Ignored(c) THEN run.seen \cup {c.doc} ELSE run.seen)
      /\ new.kind = run.kind /\ new.since = run.since /\ new.cursor = run.cursor /\ new.more = run.more
      /\ new.dirty = run.dirty /\ new.disturbed = run.disturbed
    BY <1>0, <1>1, IngestDoes
<1>4. run.kind = "refresh" => c.how = "added"
    BY <1>1, <1>3 DEF RunsTyped, Sound
<1>5. c \in TheChanges /\ c.doc \in Docs
    BY <1>3 DEF TheChanges, ChangeRecord
<1>6. \A q \in Runs \ {r} : Goes(q)
    BY <1>1, <1>3, OthersGo
<1>7. TheChanges' \subseteq TheChanges
  <2>1. TheChanges' \subseteq TheChanges \cup Range(new.page) /\ Range(run.page) \subseteq TheChanges
      BY <1>2, <1>6, RunFlight DEF TheChanges
  <2> QED
      BY <1>3, <2>1
<1>8. VersionsBehind'
    BY <1>3, <1>5, <1>7, StoresBehind
<1> HIDE DEF run, new
<1>9. HasRead(run) /\ HasRead(new) /\ run.phase \in Begun /\ \A key : Reached(new, key) => Reached(run, key)
    BY <1>3 DEF HasRead, Begun, Reached
<1>10. \A d : Brings(run, d) => d = c.doc \/ Brings(new, d)
    BY <1>3 DEF Brings
<1>11. ASSUME NEW D \in SUBSET Docs, Calm(D)
       PROVE  /\ Calm(D)' /\ \A d \in D : server'[d] = server[d] /\ (Got(d) => Got(d)')
              /\ c.doc \in D => Current(c) /\ Got(c.doc)'
  <2>1. /\ \A d \in D : Got(d) => Got(d)'
        /\ c.doc \in D => Current(c) /\ ~Ignored(c) /\ Got(c.doc)'
    <3>1. UNCHANGED server
        BY <1>3
    <3> QED
        BY <3>1, <1>3, <1>5, <1>11, StoresFine
  <2>2. SeenSo(runs[r], D)'
    <3> SUFFICES ASSUME new.kind = "refresh", NEW d \in D, server'[d].live, Reached(new, d)
                 PROVE  d \in new.seen \/ Brings(new, d)
        BY DEF SeenSo, new, Reached, HasRead, Brings
    <3>1. SeenSo(run, D) /\ server'[d] = server[d]
        BY <1>3, <1>11 DEF Calm, run
    <3>2. d \in run.seen \/ Brings(run, d)
        BY <1>3, <1>9, <3>1 DEF SeenSo
    <3> QED
        BY <1>3, <1>10, <2>1, <3>2
  <2>3. \A d \in D : server'[d] = server[d]
      BY <1>3
  <2>4. \A x \in TheChanges' \ TheChanges : x.doc \in D => Current(x)'
      BY <1>7
  <2>5. Calm(D)'
      BY <1>1, <1>6, <1>11, <2>2, <2>3, <2>4, CalmKept
  <2> QED
      BY <2>1, <2>3, <2>5
<1>12. ASSUME AtWork(new) PROVE Calm(Docs \ runs[r].dirty)' /\ Worked(runs[r])'
  <2>1. AtWork(run)
      BY <1>3, <1>9, <1>12 DEF AtWork
  <2>2. Worked(run) /\ Calm(Docs \ run.dirty)
      BY <2>1 DEF WorkIInv, WorkKept, run
  <2>3. PICK D \in SUBSET Docs : D = Docs \ run.dirty
      OBVIOUS
  <2>4. /\ Calm(D)' /\ \A d \in D : server'[d] = server[d] /\ (Got(d) => Got(d)')
        /\ c.doc \in D => Current(c) /\ Got(c.doc)'
      BY <1>11, <2>2, <2>3
  <2>5. Calm(Docs \ runs[r].dirty)'
    <3>1. D = Docs \ runs'[r].dirty
        BY <1>3, <2>3 DEF new
    <3> QED
        BY <2>4, <3>1
  <2>6. ASSUME NEW d \in D
        PROVE  /\ Passed(runs[r], d)' => Got(d)' \/ Brings(new, d)
               /\ d \in new.seen => server'[d].live
    <3>1. Passed(runs[r], d)' => Passed(run, d)
      <4>1. server'[d] = server[d]
          BY <2>4
      <4>2. (new.phase = "answered") = FALSE /\ (run.phase = "answered") = FALSE
          BY <1>3
      <4> QED
          BY <1>3, <1>9, <4>1, <4>2 DEF Passed, new, Reached, HasRead
    <3>2. Passed(run, d) => Got(d) \/ Brings(run, d)
        BY <2>2, <2>3 DEF Worked
    <3>3. Passed(runs[r], d)' => Got(d)' \/ Brings(new, d)
      <4> SUFFICES ASSUME Passed(runs[r], d)' PROVE Got(d)' \/ Brings(new, d)
          OBVIOUS
      <4>1. CASE Got(d)
          BY <2>4, <4>1
      <4>2. CASE Brings(run, d)
        <5>1. CASE d = c.doc
            BY <2>4, <5>1
        <5>2. CASE d # c.doc
            BY <1>10, <4>2, <5>2
        <5> QED
            BY <5>1, <5>2
      <4> QED
          BY <3>1, <3>2, <4>1, <4>2
    <3>4. ASSUME d \in new.seen PROVE server'[d].live
      <4>1. CASE d \in run.seen
          BY <2>2, <2>3, <2>4, <4>1 DEF Worked
      <4>2. CASE d \notin run.seen
        <5>1. d = c.doc /\ run.kind = "refresh"
            BY <1>3, <3>4, <4>2
        <5> QED
            BY <1>4, <2>4, <5>1 DEF Current
      <4> QED
          BY <4>1, <4>2
    <3> QED
        BY <3>3, <3>4
  <2>7. Worked(runs[r])'
    <3>1. \A d \in Docs \ new.dirty : d \in D
        BY <1>3, <2>3
    <3> QED
        BY <2>6, <3>1 DEF Worked, new, Brings
  <2> QED
      BY <2>5, <2>7
<1>13. \A D \in SUBSET Docs : Fine(D)
    BY <1>11 DEF Fine
<1> QED
    BY <1>6, <1>8, <1>12, <1>13, WorkGoes DEF run, new

-----------------------------------------------------------------------------
(* The other steps let it be *)

\* What is new on its way to the device is what realtime brings.
LEMMA FlightGoes ==
    ASSUME TypedIInv', \A q \in Runs : Goes(q)
    PROVE  TheChanges' \subseteq TheChanges \cup {rt'} \cup answer' \cup Range(wire')
<1>1. ASSUME NEW c \in TheChanges', c \notin {rt'} \cup answer' \cup Range(wire') PROVE c \in TheChanges
  <2>1. PICK q \in Runs : c \in Range(runs'[q].page)
      BY <1>1 DEF TheChanges
  <2>2. Range(runs'[q].page) \subseteq Range(runs[q].page)
      BY PageGoes
  <2> QED
      BY <2>1, <2>2 DEF TheChanges
<1> QED
    BY <1>1

\* A step that leaves the server and the device alone, and brings nothing old.
LEMMA OtherStep ==
    ASSUME WorkIInv, TypedIInv', \A q \in Runs : Goes(q), UNCHANGED <<server, device>>,
           \A c \in {rt'} \cup answer' \cup Range(wire') :
              \/ c \in TheChanges \cup {Due, Nothing}
              \/ c.version <= server[c.doc].version /\ Current(c)
    PROVE  WorkKept' /\ VersionsBehind'
<1>1. TypedIInv /\ ServerTyped
    BY DEF WorkIInv, TypedIInv, SyncTyped
<1>2. TheChanges' \subseteq TheChanges \cup {rt'} \cup answer' \cup Range(wire')
    BY FlightGoes
<1>3. /\ Due.doc \notin Docs /\ Nothing.doc \notin Docs
      /\ Due \notin ChangeRecord /\ Nothing \notin ChangeRecord
    BY DocsAssumption DEF Due, Nothing, ChangeRecord
<1>4. ASSUME NEW c \in TheChanges' \ TheChanges
      PROVE  c \in {Due, Nothing} \/ (c.version <= server[c.doc].version /\ Current(c))
    BY <1>2
<1>5. VersionsBehind'
  <2>1. \A d \in Docs : server[d].version <= server'[d].version
      BY <1>1 DEF ServerTyped
  <2>2. \A c \in TheChanges' \ TheChanges : c \in ChangeRecord => c.version <= server'[c.doc].version
      BY <1>3, <1>4
  <2> QED
      BY <1>1, <2>1, <2>2, StaysBehind DEF WorkIInv
<1>6. ASSUME NEW D \in SUBSET Docs PROVE Fine(D)
  <2>1. ASSUME Calm(D) PROVE Calm(D)'
    <3>1. ASSUME NEW c \in TheChanges' \ TheChanges, c.doc \in D PROVE Current(c)'
      <4>1. Current(c)
          BY <1>3, <1>4, <3>1
      <4> QED
          BY <4>1 DEF Current
    <3>2. 0 \notin Runs
        BY DEF Runs
    <3> QED
        BY <1>1, <2>1, <3>1, <3>2, CalmKept
  <2> QED
      BY <2>1 DEF Fine, Got
<1>7. 0 \notin Runs
    BY DEF Runs
<1> QED
    BY <1>5, <1>6, <1>7, WorkGoes

\* A write comes after all that was written before, so that what it tells of is not behind.
LEMMA WriteWorks ==
    ASSUME Ordered, WorkIInv, TypedIInv', NEW d \in Docs, NEW version \in 1..MaxVersion, NEW gone \in BOOLEAN,
           Write(d, version, gone)
    PROVE  WorkKept' /\ VersionsBehind'
<1>1. TypedIInv /\ RunsTyped /\ ServerTyped /\ VersionsOnce
    BY DEF WorkIInv, TypedIInv, SyncTyped
<1>2. /\ \A v \in 1..MaxVersion : v \in spent <=> v < version
      /\ server' = [server EXCEPT ![d] = [version |-> version, live |-> ~gone]]
      /\ UNCHANGED <<device, answer, rt>>
      /\ \/ wire' = wire
         \/ \E c \in Told(d, version, gone) : wire' = Append(wire, c)
    BY DEF Write
<1>3. server'[d].version = version /\ \A e \in Docs \ {d} : server'[e] = server[e]
    BY <1>1, <1>2 DEF ServerTyped
<1>4. \A q \in Runs : Goes(q) /\ (runs'[q].phase \in Begun => d \in runs'[q].dirty)
    BY <1>1, WriteRuns
<1>5. ASSUME NEW c \in TheChanges' \ TheChanges PROVE c.doc = d /\ c.version = version
  <2>1. c \in {rt'} \cup answer' \cup Range(wire')
      BY <1>4, FlightGoes
  <2>2. c \in Range(wire') /\ c \notin Range(wire)
      BY <1>2, <2>1 DEF TheChanges
  <2>3. PICK x \in Told(d, version, gone) : wire' = Append(wire, x)
      BY <1>2, <2>2
  <2>4. wire \in Seq(ChangeRecord)
      BY DEF WorkIInv, TypedIInv, SyncTyped, FlightTyped
  <2>5. c = x
      BY <2>2, <2>3, <2>4 DEF Range
  <2> QED
      BY <2>5 DEF Told
<1>6. VersionsBehind'
  <2>1. \A e \in Docs : server[e].version <= server'[e].version
    <3>1. server[d].version \in spent \cup {0} /\ spent \subseteq 1..MaxVersion
        BY <1>1 DEF VersionsOnce, ServerTyped
    <3>2. server[d].version <= version
      <4>1. PICK v : v = server[d].version
          OBVIOUS
      <4>2. v = 0 \/ (v \in 1..MaxVersion /\ v \in spent)
          BY <3>1, <4>1
      <4>3. v = 0 \/ v < version
          BY <1>2, <4>2
      <4>4. version \in Nat
          BY SizesAssumption
      <4> QED
          BY <3>1, <4>1, <4>2, <4>3, <4>4, SizesAssumption
    <3> QED
        BY <1>1, <1>3, <3>2 DEF ServerTyped
  <2>2. \A c \in TheChanges' \ TheChanges : c.version <= server'[c.doc].version
      BY <1>3, <1>5
  <2> QED
      BY <1>1, <1>2, <2>1, <2>2, StaysBehind DEF WorkIInv
<1>7. 0 \notin Runs
    BY DEF Runs
<1>8. ASSUME NEW D \in SUBSET Docs, d \notin D PROVE Fine(D)
  <2>1. \A e \in D : server'[e] = server[e]
      BY <1>3, <1>8
  <2>2. Calm(D) => Calm(D)'
      BY <1>1, <1>4, <1>5, <1>7, <1>8, <2>1, CalmKept
  <2> QED
      BY <1>2, <2>1, <2>2 DEF Fine, Got
<1>9. ASSUME NEW D \in SUBSET Docs, \E q \in Runs : AtWork(runs'[q]) /\ D \cap runs'[q].dirty = {}
      PROVE  Fine(D)
    BY <1>4, <1>8, <1>9 DEF AtWork
<1> QED
    BY <1>4, <1>6, <1>7, <1>9, WorkGoes

\* An event, or the first answer, is stored like a page.
LEMMA RtStoreWorks ==
    ASSUME WorkIInv, TypedIInv', RtStore
    PROVE  WorkKept' /\ VersionsBehind'
<1>1. TypedIInv /\ FlightTyped
    BY DEF WorkIInv, TypedIInv, SyncTyped
<1>2. rt # Nothing /\ Stores(rt) /\ rt' = Nothing /\ UNCHANGED <<server, runs, answer, wire>>
    BY DEF RtStore
<1>3. PICK c : c = rt
    OBVIOUS
<1>4. c \in TheChanges /\ c \in ChangeRecord /\ Stores(c)
    BY <1>1, <1>2, <1>3 DEF TheChanges, FlightTyped
<1>5. \A q \in Runs : Goes(q)
    BY <1>2 DEF Goes, Kept
<1>6. TheChanges' \subseteq TheChanges \cup {Nothing}
    BY <1>2 DEF TheChanges
<1>7. UNCHANGED server
    BY <1>2
<1>8. VersionsBehind'
    BY <1>4, <1>6, <1>7, StoresBehind
<1>9. 0 \notin Runs /\ Nothing.doc \notin Docs
    BY DocsAssumption DEF Runs, Nothing
<1>10. ASSUME NEW D \in SUBSET Docs PROVE Fine(D)
  <2>1. ASSUME Calm(D) PROVE Calm(D)' /\ \A d \in D : Got(d) => Got(d)'
    <3>1. \A d \in D : Got(d) => Got(d)'
        BY <1>4, <1>7, <2>1, StoresFine
    <3>2. \A x \in TheChanges' \ TheChanges : x.doc \in D => Current(x)'
        BY <1>6, <1>9
    <3>3. Calm(D)'
        BY <1>1, <1>5, <1>7, <1>9, <2>1, <3>2, CalmKept
    <3> QED
        BY <3>1, <3>3
  <2> QED
      BY <1>7, <2>1 DEF Fine
<1> QED
    BY <1>5, <1>8, <1>9, <1>10, WorkGoes

\* The device is emptied: no run is at work any more.
LEMMA EmptiedWorks ==
    ASSUME WorkIInv, TypedIInv', FlushStorage \/ \E d \in Docs : Evict(d)
    PROVE  WorkKept' /\ VersionsBehind'
<1>1. TypedIInv /\ RunsTyped /\ ServerTyped /\ DeviceTyped
    BY DEF WorkIInv, TypedIInv, SyncTyped
<1>2. /\ UNCHANGED <<used, server, answer, wire, rt>> /\ runs' = Flag(runs, "disturbed")
      /\ \A d \in Docs : device'[d] \in {device[d], 0}
    BY <1>1 DEF FlushStorage, Evict, DeviceTyped
<1>3. \A q \in Runs : Goes(q) /\ (runs'[q].phase \in Begun => runs'[q].disturbed)
    BY <1>1, <1>2, DisturbedRuns
<1>4. TheChanges' \subseteq TheChanges
  <2>1. TheChanges' \subseteq TheChanges \cup {rt'} \cup answer' \cup Range(wire')
      BY <1>3, FlightGoes
  <2> QED
      BY <1>2, <2>1 DEF TheChanges
<1>5. VersionsBehind'
  <2>1. \A d \in Docs : server[d].version <= server'[d].version
      BY <1>1, <1>2 DEF ServerTyped
  <2> QED
      BY <1>1, <1>2, <1>4, <2>1, StaysBehind DEF WorkIInv
<1>6. WorkKept'
    BY <1>3 DEF WorkKept, AtWork
<1> QED
    BY <1>5, <1>6

\* Realtime starts, takes what it is told, and ends.
LEMMA RealtimeWorks ==
    ASSUME WorkIInv, TypedIInv', Answered \/ RtTake \/ Drop \/ Reconnected
    PROVE  WorkKept' /\ VersionsBehind'
<1>1. TypedIInv /\ SyncTyped /\ RunsTyped /\ ServerTyped /\ FlightTyped /\ ScopeTyped
    BY DEF WorkIInv, TypedIInv, SyncTyped
<1>2. UNCHANGED <<server, device>>
    BY DEF Answered, RtTake, Drop, Reconnected
<1>3. \A q \in Runs : Goes(q)
  <2>1. CASE Reconnected
      BY <1>1, <2>1, ReopenedRuns DEF Reconnected, ScopeTyped
  <2>2. CASE UNCHANGED runs
      BY <2>2 DEF Goes, Kept
  <2> QED
      BY <2>1, <2>2 DEF Answered, RtTake, Drop
<1>4. Range(<<>>) = {}
    BY DEF Range
<1>5. ASSUME NEW c \in {rt'} \cup answer' \cup Range(wire')
      PROVE  \/ c \in TheChanges \cup {Due, Nothing}
             \/ c.version <= server[c.doc].version /\ Current(c)
  <2>1. CASE Answered
    <3>1. UNCHANGED <<rt, wire>>
        BY <2>1 DEF Answered
    <3>2. CASE c \in {rt} \cup Range(wire)
        BY <3>2 DEF TheChanges
    <3>3. CASE c \in answer'
      <4>1. PICK d \in Docs : server[d].live /\ c = [doc |-> d, version |-> server[d].version, how |-> "added"]
          BY <2>1, <3>3 DEF Answered
      <4> QED
          BY <1>1, <4>1 DEF Current, ServerTyped
    <3> QED
        BY <1>5, <3>1, <3>2, <3>3
  <2>2. CASE RtTake
    <3>1. PICK x \in (answer \ {Due}) \cup (IF wire = <<>> THEN {} ELSE {Head(wire)}) :
              /\ IF x \in answer THEN answer' = {} /\ wire' = wire ELSE answer' = answer /\ wire' = Tail(wire)
              /\ rt' = x
        BY <2>2 DEF RtTake
    <3>2. x \in answer \/ (wire # <<>> /\ x = Head(wire))
        BY <3>1
    <3>3. rt' \in answer \cup Range(wire)
        BY <1>1, <3>1, <3>2, WireTail
    <3>4. Range(wire') \subseteq Range(wire) /\ answer' \subseteq answer
        BY <1>1, <3>1, <3>2, WireTail
    <3> QED
        BY <1>5, <3>3, <3>4 DEF TheChanges
  <2>3. CASE Drop \/ Reconnected
      BY <1>4, <1>5, <2>3 DEF Drop, Reconnected, Opened, TheChanges
  <2> QED
      BY <2>1, <2>2, <2>3
<1> QED
    BY <1>2, <1>3, <1>5, OtherStep

\* The holders of the scope, and the sessions.
LEMMA SessionWorks ==
    ASSUME WorkIInv, TypedIInv',
           \/ Restored \/ KeepEnds \/ Extend \/ Start \/ Evicted \/ Cleared \/ Restart
           \/ DayPasses \/ Redeploy \/ UNCHANGED syncVars
           \/ \E h \in Holders : Acquire(h) \/ Release(h)
    PROVE  WorkKept' /\ VersionsBehind'
<1>1. TypedIInv /\ SyncTyped /\ RunsTyped /\ ScopeTyped
    BY DEF WorkIInv, TypedIInv, SyncTyped
<1>2. UNCHANGED <<server, device>>
    BY DEF Restored, KeepEnds, Extend, Start, Evicted, Cleared, Restart, DayPasses, Redeploy, syncVars, serverVars,
           Acquire, Release
<1>3. ASSUME NEW h, Acquires(h), UNCHANGED rt
      PROVE  /\ \A q \in Runs : Goes(q)
             /\ rt' = rt /\ (answer' = answer \/ answer' = {Due}) /\ (wire' = wire \/ wire' = <<>>)
  <2>1. \A q \in Runs : Goes(q)
      BY <1>1, <1>3, AcquiredRuns DEF ScopeTyped
  <2> QED
      BY <1>3, <2>1 DEF Acquires, realtimeVars, Opened
<1>4. ASSUME UNCHANGED runs PROVE \A q \in Runs : Goes(q)
    BY <1>4 DEF Goes, Kept
<1>5. /\ \A q \in Runs : Goes(q)
      /\ rt' \in {rt, Nothing} /\ (answer' \subseteq answer \/ answer' = {Due}) /\ (wire' = wire \/ wire' = <<>>)
  <2>1. CASE Restored \/ Evicted \/ DayPasses \/ Redeploy \/ UNCHANGED syncVars \/ \E h \in Holders : Release(h)
    <3>1. UNCHANGED <<runs, answer, wire, rt>>
        BY <2>1 DEF Restored, Evicted, DayPasses, Redeploy, syncVars, runVars, realtimeVars, Release
    <3> QED
        BY <1>4, <3>1
  <2>2. CASE KeepEnds
    <3>1. UNCHANGED <<runs, rt>> /\ (answer' = answer \/ answer' = {}) /\ (wire' = wire \/ wire' = <<>>)
        BY <2>2 DEF KeepEnds
    <3> QED
        BY <1>4, <3>1
  <2>3. CASE Extend
    <3>1. Queue(runs, "extend", last) /\ UNCHANGED <<answer, wire, rt>> /\ last \in 0..used /\ last \in 0..used + 1
        BY <1>1, <2>3 DEF Extend, ScopeTyped, RunsTyped
    <3> QED
        BY <1>1, <3>1, QueuedRuns
  <2>4. CASE Start
    <3>1. UNCHANGED rt /\ (Acquires(Persisted) \/ UNCHANGED <<runs, answer, wire>>)
        BY <2>4 DEF Start, realtimeVars, runVars
    <3>2. CASE Acquires(Persisted)
        BY <1>3, <3>1, <3>2
    <3> QED
        BY <1>4, <3>1, <3>2
  <2>5. CASE Cleared
    <3>1. UNCHANGED <<answer, wire, rt>> /\ (Queue(runs, "catchup", used + 1) \/ UNCHANGED runs)
        BY <2>5 DEF Cleared
    <3>2. last \in 0..used /\ used + 1 \in 0..used + 1
        BY <1>1 DEF ScopeTyped, RunsTyped
    <3>3. \A q \in Runs : Goes(q)
        BY <1>1, <1>4, <3>1, <3>2, QueuedRuns
    <3> QED
        BY <3>1, <3>3
  <2>6. CASE Restart
    <3>1. runs' = [q \in Runs |-> NoRun] /\ rt' = Nothing /\ answer' = {} /\ wire' = <<>>
        BY <2>6 DEF Restart
    <3>2. \A q \in Runs : runs'[q].phase \notin Begun
        BY <3>1 DEF NoRun, Begun
    <3> QED
        BY <3>1, <3>2 DEF Goes
  <2>7. CASE \E h \in Holders : Acquire(h)
      BY <1>3, <2>7 DEF Acquire
  <2> QED
      BY <2>1, <2>2, <2>3, <2>4, <2>5, <2>6, <2>7
<1>6. Range(<<>>) = {}
    BY DEF Range
<1>7. \A c \in {rt'} \cup answer' \cup Range(wire') : c \in TheChanges \cup {Due, Nothing}
    BY <1>5, <1>6 DEF TheChanges
<1> QED
    BY <1>2, <1>5, <1>7, OtherStep

LEMMA StepWork ==
    ASSUME Ordered
    PROVE  WorkIInv /\ [SyncNext]_syncVars => WorkIInv'
<1> SUFFICES ASSUME WorkIInv, [SyncNext]_syncVars
             PROVE  WorkIInv'
    OBVIOUS
<1>1. TypedIInv'
    BY StepTypedIInv DEF WorkIInv
<1>2. ASSUME NEW r \in Runs, Step(r) PROVE WorkKept' /\ VersionsBehind'
  <2>1. CASE Begin(r)
      BY <1>1, <2>1, BeginWorks
  <2>2. CASE ServerReads(r)
      BY <1>1, <2>2, ServerReadsWorks
  <2>3. CASE Arrives(r)
      BY <1>1, <2>3, ArrivesWorks
  <2>4. CASE ReadFails(r) \/ Finish(r)
      BY <1>1, <2>4, OverWorks
  <2>5. CASE Ingest(r)
      BY <1>1, <2>5, IngestWorks
  <2>6. CASE NextPage(r)
      BY <1>1, <2>6, NextPageWorks
  <2>7. CASE Prune(r)
      BY <1>1, <2>7, PruneWorks
  <2> QED
      BY <1>2, <2>1, <2>2, <2>3, <2>4, <2>5, <2>6, <2>7 DEF Step
<1>3. ASSUME NEW d \in Docs, NEW version \in 1..MaxVersion, NEW gone \in BOOLEAN, Write(d, version, gone)
      PROVE  WorkKept' /\ VersionsBehind'
    BY <1>1, <1>3, WriteWorks
<1>4. ASSUME Answered \/ RtTake \/ Drop \/ Reconnected PROVE WorkKept' /\ VersionsBehind'
    BY <1>1, <1>4, RealtimeWorks
<1>5. ASSUME RtStore PROVE WorkKept' /\ VersionsBehind'
    BY <1>1, <1>5, RtStoreWorks
<1>6. ASSUME \/ Restored \/ KeepEnds \/ Extend \/ Start \/ Evicted \/ Cleared \/ Restart
             \/ DayPasses \/ Redeploy \/ UNCHANGED syncVars
             \/ \E h \in Holders : Acquire(h) \/ Release(h)
      PROVE  WorkKept' /\ VersionsBehind'
    BY <1>1, <1>6, SessionWorks
<1>7. ASSUME FlushStorage \/ \E d \in Docs : Evict(d) PROVE WorkKept' /\ VersionsBehind'
    BY <1>1, <1>7, EmptiedWorks
<1>8. WorkKept' /\ VersionsBehind'
    BY <1>2, <1>3, <1>4, <1>5, <1>6, <1>7 DEF SyncNext
<1> QED
    BY <1>1, <1>8 DEF WorkIInv

LEMMA InitWork == SyncInit => WorkIInv
<1> SUFFICES ASSUME SyncInit PROVE WorkIInv
    OBVIOUS
<1>1. TypedIInv
    BY InitTypedIInv
<1>2. /\ runs = [q \in Runs |-> NoRun] /\ rt = Nothing /\ answer = {} /\ wire = <<>>
      /\ device = [d \in Docs |-> 0]
    BY DEF SyncInit
<1>3. WorkKept
    BY <1>2 DEF WorkKept, AtWork, NoRun, Begun
<1>4. TheChanges \subseteq {Nothing}
    BY <1>2 DEF TheChanges, Range, NoRun
<1>5. Nothing \notin ChangeRecord
    BY DocsAssumption DEF Nothing, ChangeRecord
<1>6. VersionsBehind
    BY <1>1, <1>2, <1>4, <1>5 DEF VersionsBehind, TypedIInv, SyncTyped, ServerTyped
<1> QED
    BY <1>1, <1>3, <1>6 DEF WorkIInv

-----------------------------------------------------------------------------
(* A catch-up did its work *)

\* Only Finish ends a run that ingested what it read, unless the session ends.
LEMMA EndsByFinish ==
    ASSUME TypedIInv, [SyncNext]_syncVars, NEW r \in Runs, runs[r].phase = "ingested", runs'[r].phase = "over"
    PROVE  Finish(r)
<1>1. RunsTyped /\ ScopeTyped /\ SlotsIInv
    BY DEF TypedIInv, SyncTyped
<1>2. ~Kept(runs[r], runs'[r])
    BY DEF Kept
<1>3. runs'[r] # NoRun
    BY DEF NoRun
<1>4. ASSUME NEW q \in Runs, Step(q) PROVE Finish(r)
  <2>1. CASE q # r
    <3>1. Others(q)
        BY <1>1, <1>4, BeginDoes, ServerReadsDoes, ArrivesDoes, ReadFailsDoes, IngestDoes, NextPageDoes, PruneDoes,
           FinishDoes DEF Step, TypedIInv, VersionsOnce, SyncTyped
    <3>2. runs'[r] = runs[r] \/ runs[r].phase = "waiting"
        BY <2>1, <3>1 DEF Others
    <3> QED
        BY <3>2
  <2>2. CASE q = r
    <3>1. CASE Begin(r) \/ ServerReads(r) \/ Arrives(r) \/ ReadFails(r) \/ Ingest(r)
        BY <3>1 DEF Begin, ServerReads, Arrives, ReadFails, Ingest
    <3>2. CASE NextPage(r)
      <4>1. \E phase \in {"waiting", "reading"} : runs'[r] = [runs[r] EXCEPT !.phase = phase]
          BY <1>1, <3>2, NextPageDoes
      <4> QED
          BY <1>1, <4>1 DEF RunsTyped, RunRecord
    <3>3. CASE Prune(r)
      <4>1. runs'[r].phase \in {"ingesting", "ingested"}
          BY <1>1, <3>3, PruneDoes
      <4> QED
          BY <4>1
    <3> QED
        BY <1>4, <2>2, <3>1, <3>2, <3>3 DEF Step
  <2> QED
      BY <2>1, <2>2
<1>5. ASSUME NEW d \in Docs, NEW version \in 1..MaxVersion, NEW gone \in BOOLEAN, Write(d, version, gone)
      PROVE  FALSE
  <2>1. runs'[r].phase = runs[r].phase
    <3>1. runs[r] \in RunRecord
        BY <1>1 DEF RunsTyped
    <3>2. runs'[r] = IF runs[r].phase \in Begun THEN [runs[r] EXCEPT !.dirty = @ \cup {d}] ELSE runs[r]
        BY <1>5 DEF Write
    <3> QED
        BY <3>1, <3>2 DEF RunRecord
  <2> QED
      BY <2>1
<1>6. ASSUME NEW rs, rs \in {runs, Flag(runs, "old")}, NEW kind, NEW after, Queue(rs, kind, after)
      PROVE  FALSE
  <2>1. used + 1 \in Runs
      BY <1>1, <1>6, SizesAssumption DEF Queue, RunsTyped, Runs
  <2>2. rs[r].phase = runs[r].phase
      BY <1>1, <1>6, FlagTyped
  <2>3. runs'[r] = rs[r] \/ runs'[r] = [NoRun EXCEPT !.phase = "chained", !.kind = kind, !.after = after]
      BY <1>1, <1>6, <2>1, FlagTyped DEF Queue, RunsTyped
  <2>4. [NoRun EXCEPT !.phase = "chained", !.kind = kind, !.after = after].phase = "chained"
      BY DEF NoRun
  <2> QED
      BY <2>2, <2>3, <2>4
<1>7. ASSUME NEW h, Acquires(h) PROVE FALSE
    BY <1>6, <1>7 DEF Acquires, runVars
<1>8. ASSUME runs' = Flag(runs, "disturbed") PROVE FALSE
    BY <1>1, <1>8, FlagTyped
<1>9. ASSUME UNCHANGED runs PROVE FALSE
    BY <1>9
<1>10. CASE \/ Redeploy \/ Answered \/ RtTake \/ RtStore \/ Drop \/ Restored \/ KeepEnds \/ Evicted \/ DayPasses
            \/ UNCHANGED syncVars \/ \E h \in Holders : Release(h)
    BY <1>9, <1>10 DEF Redeploy, Answered, RtTake, RtStore, Drop, Restored, KeepEnds, Evicted, DayPasses, syncVars,
                       runVars, Release
<1>11. CASE Reconnected \/ Extend
    BY <1>6, <1>11 DEF Reconnected, Extend
<1>12. CASE Start \/ \E h \in Holders : Acquire(h)
    BY <1>7, <1>9, <1>12 DEF Start, Acquire, runVars
<1>13. CASE FlushStorage \/ \E d \in Docs : Evict(d)
    BY <1>8, <1>13 DEF FlushStorage, Evict
<1>14. CASE Cleared
    BY <1>6, <1>9, <1>14 DEF Cleared, runVars
<1>15. CASE Restart
    BY <1>3, <1>15 DEF Restart
<1> QED
    BY <1>4, <1>5, <1>10, <1>11, <1>12, <1>13, <1>14, <1>15 DEF SyncNext

\* A catch-up that succeeds did its work: of the documents nobody wrote to, or sent, while it ran, the device
\* holds what the server has, as far as it was to reach - for any documents, pages, windows, overlap, slots,
\* runs and faults, when versions become visible in the order they are given. (Without transactions a document
\* may be written with a version below the one the device was told of, which then ignores it as older.)
THEOREM CatchUpsWork ==
    ASSUME Ordered
    PROVE  SyncSpec => CatchesUp
<1>1. WorkIInv /\ [SyncNext]_syncVars
      => [\A r \in Runs :
            LET run == runs[r]
                reached(d) ==
                    CASE run.kind = "delta" -> server[d].version >= run.since /\ server[d].version # 0
                      [] run.kind = "prune" -> TRUE
                      [] OTHER -> server[d].live /\ (~run.more \/ d <= run.cursor)
            IN  run.phase = "ingested" /\ runs'[r].phase = "over" /\ run.kind # "extend" /\ ~run.disturbed
                => \A d \in Docs \ run.dirty :
                      reached(d) => device'[d] = IF server[d].live THEN server[d].version ELSE 0]_syncVars
  <2> DEFINE reached(run, d) ==
                 CASE run.kind = "delta" -> server[d].version >= run.since /\ server[d].version # 0
                   [] run.kind = "prune" -> TRUE
                   [] OTHER -> server[d].live /\ (~run.more \/ d <= run.cursor)
  <2> SUFFICES ASSUME WorkIInv, [SyncNext]_syncVars, NEW r \in Runs,
                      runs[r].phase = "ingested", runs'[r].phase = "over", runs[r].kind # "extend",
                      ~runs[r].disturbed, NEW d \in Docs \ runs[r].dirty, reached(runs[r], d)
               PROVE  device'[d] = IF server[d].live THEN server[d].version ELSE 0
      OBVIOUS
  <2>1. TypedIInv /\ RunsTyped
      BY DEF WorkIInv, TypedIInv, SyncTyped
  <2>2. Finish(r)
      BY <2>1, EndsByFinish
  <2>3. ~Continues(runs[r]) /\ device' = device
      BY <2>1, <2>2, FinishDoes
  <2>4. runs[r].page = <<>> /\ runs[r].kind \in Kinds \ {"none", "catchup"}
      BY <2>1 DEF RunsTyped, RunRecord, Sound, Begun
  <2>5. ~Brings(runs[r], d)
      BY <2>4 DEF Brings, Range
  <2>6. Passed(runs[r], d)
    <3>1. runs[r].kind = "delta" => ~runs[r].more
        BY <2>3 DEF Continues
    <3>2. HasRead(runs[r])
        BY DEF HasRead
    <3> QED
        BY <2>4, <3>1, <3>2 DEF Passed, Reached, Kinds
  <2>7. AtWork(runs[r])
      BY DEF AtWork, Begun
  <2>8. Got(d)
      BY <2>5, <2>6, <2>7 DEF WorkIInv, WorkKept, Worked
  <2> QED
      BY <2>3, <2>8 DEF Got
<1> QED
    BY <1>1, InitWork, StepWork, PTL DEF SyncSpec, CatchesUp

-----------------------------------------------------------------------------
(* The first catch-up, and the extends after it *)

\* Nothing was loaded yet.
Fresh(m) == ~m.loaded /\ ~m.complete /\ m.next = 0

\* Before the scope is used for the first time.
NotYet ==
    last = 0 => /\ used = 0 /\ scope = "none" /\ ~active /\ sub = "off"
                /\ rt = Nothing /\ answer = {} /\ wire = <<>>

StillFresh ==
    last = 0 \/ (last = 1 /\ runs[1].phase \notin Ended) => \A m \in stored \cup {meta} : Fresh(m)

\* The first run is the first load, the others extend it; they find what it loaded.
OneCatchUp ==
    last = 1 =>
    /\ \A q \in Runs : runs[q].phase \notin Ended
          => IF q = 1 THEN runs[q].kind \in {"catchup", "first"} ELSE runs[q].kind = "extend"
    /\ runs[1].phase = "chained" => runs[1].after = 0
    /\ scope # "none" /\ (scope = "restoring" => runs[1].phase = "chained")
    /\ ~meta.loaded => Fresh(meta) /\ \A q \in Runs : runs[q].phase \in Begun => runs[q].kind # "extend"

NeverEmptied == ~flushing /\ evicting = {} /\ (opening = "no" => day = 0)

\* A live document was written; the realtime query has one first answer.
Sane ==
    /\ \A d \in Docs : server[d].live => server[d].version # 0
    /\ answer = {} \/ \E c \in answer : answer = {c}

FirstOnly == NotYet /\ StillFresh /\ OneCatchUp /\ NeverEmptied

FirstIInv == TypedIInv /\ Sane /\ (faults = 0 => FirstOnly)

LEMMA FirstIsRun ==
    ASSUME TypedIInv, last = 1
    PROVE  1 \in Runs /\ used \in Nat /\ used >= 1
BY SizesAssumption DEF TypedIInv, SyncTyped, ScopeTyped, RunsTyped, Runs

\* A step of a run takes it from one phase to another.
LEMMA StepPhases ==
    ASSUME TypedIInv, NEW r \in Runs, Step(r)
    PROVE  /\ Others(r) /\ runs[r].phase \notin Ended /\ runs'[r].phase # "chained"
           /\ runs[r].phase = "chained" <=> Begin(r)
           /\ \/ runs'[r].phase \in Ended
              \/ runs'[r].kind = runs[r].kind
              \/ Begin(r) /\ \E phase \in {"waiting", "reading"} : runs'[r] = [Starting(r) EXCEPT !.phase = phase]
              \/ runs[r].kind \in {"refresh", "delta"}
<1>1. RunsTyped /\ ServerTyped /\ FlightTyped /\ MetaTyped /\ SlotsIInv /\ VersionsOnce
    BY DEF TypedIInv, SyncTyped
<1>2. [NoRun EXCEPT !.phase = "over"].phase = "over"
    BY DEF NoRun
<1>3. CASE Begin(r)
  <2>1. Starting(r) \in RunRecord
      BY <1>1, <1>3, BeginDoes, StartingTyped
  <2> QED
      BY <1>1, <1>2, <1>3, <2>1, BeginDoes DEF Ended, RunRecord
<1>4. CASE ServerReads(r)
    BY <1>1, <1>4, ReadBrings DEF Ended, Begin
<1>5. CASE Arrives(r)
    BY <1>1, <1>5, ArrivesDoes DEF Ended, Begin
<1>6. CASE ReadFails(r) \/ Finish(r)
  <2>1. /\ Others(r) /\ runs'[r] = [NoRun EXCEPT !.phase = "over"]
        /\ runs[r].phase \in {"reading", "answered", "ingested"}
      BY <1>1, <1>6, ReadFailsDoes, FinishDoes
  <2>2. runs'[r].phase = "over" /\ runs[r].phase # "chained"
      BY <1>2, <2>1
  <2> QED
      BY <2>1, <2>2 DEF Ended, Begin
<1>7. CASE Ingest(r)
    BY <1>1, <1>7, IngestDoes DEF Ended, Begin
<1>8. CASE NextPage(r)
  <2>1. runs[r] \in RunRecord
      BY <1>1 DEF RunsTyped
  <2> QED
      BY <1>1, <1>8, <2>1, NextPageDoes DEF Ended, Begin, RunRecord
<1>9. CASE Prune(r)
    BY <1>1, <1>9, PruneDoes DEF Ended, Begin
<1> QED
    BY <1>3, <1>4, <1>5, <1>6, <1>7, <1>8, <1>9 DEF Step

\* Only the end of a run changes what the meta says of the device.
LEMMA StepMeta ==
    ASSUME TypedIInv, NEW r \in Runs, Step(r), ~Finish(r)
    PROVE  /\ stored' = stored
           /\ meta'.loaded = meta.loaded /\ meta'.complete = meta.complete /\ meta'.next = meta.next
<1>1. meta \in MetaRecord
    BY DEF TypedIInv, SyncTyped, MetaTyped
<1>2. CASE Arrives(r)
  <2>1. stored' = stored /\ \E sync : \/ meta' = [meta EXCEPT !.sync = sync]
                                      \/ meta' = Advanced([meta EXCEPT !.sync = sync], runs[r].page)
      BY <1>2 DEF Arrives
  <2> QED
      BY <1>1, <2>1 DEF Advanced, MetaRecord
<1>3. CASE ~Arrives(r)
    BY <1>3 DEF Step, Begin, ServerReads, ReadFails, Ingest, NextPage, Prune
<1> QED
    BY <1>2, <1>3

LEMMA StepLeaves ==
    ASSUME NEW r \in Runs, Step(r)
    PROVE  UNCHANGED <<config, scopeVars, sessionVars, day, last, used, first, answer, wire, rt, server, spent, serves>>
BY DEF Step, Begin, ServerReads, Arrives, ReadFails, Ingest, NextPage, Prune, Finish

LEMMA RunsFirst ==
    ASSUME FirstIInv, FirstOnly, NEW r \in Runs, Step(r), TypedIInv'
    PROVE  FirstOnly'
<1>1. TypedIInv /\ RunsTyped /\ MetaTyped /\ FlightTyped
    BY DEF FirstIInv, TypedIInv, SyncTyped
<1>2. /\ Others(r) /\ runs[r].phase \notin Ended /\ runs'[r].phase # "chained"
      /\ runs[r].phase = "chained" <=> Begin(r)
      /\ \/ runs'[r].phase \in Ended
         \/ runs'[r].kind = runs[r].kind
         \/ Begin(r) /\ \E phase \in {"waiting", "reading"} : runs'[r] = [Starting(r) EXCEPT !.phase = phase]
         \/ runs[r].kind \in {"refresh", "delta"}
    BY <1>1, StepPhases
<1>3. UNCHANGED <<scope, active, opening, evicting, flushing, day, last, used, answer, wire, rt>>
    BY StepLeaves DEF scopeVars, sessionVars
<1>4. NeverEmptied'
    BY <1>3 DEF FirstOnly, NeverEmptied
<1>5. last # 0
  <2>1. used # 0
    <3>1. runs[r] # NoRun
        BY <1>2 DEF NoRun, Ended
    <3>2. ~(r > used)
        BY <1>1, <3>1 DEF RunsTyped
    <3> QED
        BY <3>2 DEF Runs
  <2> QED
      BY <2>1 DEF FirstOnly, NotYet
<1>6. NotYet'
    BY <1>3, <1>5 DEF NotYet
<1>7. CASE last # 1
    BY <1>3, <1>4, <1>5, <1>6, <1>7 DEF FirstOnly, StillFresh, OneCatchUp
<1>8. CASE last = 1
  <2>1. 1 \in Runs
      BY <1>1, <1>8, FirstIsRun
  <2>2. ASSUME NEW q \in Runs, q # r
        PROVE  /\ runs'[q].phase = runs[q].phase \/ (runs[q].phase = "waiting" /\ runs'[q].phase = "reading")
               /\ runs'[q].kind = runs[q].kind /\ runs'[q].after = runs[q].after
    <3>1. runs[q] \in RunRecord
        BY <1>1 DEF RunsTyped
    <3> QED
        BY <1>2, <2>2, <3>1 DEF Others, RunRecord
  <2>3. \A q \in Runs : runs'[q].phase \notin Ended => runs[q].phase \notin Ended
      BY <1>2, <2>2 DEF Ended
  <2>4. IF r = 1 THEN runs[r].kind \in {"catchup", "first"} ELSE runs[r].kind = "extend"
      BY <1>2, <1>8 DEF FirstOnly, OneCatchUp
  <2>5. \A q \in Runs : runs'[q].phase = "chained" => runs[q].phase = "chained" /\ runs'[q].after = runs[q].after
      BY <1>2, <2>2
  <2>6. runs[1].phase \notin Ended => Fresh(meta) /\ \A m \in stored : Fresh(m)
      BY <1>8 DEF FirstOnly, StillFresh
  <2>7. runs[r].phase \in Begun => runs[r].kind # "catchup"
      BY <1>1 DEF RunsTyped, Sound
  <2>8. /\ runs'[1].phase \notin Ended => Fresh(meta)' /\ \A m \in stored' : Fresh(m)
        /\ ~meta'.loaded => ~meta.loaded /\ Fresh(meta)'
    <3>1. CASE ~Finish(r)
      <4>1. /\ stored' = stored
            /\ meta'.loaded = meta.loaded /\ meta'.complete = meta.complete /\ meta'.next = meta.next
          BY <1>1, <3>1, StepMeta
      <4> QED
          BY <1>8, <2>1, <2>3, <2>6, <4>1 DEF Fresh, FirstOnly, OneCatchUp
    <3>2. CASE Finish(r)
      <4>1. runs[r].phase = "ingested" /\ runs'[r] = [NoRun EXCEPT !.phase = "over"]
          BY <1>1, <3>2, FinishDoes
      <4>2. runs[r].phase \in Begun /\ runs'[r].phase \in Ended
          BY <4>1 DEF Begun, Ended, NoRun
      <4>3. CASE r = 1
        <5>1. runs[r].kind = "first"
            BY <2>4, <2>7, <4>2, <4>3
        <5>2. meta'.loaded
            BY <1>1, <3>2, <5>1 DEF Finish, MetaTyped, MetaRecord
        <5> QED
            BY <4>2, <4>3, <5>2
      <4>4. CASE r # 1
        <5>1. runs[r].kind = "extend" /\ meta.loaded
            BY <1>8, <2>4, <4>2, <4>4 DEF FirstOnly, OneCatchUp
        <5>2. meta'.loaded
            BY <1>1, <3>2, <5>1 DEF Finish, MetaTyped, MetaRecord
        <5>3. runs[1].phase \in Ended
            BY <2>6, <5>1 DEF Fresh
        <5> QED
            BY <2>1, <2>3, <5>2, <5>3
      <4> QED
          BY <4>3, <4>4
    <3> QED
        BY <3>1, <3>2
  <2>9. StillFresh'
      BY <1>3, <1>8, <2>8 DEF StillFresh
  <2>10. ASSUME Begin(r), runs'[r].phase \notin Ended
         PROVE  /\ IF r = 1 THEN runs'[r].kind = "first" ELSE runs'[r].kind = "extend"
                /\ runs'[r].kind = "extend" => meta.loaded
    <3>1. runs'[r] # [NoRun EXCEPT !.phase = "over"]
        BY <2>10 DEF Ended, NoRun
    <3>2. PICK phase \in {"waiting", "reading"} : runs'[r] = [Starting(r) EXCEPT !.phase = phase]
        BY <1>1, <2>10, <3>1, BeginDoes
    <3>3. runs[r] \in RunRecord /\ runs[r].phase = "chained" /\ Starting(r) \in RunRecord
        BY <1>1, <1>2, <2>10, StartingTyped DEF RunsTyped
    <3>4. runs'[r].kind = KindOf(runs[r])
      <4>1. Starting(r).kind = KindOf(runs[r])
          BY <3>3 DEF Starting, RunRecord
      <4> QED
          BY <3>2, <3>3, <4>1 DEF RunRecord
    <3>5. CASE r = 1
      <4>1. ~meta.loaded /\ runs[r].kind # "extend"
          BY <1>2, <2>4, <2>6, <3>5 DEF Fresh
      <4> QED
          BY <3>4, <3>5, <4>1 DEF KindOf
    <3>6. CASE r # 1
      <4>1. runs[r].kind = "extend"
          BY <2>4, <3>6
      <4>2. meta.next # 0
          BY <2>10, <3>1, <4>1, <1>1 DEF Begin, RunsTyped
      <4>3. meta.loaded
          BY <1>8, <4>2 DEF FirstOnly, OneCatchUp, Fresh
      <4> QED
          BY <3>4, <3>6, <4>1, <4>3 DEF KindOf
    <3> QED
        BY <3>5, <3>6
  <2>11. OneCatchUp'
    <3>1. \A q \in Runs : runs'[q].phase \notin Ended
            => IF q = 1 THEN runs'[q].kind \in {"catchup", "first"} ELSE runs'[q].kind = "extend"
      <4> SUFFICES ASSUME NEW q \in Runs, runs'[q].phase \notin Ended
                   PROVE  IF q = 1 THEN runs'[q].kind \in {"catchup", "first"} ELSE runs'[q].kind = "extend"
          OBVIOUS
      <4>1. CASE q = r
          BY <1>2, <2>4, <2>10, <4>1
      <4>2. CASE q # r
          BY <1>8, <2>2, <2>3, <4>2 DEF FirstOnly, OneCatchUp
      <4> QED
          BY <4>1, <4>2
    <3>2. runs'[1].phase = "chained" => runs'[1].after = 0
        BY <1>8, <2>1, <2>5 DEF FirstOnly, OneCatchUp
    <3>3. scope' # "none" /\ (scope' = "restoring" => runs'[1].phase = "chained")
      <4>1. scope # "none"
          BY <1>8 DEF FirstOnly, OneCatchUp
      <4>2. ASSUME scope = "restoring" PROVE runs'[1].phase = "chained"
        <5>1. runs[1].phase = "chained" /\ runs[1].after = 0
            BY <1>8, <4>2 DEF FirstOnly, OneCatchUp
        <5>2. r # 1
            BY <1>2, <4>2, <5>1 DEF Begin
        <5> QED
            BY <2>1, <2>2, <5>1, <5>2
      <4> QED
          BY <1>3, <4>1, <4>2
    <3>4. ASSUME ~meta'.loaded, NEW q \in Runs, runs'[q].phase \in Begun PROVE runs'[q].kind # "extend"
      <4>1. ~meta.loaded /\ \A o \in Runs : runs[o].phase \in Begun => runs[o].kind # "extend"
          BY <1>8, <2>8, <3>4 DEF FirstOnly, OneCatchUp
      <4>2. CASE q # r
          BY <2>2, <3>4, <4>1, <4>2 DEF Begun
      <4>3. CASE q = r /\ Begin(r)
          BY <2>10, <3>4, <4>1, <4>3 DEF Begun, Ended
      <4>4. CASE q = r /\ ~Begin(r)
        <5>1. runs[r].phase \in Begun
          <6>1. runs[r].phase \in Ended \cup Begun \cup {"chained"}
              BY <1>1 DEF RunsTyped, RunRecord
          <6> QED
              BY <1>2, <4>4, <6>1
        <5> QED
            BY <1>2, <2>4, <3>4, <4>1, <4>4, <5>1 DEF Begun, Ended
      <4> QED
          BY <4>2, <4>3, <4>4
    <3> QED
        BY <1>3, <2>8, <3>1, <3>2, <3>3, <3>4 DEF OneCatchUp
  <2> QED
      BY <1>4, <1>6, <2>9, <2>11 DEF FirstOnly
<1> QED
    BY <1>7, <1>8

\* A step that leaves the runs as far as they are, and what the meta says of the device.
LEMMA KeepsFirst ==
    ASSUME TypedIInv, FirstOnly, UNCHANGED <<last, scope>>, NotYet', NeverEmptied',
           \A q \in Runs : /\ runs'[q].phase = runs[q].phase /\ runs'[q].kind = runs[q].kind
                           /\ runs'[q].after = runs[q].after,
           meta'.loaded = meta.loaded, meta'.complete = meta.complete, meta'.next = meta.next,
           stored' \subseteq stored \cup {meta}
    PROVE  FirstOnly'
<1>1. StillFresh'
  <2>1. last = 1 => 1 \in Runs
      BY FirstIsRun
  <2> QED
      BY <2>1 DEF FirstOnly, StillFresh, Fresh
<1>2. OneCatchUp'
  <2>1. last = 1 => 1 \in Runs
      BY FirstIsRun
  <2> QED
      BY <2>1 DEF FirstOnly, OneCatchUp, Fresh
<1> QED
    BY <1>1, <1>2 DEF FirstOnly

\* acquire() begins what there is to begin, once.
LEMMA AcquiresFirst ==
    ASSUME TypedIInv, FirstOnly, NEW h, Acquires(h), NeverEmptied', UNCHANGED <<stored, rt>>
    PROVE  FirstOnly'
<1>1. RunsTyped /\ MetaTyped /\ ScopeTyped
    BY DEF TypedIInv, SyncTyped
<1>2. meta'.loaded = meta.loaded /\ meta'.complete = meta.complete /\ meta'.next = meta.next
    BY <1>1 DEF Acquires, MetaTyped, MetaRecord
<1>3. CASE active
  <2>1. last # 0 /\ UNCHANGED <<last, runs, used>> /\ active'
      BY <1>3 DEF FirstOnly, NotYet, Acquires, runVars
  <2>2. NotYet'
      BY <2>1 DEF NotYet
  <2>3. StillFresh'
      BY <1>2, <2>1 DEF FirstOnly, StillFresh, Fresh
  <2>4. scope # "none" => scope' = scope
      BY DEF Acquires
  <2>5. OneCatchUp'
      BY <1>2, <2>1, <2>4 DEF FirstOnly, OneCatchUp, Fresh
  <2> QED
      BY <2>2, <2>3, <2>5 DEF FirstOnly
<1>4. CASE ~active
  <2>1. /\ Queue(Flag(runs, "old"), "catchup", last) /\ used' = used + 1 /\ last' = used + 1
        /\ used \in Nat /\ used + 1 \in Runs
      BY <1>1, <1>4, SizesAssumption DEF Acquires, Queue, RunsTyped, Runs
  <2>2. NotYet'
      BY <2>1 DEF NotYet
  <2>3. CASE last # 0
    <3>1. last' # 1 /\ last' # 0
        BY <1>1, <2>1, <2>3 DEF ScopeTyped
    <3> QED
        BY <2>2, <3>1 DEF FirstOnly, StillFresh, OneCatchUp
  <2>4. CASE last = 0
    <3>1. used = 0 /\ scope = "none" /\ (\A m \in stored \cup {meta} : Fresh(m)) /\ last' = 1
        BY <2>1, <2>4 DEF FirstOnly, NotYet, StillFresh
    <3>2. /\ \A q \in Runs : q # 1 => runs'[q] = NoRun
          /\ runs'[1] = [NoRun EXCEPT !.phase = "chained", !.kind = "catchup", !.after = 0]
      <4>1. /\ Flag(runs, "old") \in [Runs -> RunRecord]
            /\ \A q \in Runs : q > used => Flag(runs, "old")[q] = NoRun
          BY <1>1, FlagTyped
      <4>2. runs' = [Flag(runs, "old") EXCEPT ![1] = [NoRun EXCEPT !.phase = "chained", !.kind = "catchup",
                                                                 !.after = 0]]
          BY <2>1, <2>4, <3>1 DEF Queue
      <4>3. \A q \in Runs : q > 0
          BY DEF Runs
      <4> QED
          BY <2>1, <3>1, <4>1, <4>2, <4>3
    <3>3. /\ runs'[1].phase = "chained" /\ runs'[1].kind = "catchup" /\ runs'[1].after = 0
          /\ \A q \in Runs : q # 1 => runs'[q].phase = "none"
        BY <3>2 DEF NoRun
    <3>4. \A m \in stored' \cup {meta'} : Fresh(m)
        BY <1>2, <3>1 DEF Fresh
    <3>5. scope' = "restoring"
        BY <3>1 DEF Acquires
    <3>6. StillFresh'
        BY <3>4 DEF StillFresh
    <3>7. OneCatchUp'
        BY <3>1, <3>3, <3>4, <3>5 DEF OneCatchUp, Fresh, Begun, Ended
    <3> QED
        BY <2>2, <3>6, <3>7 DEF FirstOnly
  <2> QED
      BY <2>3, <2>4
<1> QED
    BY <1>3, <1>4

LEMMA OtherFirst ==
    ASSUME FirstIInv, FirstOnly, faults' = 0, [SyncNext]_syncVars, ~\E r \in Runs : Step(r), TypedIInv'
    PROVE  FirstOnly'
<1>1. TypedIInv /\ RunsTyped /\ MetaTyped /\ ScopeTyped /\ SyncTyped
    BY DEF FirstIInv, TypedIInv, SyncTyped
<1>2. faults \in Nat
    BY <1>1, SizesAssumption DEF ScopeTyped
<1>3. ASSUME UNCHANGED runs
      PROVE  \A q \in Runs : /\ runs'[q].phase = runs[q].phase /\ runs'[q].kind = runs[q].kind
                             /\ runs'[q].after = runs[q].after
    BY <1>3
<1>4. ASSUME NEW d \in Docs, NEW version \in 1..MaxVersion, NEW gone \in BOOLEAN, Write(d, version, gone)
      PROVE  FirstOnly'
  <2>1. /\ UNCHANGED <<last, scope, active, sub, used, rt, answer, flushing, evicting, opening, day, meta, stored>>
        /\ (sub = "off" => wire' = wire)
      BY <1>4 DEF Write, scopeVars, sessionVars
  <2>2. NotYet' /\ NeverEmptied'
      BY <2>1 DEF FirstOnly, NotYet, NeverEmptied
  <2>3. ASSUME NEW q \in Runs
        PROVE  /\ runs'[q].phase = runs[q].phase /\ runs'[q].kind = runs[q].kind
               /\ runs'[q].after = runs[q].after
    <3>1. runs[q] \in RunRecord
        BY <1>1 DEF RunsTyped
    <3>2. runs'[q] = IF runs[q].phase \in Begun THEN [runs[q] EXCEPT !.dirty = @ \cup {d}] ELSE runs[q]
        BY <1>4 DEF Write
    <3> QED
        BY <3>1, <3>2 DEF RunRecord
  <2> QED
      BY <1>1, <2>1, <2>2, <2>3, KeepsFirst
<1>5. CASE Answered
  <2>1. /\ UNCHANGED <<last, scope, active, used, runs, rt, wire, flushing, evicting, opening, day, meta, stored>>
        /\ Due \in answer
      BY <1>5 DEF Answered, scopeVars, sessionVars, runVars
  <2>2. last # 0
      BY <2>1 DEF FirstOnly, NotYet
  <2>3. NotYet' /\ NeverEmptied'
      BY <2>1, <2>2 DEF FirstOnly, NotYet, NeverEmptied
  <2> QED
      BY <1>1, <1>3, <2>1, <2>3, KeepsFirst
<1>6. CASE RtTake
  <2>1. /\ UNCHANGED <<last, scope, active, used, runs, flushing, evicting, opening, day, stored>>
        /\ answer # {} \/ wire # <<>>
        /\ \E c : meta' = Advanced(meta, <<c>>) \/ meta' = meta
      BY <1>6 DEF RtTake, scopeVars, sessionVars, runVars
  <2>2. meta'.loaded = meta.loaded /\ meta'.complete = meta.complete /\ meta'.next = meta.next
      BY <1>1, <2>1 DEF Advanced, MetaTyped, MetaRecord
  <2>3. last # 0
      BY <2>1 DEF FirstOnly, NotYet
  <2>4. NotYet' /\ NeverEmptied'
      BY <2>1, <2>3 DEF FirstOnly, NotYet, NeverEmptied
  <2> QED
      BY <1>1, <1>3, <2>1, <2>2, <2>4, KeepsFirst
<1>7. CASE RtStore
  <2>1. /\ UNCHANGED <<last, scope, active, sub, used, runs, answer, wire, flushing, evicting, opening, day, meta>>
        /\ stored' = {meta} /\ rt' = Nothing
      BY <1>7 DEF RtStore, scopeVars, sessionVars, runVars, realtimeVars
  <2>2. NotYet' /\ NeverEmptied'
      BY <2>1 DEF FirstOnly, NotYet, NeverEmptied
  <2> QED
      BY <1>1, <1>3, <2>1, <2>2, KeepsFirst
<1>8. CASE Reconnected
  <2>1. UNCHANGED <<flushing, evicting, opening, day>> /\ sub = "lost" /\ last' = used + 1
      BY <1>8 DEF Reconnected, sessionVars, Queue
  <2>2. used \in Nat /\ last \in 0..used /\ last # 0
      BY <1>1, <2>1 DEF RunsTyped, ScopeTyped, FirstOnly, NotYet
  <2>3. last' # 0 /\ last' # 1
      BY <2>1, <2>2
  <2> QED
      BY <2>1, <2>3 DEF FirstOnly, NotYet, StillFresh, OneCatchUp, NeverEmptied
<1>9. ASSUME NEW h \in Holders, Acquire(h) PROVE FirstOnly'
  <2>1. Acquires(h) /\ UNCHANGED <<stored, rt, flushing, evicting, opening, day>>
      BY <1>9 DEF Acquire, sessionVars
  <2>2. NeverEmptied'
      BY <2>1 DEF FirstOnly, NeverEmptied
  <2> QED
      BY <1>1, <2>1, <2>2, AcquiresFirst
<1>10. ASSUME NEW h \in Holders, Release(h) PROVE FirstOnly'
  <2>1. UNCHANGED <<last, scope, active, sub, used, runs, rt, answer, wire, flushing, evicting, opening, day, meta, stored>>
      BY <1>10 DEF Release, sessionVars, runVars, realtimeVars
  <2>2. NotYet' /\ NeverEmptied'
      BY <2>1 DEF FirstOnly, NotYet, NeverEmptied
  <2> QED
      BY <1>1, <1>3, <2>1, <2>2, KeepsFirst
<1>11. CASE Restored
  <2>1. /\ UNCHANGED <<last, active, sub, used, runs, rt, answer, wire, flushing, evicting, opening, day, stored>>
        /\ scope = "restoring" /\ scope' = "ready"
        /\ meta' = IF stored = {} THEN meta ELSE FromStorage(CHOOSE m \in stored : TRUE)
      BY <1>11 DEF Restored, sessionVars, runVars, realtimeVars
  <2>2. NotYet' /\ NeverEmptied'
      BY <2>1 DEF FirstOnly, NotYet, NeverEmptied
  <2>3. last = 1 => runs[1].phase = "chained"
      BY <2>1 DEF FirstOnly, OneCatchUp
  <2>4. last = 1 => \A m \in stored \cup {meta} : Fresh(m)
      BY <2>3 DEF FirstOnly, StillFresh, Ended
  <2>5. last = 1 => Fresh(meta)'
    <3> SUFFICES ASSUME last = 1 PROVE Fresh(meta)'
        OBVIOUS
    <3>1. CASE stored = {}
        BY <2>1, <2>4, <3>1 DEF Fresh
    <3>2. CASE stored # {}
      <4>1. PICK m \in MetaRecord : stored = {m}
          BY <1>1, <3>2 DEF MetaTyped
      <4>2. (CHOOSE n \in stored : TRUE) = m
          BY <4>1
      <4>3. Fresh(m) /\ meta' = FromStorage(m)
          BY <2>1, <2>4, <3>2, <4>1, <4>2
      <4> QED
          BY <4>1, <4>3 DEF FromStorage, Fresh, MetaRecord
    <3> QED
        BY <3>1, <3>2
  <2>6. last # 0
      BY <2>1 DEF FirstOnly, NotYet
  <2>7. StillFresh'
      BY <2>1, <2>4, <2>5, <2>6 DEF StillFresh
  <2>8. OneCatchUp'
    <3>1. last = 1 => ~meta.loaded
        BY <2>4 DEF Fresh
    <3> QED
        BY <2>1, <2>3, <2>5, <3>1 DEF FirstOnly, OneCatchUp
  <2> QED
      BY <2>2, <2>7, <2>8 DEF FirstOnly
<1>12. CASE KeepEnds
  <2>1. /\ UNCHANGED <<last, scope, used, runs, rt, flushing, evicting, opening, day, meta, stored>>
        /\ \/ UNCHANGED <<active, sub, answer, wire>>
           \/ ~active' /\ sub' = "off" /\ answer' = {} /\ wire' = <<>>
      BY <1>12 DEF KeepEnds, sessionVars, runVars
  <2>2. NotYet' /\ NeverEmptied'
      BY <2>1 DEF FirstOnly, NotYet, NeverEmptied
  <2> QED
      BY <1>1, <1>3, <2>1, <2>2, KeepsFirst
<1>13. CASE Extend
  <2>1. /\ UNCHANGED <<last, scope, flushing, evicting, opening, day, meta, stored>>
        /\ scope # "none" /\ used < MaxRuns /\ used' = used + 1
        /\ runs' = [runs EXCEPT ![used + 1] = [NoRun EXCEPT !.phase = "chained", !.kind = "extend", !.after = last]]
      BY <1>13 DEF Extend, Queue, scopeVars, sessionVars
  <2>2. last # 0
      BY <2>1 DEF FirstOnly, NotYet
  <2>3. NotYet' /\ NeverEmptied'
      BY <2>1, <2>2 DEF FirstOnly, NotYet, NeverEmptied
  <2>4. used + 1 \in Runs /\ used \in Nat /\ last \in 0..used /\ used + 1 # 1
      BY <1>1, <2>1, <2>2, SizesAssumption DEF RunsTyped, ScopeTyped, Runs
  <2>5. /\ runs'[used + 1].phase = "chained" /\ runs'[used + 1].kind = "extend"
        /\ \A q \in Runs : q # used + 1 => runs'[q] = runs[q]
      BY <1>1, <2>1, <2>4 DEF RunsTyped, NoRun
  <2>6. last = 1 => 1 \in Runs
      BY <1>1, FirstIsRun
  <2>7. StillFresh'
      BY <2>1, <2>2, <2>4, <2>5, <2>6 DEF FirstOnly, StillFresh
  <2>8. OneCatchUp'
    <3>1. ASSUME last = 1, NEW q \in Runs
          PROVE  /\ runs'[q].phase \notin Ended
                    => IF q = 1 THEN runs'[q].kind \in {"catchup", "first"} ELSE runs'[q].kind = "extend"
                 /\ runs'[q].phase \in Begun => q # used + 1
        BY <2>4, <2>5, <3>1 DEF FirstOnly, OneCatchUp, Begun
    <3> QED
        BY <2>1, <2>4, <2>5, <2>6, <3>1 DEF FirstOnly, OneCatchUp
  <2> QED
      BY <2>3, <2>7, <2>8 DEF FirstOnly
<1>14. CASE Start
  <2>1. day = 0 /\ evicting = {}
      BY <1>14 DEF Start, FirstOnly, NeverEmptied
  <2>2. ~\E m \in stored : day - m.at > EvictAfter
    <3>1. \A m \in stored : m.at \in Nat
        BY <1>1, SizesAssumption DEF MetaTyped, MetaRecord
    <3> QED
        BY <2>1, <3>1, SizesAssumption
  <2>3. /\ opening' = "over" /\ evicting' = {} /\ UNCHANGED <<stored, rt, flushing, day>>
        /\ Acquires(Persisted) \/ UNCHANGED <<meta, scope, active, sub, answer, wire, runs, used, last>>
      BY <1>14, <2>2 DEF Start, scopeVars, realtimeVars, runVars
  <2>4. NeverEmptied'
      BY <2>3 DEF FirstOnly, NeverEmptied
  <2>5. CASE Acquires(Persisted)
      BY <1>1, <2>3, <2>4, <2>5, AcquiresFirst
  <2>6. CASE UNCHANGED <<meta, scope, active, sub, answer, wire, runs, used, last>>
    <3>1. NotYet'
        BY <2>3, <2>6 DEF FirstOnly, NotYet
    <3> QED
        BY <1>1, <1>3, <2>3, <2>4, <2>6, <3>1, KeepsFirst
  <2> QED
      BY <2>3, <2>5, <2>6
<1>15. CASE Evicted \/ DayPasses \/ UNCHANGED syncVars
  <2>1. /\ UNCHANGED <<last, scope, active, sub, used, runs, rt, answer, wire, flushing, evicting, meta>>
        /\ stored' \in {stored, {}}
        /\ opening' = "over" \/ UNCHANGED <<opening, day>>
      BY <1>15 DEF Evicted, DayPasses, syncVars, scopeVars, sessionVars, runVars, realtimeVars
  <2>2. NotYet' /\ NeverEmptied'
      BY <2>1 DEF FirstOnly, NotYet, NeverEmptied
  <2> QED
      BY <1>1, <1>3, <2>1, <2>2, KeepsFirst
<1>16. ~(\E d \in Docs : Evict(d)) /\ ~Cleared
    BY DEF Evict, Cleared, FirstOnly, NeverEmptied
<1>17. ~(Redeploy \/ Drop \/ FlushStorage \/ Restart)
    BY <1>2 DEF Redeploy, Drop, FlushStorage, Restart
<1> QED
    BY <1>4, <1>5, <1>6, <1>7, <1>8, <1>9, <1>10, <1>11, <1>12, <1>13, <1>14, <1>15, <1>16, <1>17 DEF SyncNext

LEMMA StepSane ==
    ASSUME TypedIInv, Sane, [SyncNext]_syncVars
    PROVE  Sane'
<1>1. ASSUME NEW d \in Docs, NEW version \in 1..MaxVersion, NEW gone \in BOOLEAN, Write(d, version, gone)
      PROVE  Sane'
  <2>1. server' = [server EXCEPT ![d] = [version |-> version, live |-> ~gone]] /\ UNCHANGED answer
      BY <1>1 DEF Write
  <2>2. server'[d].version # 0 /\ \A e \in Docs \ {d} : server'[e] = server[e]
      BY <2>1, SizesAssumption DEF TypedIInv, SyncTyped, ServerTyped
  <2> QED
      BY <2>1, <2>2 DEF Sane
<1>2. ASSUME UNCHANGED server, answer' \in {answer, {}} \/ \E c : answer' = {c}
      PROVE  Sane'
    BY <1>2 DEF Sane
<1>3. ASSUME NEW r \in Runs, Step(r) PROVE Sane'
  <2>1. UNCHANGED <<server, answer>>
      BY <1>3, StepLeaves
  <2> QED
      BY <1>2, <2>1
<1>4. ASSUME NEW h, Acquires(h) PROVE answer' \in {answer, {}} \/ \E c : answer' = {c}
    BY <1>4 DEF Acquires, realtimeVars, Opened
<1>5. CASE Start \/ \E h \in Holders : Acquire(h)
  <2>1. UNCHANGED server /\ (UNCHANGED answer \/ \E h : Acquires(h))
      BY <1>5 DEF Start, Acquire, serverVars, realtimeVars
  <2> QED
      BY <1>2, <1>4, <2>1
<1>6. CASE \/ Redeploy \/ Answered \/ RtTake \/ RtStore \/ Drop \/ Reconnected \/ Restored \/ KeepEnds \/ Extend
           \/ Evicted \/ FlushStorage \/ Cleared \/ Restart \/ DayPasses \/ UNCHANGED syncVars
           \/ (\E h \in Holders : Release(h)) \/ \E d \in Docs : Evict(d)
  <2>1. UNCHANGED server /\ (answer' \in {answer, {}} \/ \E c : answer' = {c})
      BY <1>6 DEF Redeploy, Answered, RtTake, RtStore, Drop, Reconnected, Opened, Restored, KeepEnds, Extend, Evicted,
                  FlushStorage, Cleared, Restart, DayPasses, syncVars, serverVars, realtimeVars, Release, Evict
  <2> QED
      BY <1>2, <2>1
<1> QED
    BY <1>1, <1>3, <1>5, <1>6 DEF SyncNext

LEMMA FaultsGrow ==
    ASSUME TypedIInv, [SyncNext]_syncVars
    PROVE  faults \in Nat /\ faults' \in {faults, faults + 1}
<1>1. faults \in Nat
    BY SizesAssumption DEF TypedIInv, SyncTyped, ScopeTyped
<1>2. ASSUME NEW r \in Runs, Step(r) PROVE faults' = faults
    BY <1>2, StepLeaves DEF sessionVars
<1>3. faults' \in {faults, faults + 1}
    BY <1>2 DEF SyncNext, syncVars, sessionVars, Write, Redeploy, Answered, RtTake, RtStore, Drop, Reconnected,
                Acquire, Release, Restored, KeepEnds, Extend, Start, Evict, Evicted, FlushStorage, Cleared, Restart,
                DayPasses
<1> QED
    BY <1>1, <1>3

LEMMA StepFirst == FirstIInv /\ [SyncNext]_syncVars => FirstIInv'
<1> SUFFICES ASSUME FirstIInv, [SyncNext]_syncVars PROVE FirstIInv'
    OBVIOUS
<1>1. TypedIInv' /\ Sane'
    BY StepTypedIInv, StepSane DEF FirstIInv
<1>2. ASSUME faults' = 0 PROVE FirstOnly'
  <2>1. FirstOnly
      BY <1>2, FaultsGrow DEF FirstIInv
  <2> QED
      BY <1>1, <1>2, <2>1, RunsFirst, OtherFirst
<1> QED
    BY <1>1, <1>2 DEF FirstIInv

LEMMA InitFirst == SyncInit => FirstIInv
<1> SUFFICES ASSUME SyncInit PROVE FirstIInv
    OBVIOUS
<1>1. TypedIInv
    BY InitTypedIInv
<1>2. Sane
  <2>1. \A d \in Docs : server[d].live => server[d].version # 0
      BY DocsAssumption DEF SyncInit
  <2> QED
      BY <2>1 DEF SyncInit, Sane
<1>3. FirstOnly
    BY DEF SyncInit, EmptyMeta, FirstOnly, NotYet, StillFresh, OneCatchUp, NeverEmptied, Fresh
<1> QED
    BY <1>1, <1>2, <1>3 DEF FirstIInv

-----------------------------------------------------------------------------
(* What the scope says of the device *)

\* A document is on the device, or an event on its way adds it.
Coming(d) == device[d] # 0 \/ \E c \in {rt} \cup answer \cup Range(wire) : c.doc = d /\ c.how = "added"

Adds(run, d) == \E c \in Range(run.page) : c.doc = d /\ c.how = "added"

Reaches(run, d) == run.phase \in Begun /\ Reached(run, d)

\* The meta says that it is there.
Shown(d) == meta.complete \/ d <= meta.next

\* A change of a document that is there stores it, or leaves what is stored.
Real(c) ==
    /\ server[c.doc].version # 0
    /\ server[c.doc].live => c.how \in {"added", "modified"} /\ c.version # 0

\* Realtime is asked for before anything was read; what the meta claims, or a run has reached, is there or
\* comes with an event or the page of the run.
HeldNow ==
    /\ \A c \in TheChanges : c.doc \in Docs => Real(c)
    /\ sub = "asked" => \A d \in Docs : ~Shown(d) /\ \A q \in Runs : ~Reaches(runs[q], d)
    /\ \A d \in Docs : server[d].live =>
          /\ Shown(d) => Coming(d)
          /\ \A q \in Runs : Reaches(runs[q], d) => Coming(d) \/ Adds(runs[q], d)

HeldSoFar == last = 1 /\ sub \in {"asked", "on"} => HeldNow

HeldIInv == FirstIInv /\ (faults = 0 => HeldSoFar)

\* The server as a step leaves it: what was written is not unwritten, and no deleted document comes back.
Grows == \A d \in Docs : server[d].version # 0 => server'[d].version # 0 /\ (server'[d].live => server[d].live)

LEMMA HeldGoes ==
    ASSUME TypedIInv, TypedIInv', HeldNow, Grows, NEW r, \A q \in Runs \ {r} : Goes(q),
           \A c \in TheChanges' \ TheChanges : c.doc \in Docs => Real(c)',
           \A d \in Docs : server'[d].live =>
              IF server[d].live
              THEN /\ Coming(d) => Coming(d)'
                   /\ Shown(d)' => Shown(d) \/ Coming(d)'
                   /\ r \in Runs /\ Reaches(runs'[r], d) => Coming(d)' \/ Adds(runs'[r], d)
              ELSE sub' = "asked" \/ Coming(d)',
           sub' = "asked" => /\ sub = "asked"
                             /\ \A d \in Docs : ~Shown(d)' /\ (r \in Runs => ~Reaches(runs'[r], d))
    PROVE  HeldNow'
<1>1. ASSUME NEW q \in Runs \ {r}, NEW d, Reaches(runs'[q], d)
      PROVE  Reaches(runs[q], d) /\ (Adds(runs[q], d) => Adds(runs'[q], d))
  <2>1. Kept(runs[q], runs'[q])
      BY <1>1 DEF Goes, Reaches
  <2> QED
      BY <1>1, <2>1 DEF Kept, Reaches, Reached, HasRead, Adds, Begun
<1>2. \A c \in TheChanges' : c.doc \in Docs => Real(c)'
    BY DEF HeldNow, Real, Grows
<1>3. sub' = "asked" => \A d \in Docs : ~Shown(d)' /\ \A q \in Runs : ~Reaches(runs'[q], d)
    BY <1>1 DEF HeldNow
<1>4. ASSUME NEW d \in Docs, server'[d].live
      PROVE  /\ Shown(d)' => Coming(d)'
             /\ \A q \in Runs : Reaches(runs'[q], d) => Coming(d)' \/ Adds(runs'[q], d)
    BY <1>1, <1>3, <1>4 DEF HeldNow
<1> QED
    BY <1>2, <1>3, <1>4 DEF HeldNow, Reaches, Reached, HasRead, Adds

\* Storing a change of a document that is there leaves it there.
LEMMA StoresHeld ==
    ASSUME TypedIInv, NEW c \in ChangeRecord, Stores(c), Real(c), NEW d \in Docs, server[d].live
    PROVE  /\ device[d] # 0 => device'[d] # 0
           /\ c.doc = d /\ c.how = "added" => device'[d] # 0
<1>1. /\ c.doc \in Docs /\ c.version \in Nat /\ device[c.doc] \in Nat /\ DOMAIN device = Docs
  <2>1. c.doc \in Docs /\ c.version \in 0..MaxVersion
      BY DEF ChangeRecord
  <2> QED
      BY <2>1 DEF TypedIInv, SyncTyped, DeviceTyped
<1> DEFINE v == IF Ignored(c) \/ (c.how = "modified" /\ device[c.doc] = 0) THEN device[c.doc]
                ELSE IF c.how \in {"removed", "tombstone"} THEN 0 ELSE c.version
<1>2. device' = [device EXCEPT ![c.doc] = v]
    BY DEF Stores
<1>3. device'[c.doc] = v /\ (c.doc # d => device'[d] = device[d])
    BY <1>1, <1>2
<1>4. c.doc = d => c.how \in {"added", "modified"} /\ c.version # 0
    BY DEF Real
<1>5. c.doc = d => (v = device[d] /\ (c.how = "added" => device[d] # 0)) \/ (v = c.version /\ c.version # 0)
    BY <1>1, <1>4 DEF Ignored
<1> QED
    BY <1>3, <1>5

\* A step of a run that neither stores anything nor changes what the meta says.
LEMMA RunHeld ==
    ASSUME TypedIInv, TypedIInv', HeldNow, NEW r \in Runs, Others(r), UNCHANGED <<server, device, answer, wire, rt>>,
           meta'.complete = meta.complete, meta'.next = meta.next,
           \A c \in Range(runs'[r].page) \ TheChanges : c.doc \in Docs => Real(c),
           \A d \in Docs : server[d].live /\ Reaches(runs'[r], d) => Coming(d) \/ Adds(runs'[r], d),
           sub' = "asked" => sub = "asked" /\ \A d \in Docs : ~Reaches(runs'[r], d)
    PROVE  HeldNow'
<1>1. \A q \in Runs \ {r} : Goes(q)
    BY OthersGo DEF TypedIInv, SyncTyped
<1>2. TheChanges' \subseteq TheChanges \cup Range(runs'[r].page)
    BY <1>1, RunFlight
<1>3. Grows
    BY DEF Grows
<1>4. \A c \in TheChanges' \ TheChanges : c.doc \in Docs => Real(c)'
    BY <1>2 DEF Real
<1>5. \A d : (Shown(d)' <=> Shown(d)) /\ (Coming(d)' <=> Coming(d))
    BY DEF Shown, Coming
<1>6. sub' = "asked" => \A d \in Docs : ~Shown(d)
    BY DEF HeldNow
<1> QED
    BY <1>1, <1>3, <1>4, <1>5, <1>6, HeldGoes

\* The first load and the extends are no deltas, and delete nothing.
LEMMA FirstKinds ==
    ASSUME TypedIInv, FirstOnly, last = 1, NEW r \in Runs, runs[r].phase \in Begun
    PROVE  runs[r].kind \in {"first", "extend"} /\ runs[r].cursor \in Docs \cup {0} /\ runs[r] \in RunRecord
           /\ Sound(runs[r])
<1>1. runs[r] \in RunRecord /\ Sound(runs[r])
    BY DEF TypedIInv, SyncTyped, RunsTyped
<1>2. IF r = 1 THEN runs[r].kind \in {"catchup", "first"} ELSE runs[r].kind = "extend"
    BY DEF FirstOnly, OneCatchUp, Begun, Ended
<1> QED
    BY <1>1, <1>2 DEF Sound

LEMMA BeginHeld ==
    ASSUME TypedIInv, TypedIInv', HeldNow, NEW r \in Runs, Begin(r)
    PROVE  HeldNow'
<1>1. RunsTyped /\ FlightTyped /\ MetaTyped /\ RunsTyped'
    BY DEF TypedIInv, SyncTyped
<1>2. /\ runs[r].phase = "chained" /\ Others(r)
      /\ \/ runs'[r] = [NoRun EXCEPT !.phase = "over"]
         \/ \E phase \in {"waiting", "reading"} : runs'[r] = [Starting(r) EXCEPT !.phase = phase]
    BY <1>1, BeginDoes
<1>3. UNCHANGED <<server, device, answer, wire, rt, meta, sub>>
    BY DEF Begin, serverVars, realtimeVars
<1>4. runs'[r].page = <<>>
  <2>1. runs'[r].phase \in {"over", "waiting", "reading"}
    <3>1. Starting(r) \in RunRecord
        BY <1>1, <1>2, StartingTyped
    <3> QED
        BY <1>2, <3>1 DEF NoRun, RunRecord
  <2>2. Sound(runs'[r])
      BY <1>1 DEF RunsTyped
  <2> QED
      BY <2>1, <2>2 DEF Sound
<1>5. ASSUME NEW d \in Docs, Reaches(runs'[r], d) PROVE Shown(d)
  <2>1. runs'[r] # [NoRun EXCEPT !.phase = "over"]
      BY <1>5 DEF Reaches, Begun, NoRun
  <2>2. PICK phase \in {"waiting", "reading"} : runs'[r] = [Starting(r) EXCEPT !.phase = phase]
      BY <1>2, <2>1
  <2>3. Starting(r) \in RunRecord /\ runs[r] \in RunRecord
      BY <1>1, <1>2, StartingTyped DEF RunsTyped
  <2>4. Starting(r).cursor \in {0, meta.next}
      BY <2>3 DEF Starting, RunRecord
  <2>5. runs'[r].phase = phase /\ runs'[r].cursor = Starting(r).cursor
      BY <2>2, <2>3 DEF RunRecord
  <2>6. d <= Starting(r).cursor
      BY <1>5, <2>5 DEF Reaches, Reached, HasRead
  <2> QED
      BY <2>4, <2>6, DocsAssumption DEF Shown
<1>6. Range(runs'[r].page) = {}
    BY <1>4 DEF Range
<1> QED
    BY <1>2, <1>3, <1>5, <1>6, RunHeld DEF HeldNow

LEMMA ServerReadsHeld ==
    ASSUME TypedIInv, TypedIInv', Sane, FirstOnly, last = 1, HeldNow, NEW r \in Runs, ServerReads(r)
    PROVE  HeldNow'
<1> DEFINE run == runs[r]
           new == runs'[r]
<1>1. RunsTyped /\ ServerTyped /\ VersionsOnce
    BY DEF TypedIInv, SyncTyped
<1>2. /\ UNCHANGED <<answer, wire, rt, meta>>
      /\ sub' = IF run.cursor = 0 THEN Registered ELSE sub
    BY DEF ServerReads
<1>3. /\ run.phase = "reading" /\ Others(r) /\ UNCHANGED <<server, device>>
      /\ \A c \in Range(new.page) : \E d \in Docs : Matches(run, d) /\ c = Change(d)
      /\ \A d \in Docs : Matches(run, d) /\ Reached(new, Key(run, d)) => Change(d) \in Range(new.page)
    BY <1>1, ReadBrings
<1>4. run.kind \in {"first", "extend"} /\ run.cursor \in Docs \cup {0} /\ Sound(run)
    BY <1>3, FirstKinds DEF Begun
<1>5. Range(run.page) = {}
    BY <1>3, <1>4 DEF Sound, Range
<1> HIDE DEF run, new
<1>10. Docs \subseteq Nat /\ run.cursor \in Nat
  <2>1. Docs \subseteq Nat /\ 0 \in Nat
      BY DocsAssumption
  <2> QED
      BY <1>4, <2>1
<1>6. ASSUME NEW d \in Docs
      PROVE  /\ Matches(run, d) <=> d > run.cursor /\ server[d].live
             /\ Key(run, d) = d
             /\ server[d].live => Real(Change(d)) /\ Change(d).doc = d /\ Change(d).how = "added"
    BY <1>4 DEF Matches, Key, Visible, Change, Real, Sane
<1>7. \A c \in Range(new.page) : Real(c)
    BY <1>3, <1>6
<1>8. ASSUME NEW d \in Docs, server[d].live, Reaches(new, d) PROVE Coming(d) \/ Adds(new, d)
  <2>1. CASE d > run.cursor
    <3>1. Change(d) \in Range(new.page)
        BY <1>3, <1>6, <1>8, <2>1 DEF Reaches
    <3> QED
        BY <1>6, <1>8, <3>1 DEF Adds
  <2>2. CASE ~(d > run.cursor)
    <3>1. d <= run.cursor
        BY <1>10, <2>2
    <3>2. Reaches(run, d)
        BY <1>3, <3>1 DEF Reaches, Reached, Begun
    <3>3. Coming(d) \/ Adds(run, d)
        BY <1>8, <3>2 DEF HeldNow, run
    <3> QED
        BY <1>5, <3>3 DEF Adds
  <2> QED
      BY <2>1, <2>2
<1>9. sub' # "asked"
  <2>1. CASE run.cursor = 0
      BY <1>2, <2>1 DEF Registered
  <2>2. CASE run.cursor # 0
    <3>1. run.cursor \in Docs /\ run.cursor <= run.cursor
        BY <1>4, <1>10, <2>2
    <3>2. Reaches(run, run.cursor)
        BY <1>3, <3>1 DEF Reaches, Reached, Begun
    <3>3. sub # "asked"
        BY <3>1, <3>2 DEF HeldNow, run
    <3> QED
        BY <1>2, <2>2, <3>3
  <2> QED
      BY <2>1, <2>2
<1> QED
    BY <1>2, <1>3, <1>7, <1>8, <1>9, RunHeld DEF new

\* A step after which the run has reached no more than before, and brings what it brought.
LEMMA GoesOnHeld ==
    ASSUME TypedIInv, TypedIInv', FirstOnly, last = 1, HeldNow, NEW r \in Runs,
           Arrives(r) \/ ReadFails(r) \/ NextPage(r)
    PROVE  HeldNow'
<1>1. RunsTyped /\ SlotsIInv /\ RunsTyped'
    BY DEF TypedIInv, SyncTyped
<1>2. UNCHANGED <<server, device, answer, wire, rt, sub>>
    BY DEF Arrives, ReadFails, NextPage, serverVars, realtimeVars
<1>3. meta'.complete = meta.complete /\ meta'.next = meta.next
  <2>1. Step(r) /\ ~Finish(r)
      BY DEF Step, Finish, Arrives, ReadFails, NextPage
  <2> QED
      BY <2>1, StepMeta
<1>4. Others(r)
    BY <1>1, ArrivesDoes, ReadFailsDoes, NextPageDoes
<1>5. \/ runs'[r].phase = "over" /\ runs'[r].page = <<>>
      \/ /\ runs[r].phase \in Begun /\ runs'[r].cursor = runs[r].cursor /\ runs'[r].page = runs[r].page
         /\ runs'[r].more = runs[r].more /\ HasRead(runs[r])
  <2>1. CASE Arrives(r)
    <3>1. runs[r].phase = "answered"
        BY <1>1, <2>1, ArrivesDoes
    <3>2. runs[r].kind # "delta"
        BY <3>1, FirstKinds DEF Begun
    <3> QED
        BY <1>1, <2>1, <3>1, <3>2, ArrivesDoes DEF Begun, HasRead
  <2>2. CASE ReadFails(r)
    <3>1. runs'[r] = [NoRun EXCEPT !.phase = "over"]
        BY <1>1, <2>2, ReadFailsDoes
    <3> QED
        BY <3>1, NoRunTyped
  <2>3. CASE NextPage(r)
    <3>1. /\ runs[r].phase = "ingested"
          /\ \E phase \in {"waiting", "reading"} : runs'[r] = [runs[r] EXCEPT !.phase = phase]
        BY <1>1, <2>3, NextPageDoes
    <3>2. runs[r] \in RunRecord
        BY <1>1 DEF RunsTyped
    <3> QED
        BY <3>1, <3>2 DEF RunRecord, Begun, HasRead
  <2> QED
      BY <2>1, <2>2, <2>3
<1>6. \A d : Reaches(runs'[r], d) => Reaches(runs[r], d) /\ runs'[r].page = runs[r].page
    BY <1>5 DEF Reaches, Reached, Begun
<1>7. Range(runs'[r].page) \subseteq TheChanges
  <2>1. Range(<<>>) = {}
      BY DEF Range
  <2> QED
      BY <1>5, <2>1 DEF TheChanges
<1> QED
    BY <1>2, <1>3, <1>4, <1>6, <1>7, RunHeld DEF HeldNow, Adds

LEMMA IngestHeld ==
    ASSUME TypedIInv, TypedIInv', FirstOnly, last = 1, HeldNow, NEW r \in Runs, Ingest(r)
    PROVE  HeldNow'
<1> DEFINE run == runs[r]
           new == runs'[r]
<1>0. PICK c : c = Head(run.page)
    OBVIOUS
<1>1. RunsTyped
    BY DEF TypedIInv, SyncTyped
<1>2. UNCHANGED <<answer, wire, rt, sub, meta>>
    BY DEF Ingest, realtimeVars
<1>3. /\ run.phase = "ingesting" /\ Others(r) /\ UNCHANGED server
      /\ c \in Range(run.page) /\ c \in ChangeRecord /\ Stores(c)
      /\ Range(run.page) = {c} \cup Range(new.page)
      /\ new.phase \in {"ingesting", "ingested"}
      /\ new.cursor = run.cursor /\ new.more = run.more
    BY <1>0, <1>1, IngestDoes
<1>4. \A q \in Runs \ {r} : Goes(q)
    BY <1>1, <1>3, OthersGo
<1>5. TheChanges' \subseteq TheChanges
  <2>1. TheChanges' \subseteq TheChanges \cup Range(new.page)
      BY <1>2, <1>4, RunFlight
  <2>2. Range(run.page) \subseteq TheChanges
      BY DEF TheChanges
  <2> QED
      BY <1>3, <2>1, <2>2
<1>6. Real(c)
  <2>1. c \in TheChanges /\ c.doc \in Docs
      BY <1>3 DEF TheChanges, ChangeRecord
  <2> QED
      BY <2>1 DEF HeldNow
<1>7. \A d \in Docs : server[d].live => /\ device[d] # 0 => device'[d] # 0
                                        /\ c.doc = d /\ c.how = "added" => device'[d] # 0
    BY <1>3, <1>6, StoresHeld
<1>8. \A d : Reaches(new, d) => Reaches(run, d)
    BY <1>3 DEF Reaches, Reached, HasRead, Begun
<1>9. ASSUME NEW d \in Docs, server[d].live
      PROVE  /\ Coming(d) => Coming(d)'
             /\ Adds(run, d) => Coming(d)' \/ Adds(new, d)
             /\ Shown(d)' => Shown(d)
    BY <1>2, <1>3, <1>7, <1>9 DEF Coming, Adds, Shown
<1>10. \A d : Shown(d)' <=> Shown(d)
    BY <1>2 DEF Shown
<1>11. Grows
    BY <1>3 DEF Grows
<1>12. /\ \A d \in Docs : server[d].live /\ Reaches(run, d) => Coming(d) \/ Adds(run, d)
       /\ sub = "asked" => \A d \in Docs : ~Shown(d) /\ ~Reaches(run, d)
    BY DEF HeldNow
<1> HIDE DEF run
<1>13. /\ \A d \in Docs : server'[d].live =>
              IF server[d].live
              THEN /\ Coming(d) => Coming(d)'
                   /\ Shown(d)' => Shown(d) \/ Coming(d)'
                   /\ r \in Runs /\ Reaches(new, d) => Coming(d)' \/ Adds(new, d)
              ELSE sub' = "asked" \/ Coming(d)'
       /\ sub' = "asked" => /\ sub = "asked"
                            /\ \A d \in Docs : ~Shown(d)' /\ (r \in Runs => ~Reaches(new, d))
    BY <1>2, <1>3, <1>8, <1>9, <1>10, <1>12
<1> QED
    BY <1>4, <1>5, <1>11, <1>13, HeldGoes

\* What the meta says after a run, the run has reached.
LEMMA FinishHeld ==
    ASSUME TypedIInv, TypedIInv', FirstOnly, last = 1, HeldNow, NEW r \in Runs, Finish(r)
    PROVE  HeldNow'
<1> DEFINE run == runs[r]
           new == runs'[r]
<1>1. RunsTyped /\ MetaTyped
    BY DEF TypedIInv, SyncTyped
<1>2. UNCHANGED <<answer, wire, rt, sub, device, server>>
    BY DEF Finish, serverVars
<1>3. run.phase = "ingested" /\ Others(r) /\ new = [NoRun EXCEPT !.phase = "over"]
    BY <1>1, FinishDoes
<1>4. new.phase = "over" /\ new.page = <<>>
    BY <1>3, NoRunTyped
<1>5. \A q \in Runs \ {r} : Goes(q)
    BY <1>1, <1>3, OthersGo
<1>6. TheChanges' \subseteq TheChanges
  <2>1. TheChanges' \subseteq TheChanges \cup Range(new.page)
      BY <1>2, <1>5, RunFlight
  <2>2. Range(new.page) = {}
      BY <1>4 DEF Range
  <2> QED
      BY <2>1, <2>2
<1>7. run.kind \in {"first", "extend"} /\ Range(run.page) = {}
    BY <1>3, FirstKinds DEF Begun, Sound, Range
<1>8. meta'.next = (IF run.more THEN run.cursor ELSE 0) /\ meta'.complete = ~run.more
    BY <1>1, <1>7 DEF Finish, MetaTyped, MetaRecord
<1>9. ASSUME NEW d \in Docs, Shown(d)' PROVE Reaches(run, d)
    BY <1>3, <1>8, <1>9, DocsAssumption DEF Shown, Reaches, Reached, HasRead, Begun
<1>10. /\ \A d \in Docs : server[d].live /\ Reaches(run, d) => Coming(d) \/ Adds(run, d)
       /\ sub = "asked" => \A d \in Docs : ~Reaches(run, d)
    BY DEF HeldNow
<1>11. \A d : ~Reaches(new, d) /\ ~Adds(run, d)
    BY <1>4, <1>7 DEF Reaches, Adds, Begun
<1>12. Grows /\ \A d : Coming(d)' <=> Coming(d)
    BY <1>2 DEF Grows, Coming
<1> HIDE DEF run
<1>13. /\ \A d \in Docs : server'[d].live =>
              IF server[d].live
              THEN /\ Coming(d) => Coming(d)'
                   /\ Shown(d)' => Shown(d) \/ Coming(d)'
                   /\ r \in Runs /\ Reaches(new, d) => Coming(d)' \/ Adds(new, d)
              ELSE sub' = "asked" \/ Coming(d)'
       /\ sub' = "asked" => /\ sub = "asked"
                            /\ \A d \in Docs : ~Shown(d)' /\ (r \in Runs => ~Reaches(new, d))
    BY <1>2, <1>9, <1>10, <1>11, <1>12
<1> QED
    BY <1>5, <1>6, <1>12, <1>13, HeldGoes

LEMMA RunsHeld ==
    ASSUME TypedIInv, TypedIInv', Sane, FirstOnly, last = 1, HeldNow, NEW r \in Runs, Step(r)
    PROVE  HeldNow'
<1>1. ~Prune(r)
    BY FirstKinds DEF Prune, Begun
<1> QED
    BY <1>1, BeginHeld, ServerReadsHeld, GoesOnHeld, IngestHeld, FinishHeld DEF Step

\* A step that leaves alone what is on its way and what is stored.
LEMMA StaysHeld ==
    ASSUME TypedIInv, TypedIInv', HeldNow, \A q \in Runs : Goes(q),
           UNCHANGED <<server, device, answer, wire, rt, sub>>,
           (~meta'.complete /\ meta'.next = 0) \/ (meta'.complete = meta.complete /\ meta'.next = meta.next)
    PROVE  HeldNow'
<1>1. 0 \notin Runs
    BY DEF Runs
<1>2. TheChanges' \subseteq TheChanges
    BY PageGoes DEF TheChanges
<1>3. \A d \in Docs : (Shown(d)' => Shown(d)) /\ (Coming(d) => Coming(d)')
    BY DocsAssumption DEF Shown, Coming
<1>4. Grows
    BY DEF Grows
<1>5. sub' = "asked" => sub = "asked" /\ \A d \in Docs : ~Shown(d)
    BY DEF HeldNow
<1> QED
    BY <1>1, <1>2, <1>3, <1>4, <1>5, HeldGoes

\* A write is told to the scope, or finds it with nothing loaded.
LEMMA WriteHeld ==
    ASSUME TypedIInv, TypedIInv', Sane, HeldNow, sub \in {"asked", "on"},
           NEW d \in Docs, NEW version \in 1..MaxVersion, NEW gone \in BOOLEAN, Write(d, version, gone)
    PROVE  HeldNow'
<1>1. RunsTyped /\ ServerTyped /\ FlightTyped
    BY DEF TypedIInv, SyncTyped
<1>2. /\ UNCHANGED <<answer, rt, sub, meta, device>>
      /\ IF server[d].version = 0 THEN ~gone ELSE server[d].live
      /\ server' = [server EXCEPT ![d] = [version |-> version, live |-> ~gone]]
      /\ IF sub = "on" THEN \E c \in Told(d, version, gone) : wire' = Append(wire, c) ELSE wire' = wire
    BY DEF Write
<1>3. server'[d].version # 0 /\ server'[d].live = ~gone /\ \A e \in Docs \ {d} : server'[e] = server[e]
    BY <1>1, <1>2, SizesAssumption DEF ServerTyped
<1>4. version # 0
    BY SizesAssumption
<1>5. 0 \notin Runs /\ \A q \in Runs : Goes(q)
    BY <1>1, WriteRuns DEF Runs
<1>6. Grows
    BY <1>2, <1>3 DEF Grows
<1>7. ASSUME NEW c \in Told(d, version, gone)
      PROVE  /\ c.doc = d /\ Real(c)'
             /\ ~gone /\ server[d].version = 0 => c.how = "added"
  <2>1. /\ c.doc = d /\ c.version = version
        /\ ~gone => c.how = IF server[d].version = 0 THEN "added" ELSE "modified"
      BY <1>7 DEF Told
  <2> QED
      BY <1>3, <1>4, <2>1 DEF Real
<1>8. ASSUME NEW c, wire' = Append(wire, c) PROVE Range(wire') = Range(wire) \cup {c}
  <2>1. wire \in Seq(ChangeRecord) /\ wire' \in Seq(ChangeRecord)
      BY <1>1 DEF FlightTyped, TypedIInv, SyncTyped
  <2>2. /\ DOMAIN wire' = 1..Len(wire) + 1 /\ DOMAIN wire = 1..Len(wire) /\ Len(wire) \in Nat
        /\ wire'[Len(wire) + 1] = c /\ \A i \in 1..Len(wire) : wire'[i] = wire[i]
      BY <1>8, <2>1
  <2> QED
      BY <2>2 DEF Range
<1>9. \/ sub = "asked" /\ wire' = wire
      \/ sub = "on" /\ \E c \in Told(d, version, gone) : Range(wire') = Range(wire) \cup {c}
    BY <1>2, <1>8
<1>10. \A c \in TheChanges' \ TheChanges : c \in Told(d, version, gone)
  <2>1. \A q \in Runs : Range(runs'[q].page) \subseteq Range(runs[q].page)
      BY <1>5, PageGoes
  <2> QED
      BY <1>2, <1>9, <2>1 DEF TheChanges
<1>11. \A e \in Docs : /\ Coming(e) => Coming(e)'
                       /\ Shown(e)' <=> Shown(e)
    BY <1>2, <1>9 DEF Coming, Shown
<1>12. ASSUME server'[d].live, ~server[d].live PROVE sub' = "asked" \/ Coming(d)'
    BY <1>2, <1>3, <1>7, <1>9, <1>12 DEF Coming
<1>13. sub' = "asked" => sub = "asked" /\ \A e \in Docs : ~Shown(e)
    BY <1>2 DEF HeldNow
<1>14. \A c \in TheChanges' \ TheChanges : c.doc \in Docs => Real(c)'
    BY <1>7, <1>10
<1>15. \A e \in Docs : server'[e].live /\ ~server[e].live => e = d
    BY <1>3
<1> QED
    BY <1>5, <1>6, <1>11, <1>12, <1>13, <1>14, <1>15, HeldGoes

LEMMA AnsweredHeld ==
    ASSUME TypedIInv, TypedIInv', Sane, HeldNow, Answered
    PROVE  HeldNow'
<1>1. /\ UNCHANGED <<server, device, runs, wire, rt, meta>>
      /\ Due \in answer /\ sub' = Registered
      /\ \/ answer' = {}
         \/ \E d \in Docs : /\ server[d].live
                            /\ answer' = {[doc |-> d, version |-> server[d].version, how |-> "added"]}
    BY DEF Answered, serverVars, runVars
<1>2. \A c \in answer : c = Due
    BY <1>1 DEF Sane
<1>3. \A d \in Docs : Coming(d) => Coming(d)'
    BY <1>1, <1>2 DEF Coming, Due
<1>4. \A c \in TheChanges' \ TheChanges : c.doc \in Docs => Real(c)'
    BY <1>1 DEF TheChanges, Real, Sane
<1>5. /\ 0 \notin Runs /\ \A q \in Runs : Goes(q)
      /\ Grows /\ sub' # "asked" /\ \A d \in Docs : Shown(d)' <=> Shown(d)
    BY <1>1 DEF Runs, Goes, Kept, Grows, Registered, Shown
<1> QED
    BY <1>1, <1>3, <1>4, <1>5, HeldGoes

LEMMA RtTakeHeld ==
    ASSUME TypedIInv, TypedIInv', Sane, HeldNow, RtTake
    PROVE  HeldNow'
<1>1. PICK c \in (answer \ {Due}) \cup (IF wire = <<>> THEN {} ELSE {Head(wire)}) :
          /\ IF c \in answer THEN answer' = {} /\ wire' = wire ELSE answer' = answer /\ wire' = Tail(wire)
          /\ rt' = c
          /\ meta' = IF ~first /\ live THEN Advanced(meta, <<c>>) ELSE meta
    BY DEF RtTake
<1>2. rt = Nothing /\ UNCHANGED <<server, device, runs, sub>>
    BY DEF RtTake, serverVars, runVars
<1>3. meta'.complete = meta.complete /\ meta'.next = meta.next
    BY <1>1 DEF Advanced, TypedIInv, SyncTyped, MetaTyped, MetaRecord
<1>4. {rt'} \cup answer' \cup Range(wire') \cup {Nothing} = {rt} \cup answer \cup Range(wire)
  <2>1. CASE c \in answer
    <3>1. answer = {c}
        BY <2>1 DEF Sane
    <3> QED
        BY <1>1, <1>2, <2>1, <3>1
  <2>2. CASE c \notin answer
    <3>1. wire # <<>> /\ c = Head(wire) /\ wire' = Tail(wire) /\ answer' = answer
        BY <1>1, <2>2
    <3>2. Range(wire) = {Head(wire)} \cup Range(Tail(wire))
      <4>1. FlightTyped
          BY DEF TypedIInv, SyncTyped
      <4>2. /\ wire \in Seq(ChangeRecord) /\ Len(wire) \in Nat \ {0} /\ DOMAIN wire = 1..Len(wire)
            /\ DOMAIN Tail(wire) = 1..Len(wire) - 1
            /\ \A i \in 1..Len(wire) - 1 : Tail(wire)[i] = wire[i + 1]
            /\ Head(wire) = wire[1]
          BY <3>1, <4>1 DEF FlightTyped
      <4>3. Range(Tail(wire)) \subseteq Range(wire) /\ Head(wire) \in Range(wire)
          BY <3>1, <4>1, WireTail
      <4>4. ASSUME NEW x \in Range(wire), x # Head(wire) PROVE x \in Range(Tail(wire))
        <5>1. PICK i \in 1..Len(wire) : x = wire[i]
            BY <4>2 DEF Range
        <5>2. i - 1 \in 1..Len(wire) - 1 /\ Tail(wire)[i - 1] = wire[i]
            BY <4>2, <4>4, <5>1
        <5> QED
            BY <4>2, <5>1, <5>2 DEF Range
      <4> QED
          BY <4>3, <4>4
    <3> QED
        BY <1>1, <1>2, <3>1, <3>2
  <2> QED
      BY <2>1, <2>2
<1>5. \A d \in Docs : Coming(d) => Coming(d)'
    BY <1>2, <1>4 DEF Coming, Nothing
<1>6. TheChanges' \subseteq TheChanges
    BY <1>2, <1>4 DEF TheChanges
<1>7. /\ 0 \notin Runs /\ \A q \in Runs : Goes(q)
      /\ Grows /\ \A d \in Docs : Shown(d)' <=> Shown(d)
    BY <1>2, <1>3 DEF Runs, Goes, Kept, Grows, Shown
<1>8. sub' = "asked" => sub = "asked" /\ \A d \in Docs : ~Shown(d)
    BY <1>2 DEF HeldNow
<1> QED
    BY <1>2, <1>5, <1>6, <1>7, <1>8, HeldGoes

LEMMA RtStoreHeld ==
    ASSUME TypedIInv, TypedIInv', HeldNow, RtStore
    PROVE  HeldNow'
<1>1. rt # Nothing /\ Stores(rt) /\ rt' = Nothing /\ UNCHANGED <<server, runs, sub, answer, wire, meta>>
    BY DEF RtStore, serverVars, runVars, realtimeVars
<1>2. rt \in ChangeRecord
    BY <1>1 DEF TypedIInv, SyncTyped, FlightTyped
<1>3. Real(rt)
  <2>1. rt \in TheChanges /\ rt.doc \in Docs
      BY <1>2 DEF TheChanges, ChangeRecord
  <2> QED
      BY <2>1 DEF HeldNow
<1>4. PICK now \in ChangeRecord : now = rt
    BY <1>2
<1>5. \A d \in Docs : server[d].live => /\ device[d] # 0 => device'[d] # 0
                                        /\ rt.doc = d /\ rt.how = "added" => device'[d] # 0
    BY <1>1, <1>3, <1>4, StoresHeld
<1>6. \A d \in Docs : server[d].live /\ Coming(d) => Coming(d)'
    BY <1>1, <1>5 DEF Coming
<1>7. \A c \in TheChanges' \ TheChanges : c.doc \in Docs => Real(c)'
    BY <1>1, DocsAssumption DEF TheChanges, Nothing
<1>8. /\ 0 \notin Runs /\ \A q \in Runs : Goes(q)
      /\ Grows /\ \A d \in Docs : Shown(d)' <=> Shown(d)
    BY <1>1 DEF Runs, Goes, Kept, Grows, Shown
<1>9. sub' = "asked" => sub = "asked" /\ \A d \in Docs : ~Shown(d)
    BY <1>1 DEF HeldNow
<1> QED
    BY <1>1, <1>6, <1>7, <1>8, <1>9, HeldGoes

\* The scope is used for the first time: nothing is loaded, nor on its way.
LEMMA BeginsHeld ==
    ASSUME TypedIInv, TypedIInv', FirstOnly, last = 0, ~active, NEW h, Acquires(h), UNCHANGED rt
    PROVE  HeldNow'
<1>1. RunsTyped /\ ScopeTyped /\ MetaTyped /\ RunsTyped'
    BY DEF TypedIInv, SyncTyped
<1>2. used = 0 /\ rt = Nothing /\ Fresh(meta)
    BY DEF FirstOnly, NotYet, StillFresh
<1>3. answer' = {Due} /\ wire' = <<>> /\ rt' = Nothing
    BY <1>2 DEF Acquires, Opened
<1>4. ~meta'.complete /\ meta'.next = 0
    BY <1>1, <1>2 DEF Acquires, MetaTyped, MetaRecord, Fresh
<1>5. ASSUME NEW q \in Runs PROVE runs'[q].phase \notin Begun
  <2>1. Goes(q)
      BY <1>1, AcquiredRuns DEF ScopeTyped
  <2>2. runs[q] = NoRun
      BY <1>1, <1>2 DEF RunsTyped, Runs
  <2>3. runs[q].phase = "none"
      BY <2>2 DEF NoRun
  <2> QED
      BY <2>1, <2>3 DEF Goes, Kept, Begun
<1>6. \A q \in Runs : Range(runs'[q].page) = {}
    BY <1>1, <1>5 DEF RunsTyped, Sound, Begun, Range
<1>7. \A c \in TheChanges' : c.doc = 0
  <2>1. Range(<<>>) = {}
      BY DEF Range
  <2> QED
      BY <1>3, <1>6, <2>1 DEF TheChanges, Nothing, Due
<1>8. \A d \in Docs : ~Shown(d)' /\ \A q \in Runs : ~Reaches(runs[q], d)'
    BY <1>4, <1>5, DocsAssumption DEF Shown, Reaches
<1> QED
    BY <1>7, <1>8, DocsAssumption DEF HeldNow

LEMMA AcquiresHeld ==
    ASSUME TypedIInv, TypedIInv', FirstOnly, HeldSoFar, NEW h, Acquires(h), UNCHANGED <<server, device, rt>>
    PROVE  HeldSoFar'
<1> SUFFICES ASSUME last' = 1, sub' \in {"asked", "on"} PROVE HeldNow'
    BY DEF HeldSoFar
<1>1. RunsTyped /\ ScopeTyped /\ MetaTyped
    BY DEF TypedIInv, SyncTyped
<1>2. CASE active
  <2>1. UNCHANGED <<runs, last, sub, answer, wire>>
      BY <1>2 DEF Acquires, realtimeVars, runVars
  <2>2. meta'.complete = meta.complete /\ meta'.next = meta.next
      BY <1>1 DEF Acquires, MetaTyped, MetaRecord
  <2>3. HeldNow /\ \A q \in Runs : Goes(q)
      BY <2>1 DEF HeldSoFar, Goes, Kept
  <2> QED
      BY <2>1, <2>2, <2>3, StaysHeld
<1>3. CASE ~active
  <2>1. last' = used + 1 /\ used \in Nat /\ last \in 0..used
      BY <1>1, <1>3 DEF Acquires, Queue, RunsTyped, ScopeTyped
  <2>2. last = 0
      BY <2>1
  <2> QED
      BY <1>3, <2>2, BeginsHeld
<1> QED
    BY <1>2, <1>3

LEMMA StepHeld == HeldIInv /\ [SyncNext]_syncVars => HeldIInv'
<1> SUFFICES ASSUME HeldIInv, [SyncNext]_syncVars, faults' = 0 PROVE HeldSoFar'
    BY StepFirst DEF HeldIInv
<1>1. TypedIInv' /\ FirstOnly /\ HeldSoFar /\ faults = 0
    BY FaultsGrow, StepFirst DEF HeldIInv, FirstIInv
<1>2. TypedIInv /\ Sane /\ RunsTyped /\ ScopeTyped /\ MetaTyped /\ SyncTyped
    BY DEF HeldIInv, FirstIInv, TypedIInv, SyncTyped
<1>3. ASSUME NEW r \in Runs, Step(r) PROVE HeldSoFar'
  <2> SUFFICES ASSUME last' = 1, sub' \in {"asked", "on"} PROVE HeldNow'
      BY DEF HeldSoFar
  <2>1. last = 1
      BY <1>3, StepLeaves
  <2>2. sub \in {"asked", "on"}
    <3>1. sub' \in {sub, Registered}
        BY <1>3 DEF Step, Begin, ServerReads, Arrives, ReadFails, Ingest, NextPage, Prune, Finish, realtimeVars
    <3> QED
        BY <3>1 DEF Registered
  <2>3. HeldNow
      BY <1>1, <2>1, <2>2 DEF HeldSoFar
  <2> QED
      BY <1>1, <1>2, <1>3, <2>1, <2>3, RunsHeld
<1>4. ASSUME NEW d \in Docs, NEW version \in 1..MaxVersion, NEW gone \in BOOLEAN, Write(d, version, gone)
      PROVE  HeldSoFar'
  <2>1. UNCHANGED <<last, sub>>
      BY <1>4 DEF Write
  <2>2. last = 1 /\ sub \in {"asked", "on"} => HeldNow'
      BY <1>1, <1>2, <1>4, WriteHeld DEF HeldSoFar
  <2> QED
      BY <2>1, <2>2 DEF HeldSoFar
<1>5. CASE Answered \/ RtTake \/ RtStore
  <2>1. UNCHANGED last /\ sub' \in {sub, Registered}
      BY <1>5 DEF Answered, RtTake, RtStore, runVars, realtimeVars
  <2>2. sub' \in {"asked", "on"} => sub \in {"asked", "on"}
      BY <2>1 DEF Registered
  <2>3. last = 1 /\ sub \in {"asked", "on"} => HeldNow'
      BY <1>1, <1>2, <1>5, AnsweredHeld, RtTakeHeld, RtStoreHeld DEF HeldSoFar
  <2> QED
      BY <2>1, <2>2, <2>3 DEF HeldSoFar
<1>6. CASE Reconnected
  <2>1. sub = "lost" /\ last' = used + 1
      BY <1>6 DEF Reconnected, Queue
  <2>2. used \in Nat /\ last \in 0..used /\ last # 0
      BY <1>1, <1>2, <2>1 DEF RunsTyped, ScopeTyped, FirstOnly, NotYet
  <2> QED
      BY <2>1, <2>2 DEF HeldSoFar
<1>7. ASSUME NEW h, Acquires(h), UNCHANGED <<server, device, rt>> PROVE HeldSoFar'
    BY <1>1, <1>2, <1>7, AcquiresHeld
<1>8. ASSUME UNCHANGED <<last, runs, server, device, answer, wire, rt, sub, meta>> PROVE HeldSoFar'
  <2>1. \A q \in Runs : Goes(q)
      BY <1>8 DEF Goes, Kept
  <2>2. last = 1 /\ sub \in {"asked", "on"} => HeldNow'
      BY <1>1, <1>2, <1>8, <2>1, StaysHeld DEF HeldSoFar
  <2> QED
      BY <1>8, <2>2 DEF HeldSoFar
<1>9. ASSUME NEW h \in Holders, Acquire(h) PROVE HeldSoFar'
    BY <1>7, <1>9 DEF Acquire, serverVars
<1>10. CASE Start
  <2>1. /\ UNCHANGED <<server, device, rt>>
        /\ Acquires(Persisted) \/ UNCHANGED <<meta, answer, wire, sub, runs, last>>
      BY <1>10 DEF Start, serverVars, realtimeVars, runVars
  <2> QED
      BY <1>7, <1>8, <2>1
<1>11. CASE Evicted \/ DayPasses \/ (UNCHANGED syncVars) \/ \E h \in Holders : Release(h)
  <2>1. UNCHANGED <<last, runs, server, device, answer, wire, rt, sub, meta>>
      BY <1>11 DEF Evicted, DayPasses, Release, syncVars, serverVars, realtimeVars, runVars
  <2> QED
      BY <1>8, <2>1
<1>12. CASE Restored
  <2>1. /\ UNCHANGED <<last, runs, server, device, answer, wire, rt, sub>> /\ scope = "restoring"
        /\ meta' = IF stored = {} THEN meta ELSE FromStorage(CHOOSE m \in stored : TRUE)
      BY <1>12 DEF Restored, serverVars, realtimeVars, runVars
  <2>2. last = 1 => Fresh(meta)'
    <3> SUFFICES ASSUME last = 1 PROVE Fresh(meta)'
        OBVIOUS
    <3>1. \A m \in stored \cup {meta} : Fresh(m)
        BY <1>1, <2>1 DEF FirstOnly, OneCatchUp, StillFresh, Ended
    <3>2. CASE stored = {}
        BY <2>1, <3>1, <3>2 DEF Fresh
    <3>3. CASE stored # {}
      <4>1. PICK m \in MetaRecord : stored = {m}
          BY <1>2, <3>3 DEF MetaTyped
      <4>2. (CHOOSE n \in stored : TRUE) = m
          BY <4>1
      <4>3. Fresh(m) /\ meta' = FromStorage(m)
          BY <2>1, <3>1, <3>3, <4>1, <4>2
      <4> QED
          BY <4>1, <4>3 DEF FromStorage, Fresh, MetaRecord
    <3> QED
        BY <3>2, <3>3
  <2>3. \A q \in Runs : Goes(q)
      BY <2>1 DEF Goes, Kept
  <2>4. last = 1 /\ sub \in {"asked", "on"} => HeldNow'
      BY <1>1, <1>2, <2>1, <2>2, <2>3, StaysHeld DEF HeldSoFar, Fresh
  <2> QED
      BY <2>1, <2>4 DEF HeldSoFar
<1>13. CASE KeepEnds
  <2>1. UNCHANGED <<last, runs, server, device, rt, meta>> /\ (UNCHANGED <<answer, wire, sub>> \/ sub' = "off")
      BY <1>13 DEF KeepEnds, serverVars, runVars
  <2> QED
      BY <1>8, <2>1 DEF HeldSoFar
<1>14. CASE Extend
  <2>1. /\ UNCHANGED <<server, device, answer, wire, rt, sub, meta>> /\ Queue(runs, "extend", last) /\ last' = last
      BY <1>14 DEF Extend, Queue, serverVars, realtimeVars
  <2>2. last \in 0..used /\ last \in 0..used + 1
      BY <1>2 DEF ScopeTyped, RunsTyped
  <2>3. \A q \in Runs : Goes(q)
      BY <1>2, <2>1, <2>2, QueuedRuns
  <2>4. last = 1 /\ sub \in {"asked", "on"} => HeldNow'
      BY <1>1, <1>2, <2>1, <2>3, StaysHeld DEF HeldSoFar
  <2> QED
      BY <2>1, <2>4 DEF HeldSoFar
<1>15. ~(\E d \in Docs : Evict(d)) /\ ~Cleared
    BY <1>1 DEF Evict, Cleared, FirstOnly, NeverEmptied
<1>16. ~(Redeploy \/ Drop \/ FlushStorage \/ Restart)
    BY <1>1 DEF Redeploy, Drop, FlushStorage, Restart
<1> QED
    BY <1>3, <1>4, <1>5, <1>6, <1>9, <1>10, <1>11, <1>12, <1>13, <1>14, <1>15, <1>16 DEF SyncNext

\* completeness() and the window: as long as nothing failed, and realtime was not closed since the first
\* catch-up was queued, every document of a complete scope, or up to where extend() goes on, is on the device
\* or comes with an event that adds it; for any documents, windows, pages, slots and runs.
THEOREM ScopeIsAsTold == SyncSpec => []SyncInv
<1>1. SyncInit => HeldIInv
    BY InitFirst DEF SyncInit, HeldIInv, HeldSoFar
<1>2. HeldIInv => HeldAsTold
  <2> SUFFICES ASSUME HeldIInv, faults = 0, last = 1, sub = "on" PROVE HeldAsTold
      BY DEF HeldAsTold
  <2>1. HeldNow
      BY DEF HeldIInv, HeldSoFar
  <2> QED
      BY <2>1 DEF HeldNow, HeldAsTold, Shown, Coming
<1>3. SyncTypeOK /\ HeldAsTold => SyncInv
    BY DEF SyncInv
<1> QED
    BY <1>1, <1>2, <1>3, StepHeld, SyncTypes, PTL DEF SyncSpec
=============================================================================
