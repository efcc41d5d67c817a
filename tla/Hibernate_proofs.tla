-------------------------- MODULE Hibernate_proofs --------------------------
(***************************************************************************)
(* Proofs about Hibernate for any number of sockets, clients, refs and     *)
(* evictions: the registry in memory is the saved one and nobody in it is  *)
(* stranded, evicted or not; the object implements Subscriptions; and,     *)
(* where closes are reported once and before frames that come later, the   *)
(* newest connection of a client is the one it is reached through.         *)
(***************************************************************************)
EXTENDS Hibernate, TLAPS

USE DEF memoryVars, storageVars, hibernateVars

-----------------------------------------------------------------------------
(* The inductive invariant *)

\* The connection of a client is a socket that is known by that client's id, in
\* memory and in what is attached to it.
Attached ==
    awake => \A c \in Clients : connections[c] # None =>
        /\ known[connections[c]].on /\ known[connections[c]].id = c
        /\ ws[connections[c]].id = c /\ ws[connections[c]].phase # "unused"

\* Whoever is subscribed and not connected has an expiry, whose alarm is set or
\* about to be.
Handed ==
    awake => \A c \in Clients : connections[c] = None /\ RefsIn(subs, c) # {} =>
        expiry[c] # "none" /\ (c \in arming \/ alarm)

\* A socket that was accepted belongs to a client.
Owned == \A s \in Sockets : ws[s].phase # "unused" => ws[s].owner \in Clients

RegistryIInv == HibernateTypeOK /\ RegistryIsSaved /\ Attached /\ Handed /\ Owned

\* A socket that is a connection is one of the sockets.
LEMMA ConnectionIsSocket ==
    ASSUME HibernateTypeOK, NEW c \in Clients, connections[c] # None
    PROVE  connections[c] \in Sockets
BY DEF HibernateTypeOK

\* What a socket record says of its fields.
LEMMA SocketFields ==
    ASSUME HibernateTypeOK, NEW s \in Sockets
    PROVE  /\ ws[s].phase \in {"unused", "open", "cut", "closing", "gone"}
           /\ ws[s].owner \in Clients \cup {None} /\ ws[s].id \in Clients \cup {None}
           /\ ws[s].closes \in 0..MaxCloses
           /\ known[s].on \in BOOLEAN /\ known[s].id \in Clients \cup {None}
           /\ known[s].refs \in SUBSET Refs
BY DEF HibernateTypeOK, SocketStates

\* Two clients never share a connection.
LEMMA ConnectionsDiffer ==
    ASSUME Attached, awake, NEW c \in Clients, NEW d \in Clients, c # d,
           connections[c] # None
    PROVE  connections[c] # connections[d]
BY DEF Attached

-----------------------------------------------------------------------------
(* Each step keeps the types *)

LEMMA HibernateInitType == HibernateInit => RegistryIInv
BY HibernateBoundsAssumption
DEF HibernateInit, RegistryIInv, HibernateTypeOK, RegistryIsSaved, Attached, Handed, Owned,
    SocketStates,    Unused, Unknown, RefsIn

LEMMA AcceptedType ==
    ASSUME NEW c \in Clients
    PROVE  [Unused EXCEPT !.phase = "open", !.owner = c] \in SocketStates
<1>1. Unused \in SocketStates
    BY HibernateBoundsAssumption DEF Unused, SocketStates
<1> QED
    BY <1>1 DEF SocketStates

LEMMA UpgradeType ==
    ASSUME HibernateTypeOK, NEW s \in Sockets, NEW c \in Clients, Upgrade(s, c)
    PROVE  HibernateTypeOK'
<1>1. ws' \in [Sockets -> SocketStates]
  <2>1. ASSUME NEW t \in Sockets
        PROVE  ws'[t] \in SocketStates
    <3>1. CASE t = s
        BY <3>1, AcceptedType DEF Upgrade
    <3>2. CASE t # s
        BY <3>2 DEF Upgrade, HibernateTypeOK, SocketStates
    <3> QED
        BY <3>1, <3>2
  <2> QED
      BY <2>1 DEF Upgrade
<1>2. known' \in [Sockets -> [on : BOOLEAN, id : Clients \cup {None}, refs : SUBSET Refs]]
    BY DEF Upgrade, HibernateTypeOK, Unknown
<1> QED
    BY <1>1, <1>2 DEF Upgrade, HibernateTypeOK

LEMMA GoneType ==
    ASSUME HibernateTypeOK, NEW s \in Sockets, Gone(s)
    PROVE  HibernateTypeOK'
<1>1. PICK told \in {ws[s].closes} \cup {MaxCloses} :
          ws' = [ws EXCEPT ![s].phase = "gone", ![s].closes = told]
    BY DEF Gone
<1>2. told \in 0..MaxCloses
    BY <1>1, SocketFields, HibernateBoundsAssumption
<1>3. ws' \in [Sockets -> SocketStates]
  <2>1. [ws[s] EXCEPT !.phase = "gone", !.closes = told] \in SocketStates
      BY <1>2 DEF HibernateTypeOK, SocketStates
  <2>2. ws' = [ws EXCEPT ![s] = [ws[s] EXCEPT !.phase = "gone", !.closes = told]]
      BY <1>1 DEF HibernateTypeOK
  <2> QED
      BY <2>1, <2>2 DEF HibernateTypeOK
<1> QED
    BY <1>3 DEF Gone, HibernateTypeOK

LEMMA StartType ==
    ASSUME HibernateTypeOK, NEW s \in Sockets, Start(s), ws[s].owner \in Clients
    PROVE  HibernateTypeOK'
<1> DEFINE c == ws[s].owner
           previous == connections[c]
           before == IF previous = None THEN {} ELSE known[previous].refs
<1>1. ws' \in [Sockets -> SocketStates]
    BY DEF Start, HibernateTypeOK, SocketStates
<1>2. before \cup RefsIn(subs, c) \in SUBSET Refs
    BY ConnectionIsSocket, SocketFields DEF RefsIn
<1>3. known' = [t \in Sockets |->
          IF t = s THEN [on |-> TRUE, id |-> c, refs |-> before \cup RefsIn(subs, c)]
          ELSE IF t = previous THEN [known[t] EXCEPT !.id = None] ELSE known[t]]
    BY DEF Start
<1>4. known' \in [Sockets -> [on : BOOLEAN, id : Clients \cup {None}, refs : SUBSET Refs]]
    BY <1>2, <1>3 DEF HibernateTypeOK
<1>5. connections' \in [Clients -> Sockets \cup {None}]
    BY DEF Start, HibernateTypeOK
<1>6. expiry' \in [Clients -> {"none", "waiting", "due"}]
    BY DEF Start, Canceled, HibernateTypeOK
<1> QED
    BY <1>1, <1>4, <1>5, <1>6 DEF Start, HibernateTypeOK

LEMMA DropType ==
    ASSUME HibernateTypeOK, NEW s \in Sockets, Drop(s)
    PROVE  HibernateTypeOK'
<1> DEFINE socket == Wrapped(s)
<1>1. socket.id \in Clients \cup {None}
    BY SocketFields DEF Wrapped
<1>2. ws' \in [Sockets -> SocketStates]
  <2>1. ws[s].closes + 1 \in 0..MaxCloses
      BY SocketFields, HibernateBoundsAssumption DEF Drop, Reports
  <2>2. [ws[s] EXCEPT !.closes = @ + 1] \in SocketStates
      BY <2>1 DEF HibernateTypeOK, SocketStates
  <2>3. ws' = [ws EXCEPT ![s] = [ws[s] EXCEPT !.closes = @ + 1]]
      BY DEF Drop, HibernateTypeOK
  <2> QED
      BY <2>2, <2>3 DEF HibernateTypeOK
<1>3. known' \in [Sockets -> [on : BOOLEAN, id : Clients \cup {None}, refs : SUBSET Refs]]
    BY DEF Drop, HibernateTypeOK, Unknown
<1>4. CASE socket.id = None
    BY <1>2, <1>3, <1>4 DEF Drop, HibernateTypeOK
<1>5. CASE socket.id # None
  <2>1. socket.id \in Clients
      BY <1>1, <1>5
  <2>2. connections' \in [Clients -> Sockets \cup {None}]
      BY <2>1, <1>5 DEF Drop, HibernateTypeOK
  <2>3. arming' \subseteq Clients /\ expiry' \in [Clients -> {"none", "waiting", "due"}]
      BY <2>1, <1>5 DEF Drop, HibernateTypeOK
  <2> QED
      BY <1>2, <1>3, <2>2, <2>3 DEF Drop, HibernateTypeOK
<1> QED
    BY <1>4, <1>5

LEMMA RegisterType ==
    ASSUME HibernateTypeOK, NEW c \in Clients, NEW r \in Refs, Register(c, r)
    PROVE  HibernateTypeOK'
<1>1. connections[c] \in Sockets
    BY ConnectionIsSocket DEF Register
<1>2. known' \in [Sockets -> [on : BOOLEAN, id : Clients \cup {None}, refs : SUBSET Refs]]
    BY <1>1 DEF Register, HibernateTypeOK
<1>3. subs' \in [Refs -> SUBSET Clients] /\ saved' \in [Refs -> SUBSET Clients]
    BY DEF Register, HibernateTypeOK
<1> QED
    BY <1>2, <1>3 DEF Register, HibernateTypeOK

\* Taking a client from some refs.
LEMMA WithoutType ==
    ASSUME NEW map \in [Refs -> SUBSET Clients], NEW c, NEW refs
    PROVE  /\ Without(map, c, refs) \in [Refs -> SUBSET Clients]
           /\ \A d : RefsIn(Without(map, c, refs), d) =
                    IF d = c THEN RefsIn(map, d) \ refs ELSE RefsIn(map, d)
BY DEF Without, RefsIn

LEMMA UnsubscribeType ==
    ASSUME HibernateTypeOK, NEW s \in Sockets, NEW r \in Refs, Unsubscribe(s, r)
    PROVE  HibernateTypeOK'
<1> DEFINE c == known[s].id
<1>1. c \in Clients
    BY SocketFields DEF Unsubscribe
<1>2. subs' \in [Refs -> SUBSET Clients] /\ saved' \in [Refs -> SUBSET Clients]
    BY WithoutType DEF Unsubscribe, HibernateTypeOK
<1>3. known' \in [Sockets -> [on : BOOLEAN, id : Clients \cup {None}, refs : SUBSET Refs]]
  <2>1. CASE connections[c] = None
      BY <2>1 DEF Unsubscribe, HibernateTypeOK
  <2>2. CASE connections[c] # None
    <3>1. known' = [known EXCEPT ![connections[c]].refs = @ \ {r}]
        BY <2>2 DEF Unsubscribe
    <3> QED
        BY <3>1, <2>2, <1>1, ConnectionIsSocket DEF HibernateTypeOK
  <2> QED
      BY <2>1, <2>2
<1> QED
    BY <1>2, <1>3 DEF Unsubscribe, HibernateTypeOK

\* What the alarm leaves of a map, and of each client in it.
LEMMA KeptType ==
    ASSUME NEW map \in [Refs -> SUBSET Clients], NEW S
    PROVE  /\ [r \in Refs |-> map[r] \ S] \in [Refs -> SUBSET Clients]
           /\ \A d : RefsIn([r \in Refs |-> map[r] \ S], d) =
                    IF d \in S THEN {} ELSE RefsIn(map, d)
BY DEF RefsIn

LEMMA AlarmType ==
    ASSUME HibernateTypeOK, Alarm
    PROVE  HibernateTypeOK'
<1>1. subs' \in [Refs -> SUBSET Clients] /\ saved' \in [Refs -> SUBSET Clients]
    BY KeptType DEF Alarm, HibernateTypeOK
<1>2. known' \in [Sockets -> [on : BOOLEAN, id : Clients \cup {None}, refs : SUBSET Refs]]
    BY DEF Alarm, HibernateTypeOK
<1>3. expiry' \in [Clients -> {"none", "waiting", "due"}]
    BY DEF Alarm, HibernateTypeOK
<1> QED
    BY <1>1, <1>2, <1>3 DEF Alarm, HibernateTypeOK

LEMMA EvictType ==
    ASSUME HibernateTypeOK, Evict
    PROVE  HibernateTypeOK'
BY DEF Evict, HibernateTypeOK, Unknown

LEMMA WakeType ==
    ASSUME HibernateTypeOK, Wake
    PROVE  HibernateTypeOK'
<1>1. \A s \in Sockets : RestoredId(s) \in Clients \cup {None}
    BY SocketFields DEF RestoredId
<1>2. known' \in [Sockets -> [on : BOOLEAN, id : Clients \cup {None}, refs : SUBSET Refs]]
    BY <1>1 DEF Wake, RefsIn, Unknown
<1>3. expiry' \in [Clients -> {"none", "waiting", "due"}]
    BY DEF Wake, HibernateTypeOK
<1> QED
    BY <1>2, <1>3 DEF Wake, HibernateTypeOK

-----------------------------------------------------------------------------
(* Each step keeps the registry *)

\* A new socket is nobody's connection.
LEMMA UpgradeRegistry ==
    ASSUME RegistryIInv, NEW s \in Sockets, NEW c \in Clients, Upgrade(s, c)
    PROVE  RegistryIInv'
<1> USE DEF RegistryIInv
<1>1. awake /\ connections' = connections /\ ws[s].phase = "unused"
    BY DEF Upgrade
<1>2. \A d \in Clients : connections[d] # s
    BY <1>1, HibernateNoneAssumption DEF Attached
<1>3. \A t \in Sockets : t # s =>
          known'[t] = known[t] /\ ws'[t].id = ws[t].id /\ ws'[t].owner = ws[t].owner
          /\ (ws'[t].phase = "unused" <=> ws[t].phase = "unused")
    BY DEF Upgrade, HibernateTypeOK, SocketStates
<1>4. RegistryIsSaved' /\ Attached'
    BY <1>1, <1>2, <1>3, ConnectionIsSocket DEF Upgrade, RegistryIsSaved, Attached, RefsIn
<1>5. Handed'
    BY DEF Upgrade, Handed, RefsIn
<1>6. ws'[s].owner = c
    BY DEF Upgrade, Unused
<1>7. Owned'
    BY <1>3, <1>6 DEF Owned
<1> QED
    BY <1>4, <1>5, <1>7, UpgradeType

\* That a connection is gone changes no registry.
LEMMA GoneRegistry ==
    ASSUME RegistryIInv, NEW s \in Sockets, Gone(s)
    PROVE  RegistryIInv'
<1> USE DEF RegistryIInv
<1>1. PICK told \in {ws[s].closes} \cup {MaxCloses} :
          ws' = [ws EXCEPT ![s].phase = "gone", ![s].closes = told]
    BY DEF Gone
<1>2. \A t \in Sockets : /\ ws'[t].id = ws[t].id /\ ws'[t].owner = ws[t].owner
                         /\ ws'[t].phase = "unused" => ws[t].phase = "unused"
    BY <1>1 DEF HibernateTypeOK, SocketStates
<1>3. ws[s].phase # "unused"
    BY DEF Gone, Listed
<1>4. Attached'
  <2>1. UNCHANGED <<awake, known, connections>>
      BY DEF Gone
  <2> QED
      BY <1>2, <2>1, ConnectionIsSocket DEF Attached
<1>5. Owned'
    BY <1>2, <1>3, <1>1 DEF Owned, HibernateTypeOK, SocketStates
<1>6. RegistryIsSaved' /\ Handed'
    BY DEF Gone, RegistryIsSaved, Handed, RefsIn
<1> QED
    BY <1>4, <1>5, <1>6, GoneType

\* A connection that starts takes over what its client holds from the one before.
LEMMA StartRegistry ==
    ASSUME RegistryIInv, NEW s \in Sockets, Start(s)
    PROVE  RegistryIInv'
<1> USE DEF RegistryIInv
<1> DEFINE c == ws[s].owner
           previous == connections[c]
           before == IF previous = None THEN {} ELSE known[previous].refs
<1>1. /\ awake /\ awake' = awake /\ ws[s].id = None /\ ws[s].phase \in {"open", "cut"}
      /\ connections' = [connections EXCEPT ![c] = s]
      /\ UNCHANGED <<subs, saved, arming, alarm>>
      /\ expiry' \in Canceled(c)
    BY DEF Start
<1>2. c \in Clients /\ s # None
    BY <1>1, HibernateNoneAssumption DEF Owned
<1>3. \A d \in Clients : connections[d] # s
    BY <1>1, HibernateNoneAssumption, <1>2 DEF Attached
<1>4. before \cup RefsIn(subs, c) = RefsIn(saved, c)
    BY <1>1, <1>2 DEF RegistryIsSaved
<1>5. known' = [t \in Sockets |->
          IF t = s THEN [on |-> TRUE, id |-> c, refs |-> RefsIn(saved, c)]
          ELSE IF t = previous THEN [known[t] EXCEPT !.id = None] ELSE known[t]]
    BY <1>4 DEF Start
<1>6. /\ ws'[s].id = c /\ ws'[s].phase # "unused"
      /\ \A t \in Sockets : t # s => ws'[t].id = ws[t].id
      /\ \A t \in Sockets : /\ ws'[t].owner = ws[t].owner
                            /\ ws'[t].phase = "unused" => ws[t].phase = "unused"
                            /\ ws[t].phase = "unused" => ws'[t].phase = "unused"
    BY <1>1 DEF Start, HibernateTypeOK, SocketStates, Listed
<1>7. ASSUME NEW d \in Clients, connections'[d] # None
      PROVE  /\ known'[connections'[d]].on /\ known'[connections'[d]].id = d
             /\ ws'[connections'[d]].id = d /\ ws'[connections'[d]].phase # "unused"
             /\ known'[connections'[d]].refs = RefsIn(saved, d)
  <2>1. CASE d = c
      BY <1>1, <1>2, <1>5, <1>6, <2>1 DEF HibernateTypeOK
  <2>2. CASE d # c
    <3>1. connections'[d] = connections[d] /\ connections[d] \in Sockets
        BY <1>1, <1>7, <2>2, ConnectionIsSocket DEF HibernateTypeOK
    <3>2. connections[d] # s /\ connections[d] # previous
        BY <1>1, <1>2, <1>3, <1>7, <2>2, <3>1, ConnectionsDiffer
    <3>3. known'[connections[d]] = known[connections[d]]
        BY <1>5, <3>1, <3>2
    <3> QED
        BY <1>1, <1>6, <1>7, <3>1, <3>2, <3>3 DEF Attached, RegistryIsSaved
  <2> QED
      BY <2>1, <2>2
<1>8. Attached' /\ RegistryIsSaved'
    BY <1>1, <1>7 DEF Attached, RegistryIsSaved, RefsIn
<1>9. Handed'
  <2>1. \A d \in Clients : d # c => expiry'[d] = expiry[d] /\ connections'[d] = connections[d]
      BY <1>1 DEF Canceled, HibernateTypeOK
  <2>2. connections'[c] # None
      BY <1>1, <1>2 DEF HibernateTypeOK
  <2> QED
      BY <1>1, <2>1, <2>2 DEF Handed, RefsIn
<1>10. Owned'
    BY <1>6 DEF Owned
<1> QED
    BY <1>2, <1>8, <1>9, <1>10, StartType

\* A connection that is dropped hands what its client holds to an expiry.
LEMMA DropRegistry ==
    ASSUME RegistryIInv, NEW s \in Sockets, Drop(s)
    PROVE  RegistryIInv'
<1> USE DEF RegistryIInv
<1> DEFINE c == Wrapped(s).id
<1>1. /\ awake /\ awake' = awake /\ UNCHANGED <<subs, saved, alarm>>
      /\ known' = [known EXCEPT ![s] = Unknown]
      /\ ws[s].phase = "gone"
    BY DEF Drop, Reports
<1>2. \A t \in Sockets : /\ ws'[t].id = ws[t].id /\ ws'[t].owner = ws[t].owner
                         /\ ws'[t].phase = ws[t].phase
    BY DEF Drop, HibernateTypeOK, SocketStates
<1>3. \A d \in Clients : connections[d] = s => d = c /\ known[s].on
    BY <1>1, ConnectionIsSocket, HibernateNoneAssumption DEF Attached, Wrapped
<1>4. c \in Clients \cup {None}
    BY SocketFields DEF Wrapped
<1>5. \A d \in Clients : /\ connections'[d] # s
                         /\ connections'[d] # None => connections'[d] = connections[d]
                         /\ d # c => /\ connections'[d] = connections[d] /\ expiry'[d] = expiry[d]
                                     /\ d \in arming => d \in arming'
  <2>1. CASE c = None
      BY <1>3, <1>4, <2>1, HibernateNoneAssumption DEF Drop
  <2>2. CASE c # None
      BY <1>3, <1>4, <2>2, HibernateNoneAssumption DEF Drop, HibernateTypeOK
  <2> QED
      BY <2>1, <2>2
<1>6. Attached' /\ RegistryIsSaved'
    BY <1>1, <1>2, <1>5, ConnectionIsSocket DEF Attached, RegistryIsSaved, RefsIn
<1>7. ASSUME c # None, connections'[c] = None, RefsIn(subs, c) # {}
      PROVE  expiry'[c] # "none" /\ (c \in arming' \/ alarm)
  <2>1. c \in Clients
      BY <1>4, <1>7
  <2>2. CASE Wrapped(s).refs = {}
    <3>1. connections[c] # s
        BY <1>1, <1>7, <2>1, <2>2, HibernateNoneAssumption
        DEF RegistryIsSaved, Attached, Wrapped
    <3>2. known[s].on
        BY <1>7, <2>2 DEF Wrapped
    <3>3. connections[c] = None /\ expiry' = expiry /\ arming' = arming
        BY <1>7, <2>1, <2>2, <3>1, <3>2 DEF Drop
    <3> QED
        BY <1>1, <1>7, <2>1, <3>3 DEF Handed
  <2>3. CASE Wrapped(s).refs # {}
      BY <1>7, <2>1, <2>3 DEF Drop, HibernateTypeOK
  <2> QED
      BY <2>2, <2>3
<1>8. Handed'
    BY <1>1, <1>5, <1>7, <1>4, HibernateNoneAssumption DEF Handed, RefsIn
<1>9. Owned'
    BY <1>2 DEF Owned
<1> QED
    BY <1>6, <1>8, <1>9, DropType

\* A subscription is taken by a client that is connected, and saved.
LEMMA RegisterRegistry ==
    ASSUME RegistryIInv, NEW c \in Clients, NEW r \in Refs, Register(c, r)
    PROVE  RegistryIInv'
<1> USE DEF RegistryIInv
<1> DEFINE s == connections[c]
<1>1. /\ awake /\ awake' = awake /\ s # None /\ s \in Sockets
      /\ UNCHANGED <<ws, connections, arming, expiry, alarm>>
    BY ConnectionIsSocket DEF Register
<1>2. /\ known' = [known EXCEPT ![s].refs = @ \cup {r}]
      /\ subs' = [subs EXCEPT ![r] = @ \cup {c}] /\ saved' = [saved EXCEPT ![r] = @ \cup {c}]
    BY DEF Register
<1>3. \A d \in Clients : /\ RefsIn(saved', d) = RefsIn(saved, d) \cup (IF d = c THEN {r} ELSE {})
                         /\ RefsIn(subs', d) = RefsIn(subs, d) \cup (IF d = c THEN {r} ELSE {})
    BY <1>2 DEF RefsIn, HibernateTypeOK
<1>4. ASSUME NEW d \in Clients, connections[d] # None
      PROVE  /\ known'[connections[d]].on = known[connections[d]].on
             /\ known'[connections[d]].id = known[connections[d]].id
             /\ known'[connections[d]].refs = RefsIn(saved', d)
  <2>1. connections[d] \in Sockets /\ known[connections[d]].refs = RefsIn(saved, d)
      BY <1>1, <1>4, ConnectionIsSocket DEF RegistryIsSaved
  <2>2. CASE d = c
      BY <1>2, <1>3, <2>1, <2>2, SocketFields DEF HibernateTypeOK
  <2>3. CASE d # c
    <3>1. connections[d] # s
        BY <1>1, <1>4, <2>3, ConnectionsDiffer
    <3> QED
        BY <1>2, <1>3, <2>1, <2>3, <3>1 DEF HibernateTypeOK
  <2> QED
      BY <2>2, <2>3
<1>5. Attached'
    BY <1>1, <1>4 DEF Attached
<1>6. subs' = saved'
    BY <1>1, <1>2 DEF RegistryIsSaved
<1>7. RegistryIsSaved'
    BY <1>1, <1>4, <1>6 DEF RegistryIsSaved, RefsIn
<1>8. Handed'
  <2>1. \A d \in Clients : connections[d] = None => RefsIn(subs', d) = RefsIn(subs, d)
      BY <1>1, <1>3
  <2> QED
      BY <1>1, <2>1 DEF Handed, RefsIn
<1>9. Owned'
    BY <1>1 DEF Owned
<1> QED
    BY <1>5, <1>7, <1>8, <1>9, RegisterType

\* An `unsubscribe` takes it from both, and from the client's connection.
LEMMA UnsubscribeRegistry ==
    ASSUME RegistryIInv, NEW s \in Sockets, NEW r \in Refs, Unsubscribe(s, r)
    PROVE  RegistryIInv'
<1> USE DEF RegistryIInv
<1> DEFINE c == known[s].id
<1>1. /\ awake /\ awake' = awake /\ c \in Clients
      /\ UNCHANGED <<ws, connections, arming, expiry, alarm>>
      /\ subs' = Without(subs, c, {r}) /\ saved' = Without(saved, c, {r})
      /\ known' = IF connections[c] = None THEN known
                  ELSE [known EXCEPT ![connections[c]].refs = @ \ {r}]
    BY SocketFields DEF Unsubscribe
<1>2. \A d \in Clients : RefsIn(saved', d) = IF d = c THEN RefsIn(saved, d) \ {r} ELSE RefsIn(saved, d)
    BY <1>1 DEF Without, RefsIn
<1>3. subs' = saved'
    BY <1>1 DEF RegistryIsSaved
<1>4. ASSUME NEW d \in Clients, connections[d] # None
      PROVE  /\ known'[connections[d]].on = known[connections[d]].on
             /\ known'[connections[d]].id = known[connections[d]].id
             /\ known'[connections[d]].refs = RefsIn(saved', d)
  <2>1. connections[d] \in Sockets /\ known[connections[d]].refs = RefsIn(saved, d)
      BY <1>1, <1>4, ConnectionIsSocket DEF RegistryIsSaved
  <2>2. CASE d = c
      BY <1>1, <1>2, <1>4, <2>1, <2>2, SocketFields DEF HibernateTypeOK
  <2>3. CASE d # c
    <3>1. connections[d] # connections[c]
        BY <1>1, <1>4, <2>3, ConnectionsDiffer
    <3>2. known'[connections[d]] = known[connections[d]]
        BY <1>1, <2>1, <3>1, ConnectionIsSocket DEF HibernateTypeOK
    <3> QED
        BY <1>2, <2>1, <2>3, <3>2
  <2> QED
      BY <2>2, <2>3
<1>5. Attached'
    BY <1>1, <1>4 DEF Attached
<1>6. RegistryIsSaved'
    BY <1>1, <1>3, <1>4 DEF RegistryIsSaved, RefsIn
<1>7. Handed'
  <2>1. \A d \in Clients : RefsIn(subs', d) # {} => RefsIn(subs, d) # {}
      BY <1>1, <1>2, <1>3 DEF RegistryIsSaved
  <2> QED
      BY <1>1, <2>1 DEF Handed, RefsIn
<1>8. Owned'
    BY <1>1 DEF Owned
<1> QED
    BY <1>5, <1>6, <1>7, <1>8, UnsubscribeType

\* The alarm detaches only those who are not connected, and finds every orphan.
LEMMA AlarmRegistry ==
    ASSUME RegistryIInv, Alarm
    PROVE  RegistryIInv'
<1> USE DEF RegistryIInv
<1> DEFINE kept(map) == [r \in Refs |-> map[r] \ Expired]
           windows == [c \in Clients |->
              IF connections[c] # None \/ c \in Expired THEN "none"
              ELSE IF expiry[c] = "none" /\ c \in Orphans(kept(subs), connections) THEN "waiting"
              ELSE expiry[c]]
<1>1. /\ awake /\ awake' = awake /\ UNCHANGED <<ws, connections, arming>>
      /\ subs' = kept(subs) /\ saved' = kept(saved)
      /\ expiry' = windows
      /\ alarm' = Rearmed(windows, kept(subs))
    BY DEF Alarm
<1>2. \A c \in Clients : RefsIn(saved', c) = IF c \in Expired THEN {} ELSE RefsIn(saved, c)
    BY <1>1 DEF RefsIn
<1>3. subs' = saved'
    BY <1>1 DEF RegistryIsSaved
<1>4. ASSUME NEW c \in Clients, connections[c] # None
      PROVE  known'[connections[c]] = known[connections[c]] /\ RefsIn(saved', c) = RefsIn(saved, c)
  <2>1. c \notin Expired
      BY <1>4 DEF Expired
  <2>2. known[connections[c]].id = c /\ connections[c] \in Sockets
      BY <1>1, <1>4, ConnectionIsSocket DEF Attached
  <2>3. known'[connections[c]] = known[connections[c]]
      BY <2>1, <2>2 DEF Alarm
  <2> QED
      BY <1>2, <2>1, <2>3
<1>5. Attached'
    BY <1>1, <1>4 DEF Attached
<1>6. RegistryIsSaved'
    BY <1>1, <1>3, <1>4 DEF RegistryIsSaved, RefsIn
<1>7. ASSUME NEW c \in Clients, connections[c] = None, RefsIn(subs', c) # {}
      PROVE  expiry'[c] # "none" /\ alarm'
  <2>1. c \notin Expired
      BY <1>2, <1>3, <1>7
  <2>2. c \in Orphans(kept(subs), connections)
      BY <1>1, <1>7 DEF Orphans
  <2>3. windows[c] # "none"
      BY <1>7, <2>1, <2>2
  <2> QED
      BY <1>1, <2>3 DEF Rearmed
<1>8. Handed'
    BY <1>1, <1>7 DEF Handed, RefsIn
<1>9. Owned'
    BY <1>1 DEF Owned
<1> QED
    BY <1>5, <1>6, <1>8, <1>9, AlarmType

\* What wakes has the registry of the storage, and an expiry for every orphan.
LEMMA WakeRegistry ==
    ASSUME RegistryIInv, Wake
    PROVE  RegistryIInv'
<1> USE DEF RegistryIInv
<1> DEFINE orphans == Orphans(saved, connections')
<1>1. /\ awake' /\ ws' = ws /\ subs' = saved /\ saved' = saved
      /\ known' = [s \in Sockets |->
            IF ~Listed(s) THEN Unknown
            ELSE [on |-> TRUE, id |-> RestoredId(s),
                  refs |-> IF RestoredId(s) = None THEN {} ELSE RefsIn(saved, RestoredId(s))]]
      /\ connections' \in [Clients -> Sockets \cup {None}]
      /\ expiry' = [c \in Clients |-> IF c \in orphans THEN "waiting" ELSE expiry[c]]
      /\ alarm' = (alarm \/ orphans # {})
    BY DEF Wake
<1>2. \A c \in Clients : connections'[c] # None => connections'[c] \in Candidates(c)
    BY DEF Wake
<1>3. ASSUME NEW c \in Clients, connections'[c] # None
      PROVE  LET s == connections'[c] IN
                /\ known'[s].on /\ known'[s].id = c /\ ws[s].id = c /\ ws[s].phase # "unused"
                /\ known'[s].refs = RefsIn(saved, c)
  <2>1. PICK s \in Sockets : s = connections'[c] /\ Listed(s) /\ RestoredId(s) = c
      BY <1>2, <1>3 DEF Candidates
  <2>2. known'[s] = [on |-> TRUE, id |-> c, refs |-> RefsIn(saved, c)]
      BY <1>1, <2>1, HibernateNoneAssumption
  <2> QED
      BY <2>1, <2>2 DEF Listed, RestoredId
<1>4. Attached'
    BY <1>1, <1>3 DEF Attached
<1>5. RegistryIsSaved'
    BY <1>1, <1>3 DEF RegistryIsSaved, RefsIn
<1>6. Handed'
  <2>1. \A c \in Clients : connections'[c] = None /\ RefsIn(saved, c) # {} => c \in orphans
      BY DEF Orphans
  <2> QED
      BY <1>1, <2>1 DEF Handed, RefsIn
<1>7. Owned'
    BY <1>1 DEF Owned
<1> QED
    BY <1>4, <1>5, <1>6, <1>7, WakeType

-----------------------------------------------------------------------------
(* The registry, for ever *)

LEMMA RegistryStep ==
    ASSUME RegistryIInv, [HibernateNext]_hibernateVars
    PROVE  RegistryIInv'
<1>1. ASSUME NEW c \in Clients, Arm(c)
      PROVE  RegistryIInv'
    BY <1>1 DEF Arm, RegistryIInv, HibernateTypeOK, RegistryIsSaved, Attached, Handed, Owned, RefsIn
<1>2. ASSUME NEW c \in Clients, Elapse(c)
      PROVE  RegistryIInv'
    BY <1>2 DEF Elapse, RegistryIInv, HibernateTypeOK, RegistryIsSaved, Attached, Handed, Owned, RefsIn
<1>3. CASE Evict
    BY <1>3, EvictType DEF Evict, RegistryIInv, RegistryIsSaved, Attached, Handed, Owned
<1>4. CASE UNCHANGED hibernateVars
    BY <1>4 DEF RegistryIInv, HibernateTypeOK, RegistryIsSaved, Attached, Handed, Owned, RefsIn
<1> QED
    BY <1>1, <1>2, <1>3, <1>4, UpgradeRegistry, GoneRegistry, StartRegistry, DropRegistry,
       RegisterRegistry, UnsubscribeRegistry, AlarmRegistry, WakeRegistry
    DEF HibernateNext

\* The inductive invariant: what is in memory agrees with the storage and the sockets,
\* and whoever is away is in the hands of an expiry.
THEOREM RegistryInvariance == HibernateSpec => []RegistryIInv
<1>1. HibernateInit => RegistryIInv
    BY HibernateInitType
<1>2. RegistryIInv /\ [HibernateNext]_hibernateVars => RegistryIInv'
    BY RegistryStep
<1> QED
    BY <1>1, <1>2, PTL DEF HibernateSpec

\* "A woken instance rebuilds the same registry", and no subscription in it outlives
\* its client for ever: however often the object is evicted, however often and late
\* the runtime reports a close.
THEOREM RegistrySurvives == HibernateSpec => []RegistryInv
<1>1. RegistryIInv => NobodyIsStranded
    BY DEF RegistryIInv, Handed, NobodyIsStranded
<1>2. RegistryIInv => RegistryInv
    BY <1>1 DEF RegistryIInv, RegistryInv
<1> QED
    BY <1>2, RegistryInvariance, PTL

-----------------------------------------------------------------------------
(* Refinement: the object implements Subscriptions *)

\* What a step may do to the subscriptions of a client.
SubsStep(c) == Subs!ComesOrLeaves(c) \/ Subs!Subscribes(c) \/ Subs!Drops(c) \/ Subs!Forgets(c)

\* A step that leaves the saved map alone leaves everyone's: an eviction, too.
LEMMA SameSaved ==
    ASSUME NEW c \in Clients, saved' = saved
    PROVE  SubsStep(c)
BY DEF SubsStep, Subs!ComesOrLeaves, RefsIn

\* register() subscribes a client that is connected, and nobody else.
LEMMA RegisterSubs ==
    ASSUME HibernateTypeOK, NEW d \in Clients, NEW r \in Refs, Register(d, r), NEW c \in Clients
    PROVE  SubsStep(c)
<1>1. saved' = [saved EXCEPT ![r] = @ \cup {d}] /\ Present(d)
    BY DEF Register, Present
<1>2. RefsIn(saved, c)' = RefsIn(saved, c) \cup (IF c = d THEN {r} ELSE {})
    BY <1>1 DEF RefsIn, HibernateTypeOK
<1> QED
    BY <1>1, <1>2 DEF SubsStep, Subs!ComesOrLeaves, Subs!Subscribes

\* detach() drops one ref of the client of that socket. A socket that outlived its
\* registration (NewestIsConnected) may still ask for it.
LEMMA UnsubscribeSubs ==
    ASSUME RegistryIInv, NEW s \in Sockets, NEW r \in Refs, Unsubscribe(s, r), NEW c \in Clients
    PROVE  SubsStep(c)
<1> DEFINE d == known[s].id
<1>1. /\ awake /\ awake' = awake /\ connections' = connections
      /\ saved' = Without(saved, d, {r}) /\ r \in RefsIn(saved, d)
    BY DEF Unsubscribe, RegistryIInv, RegistryIsSaved
<1>2. RefsIn(saved, c)' = IF c = d THEN RefsIn(saved, c) \ {r} ELSE RefsIn(saved, c)
    BY <1>1 DEF RefsIn, Without
<1>3. CASE c # d
    BY <1>2, <1>3 DEF SubsStep, Subs!ComesOrLeaves
<1>4. CASE c = d /\ connections[c] # None
    BY <1>1, <1>2, <1>4 DEF SubsStep, Subs!Drops, Present
<1>5. CASE c = d /\ connections[c] = None
    BY <1>1, <1>2, <1>5 DEF SubsStep, Subs!Forgets, Present
<1> QED
    BY <1>3, <1>4, <1>5

\* The alarm forgets only clients that are not connected.
LEMMA AlarmSubs ==
    ASSUME Alarm, NEW c \in Clients
    PROVE  SubsStep(c)
<1>1. /\ awake /\ awake' = awake /\ connections' = connections
      /\ saved' = [r \in Refs |-> saved[r] \ Expired]
    BY DEF Alarm
<1>2. RefsIn(saved, c)' = IF c \in Expired THEN {} ELSE RefsIn(saved, c)
    BY <1>1 DEF RefsIn
<1>3. CASE c \in Expired
  <2>1. ~Present(c) /\ ~Present(c)'
      BY <1>1, <1>3 DEF Expired, Present
  <2> QED
      BY <1>2, <1>3, <2>1 DEF SubsStep, Subs!Forgets
<1>4. CASE c \notin Expired
    BY <1>2, <1>4 DEF SubsStep, Subs!ComesOrLeaves
<1> QED
    BY <1>3, <1>4

\* "Alarms survive eviction", and so do subscriptions: the object, evicted between any
\* two events or not, implements Subscriptions.
THEOREM HibernateImplementsSubscriptions == HibernateSpec => HibernateKeepsSubscriptions
<1>1. HibernateInit => Subs!SubsInit
    BY DEF HibernateInit, Subs!SubsInit, Present, RefsIn
<1>2. ASSUME RegistryIInv, [HibernateNext]_hibernateVars
      PROVE  [Subs!SubsNext]_Subs!subsVars
  <2>1. ASSUME NEW c \in Clients
        PROVE  SubsStep(c)
    <3>1. \/ saved' = saved
          \/ \E d \in Clients, r \in Refs : Register(d, r)
          \/ \E s \in Sockets, r \in Refs : Unsubscribe(s, r)
          \/ Alarm
        BY <1>2 DEF HibernateNext, Upgrade, Gone, Start, Drop, Arm, Elapse, Evict, Wake
    <3> QED
        BY <1>2, <3>1, SameSaved, RegisterSubs, UnsubscribeSubs, AlarmSubs DEF RegistryIInv
  <2>2. [c \in Clients |-> Present(c)]' \in [Clients -> BOOLEAN]
      BY <1>2 DEF Present, RegistryIInv
  <2>3. [c \in Clients |-> RefsIn(saved, c)]' \in [Clients -> SUBSET Refs]
      BY DEF RefsIn
  <2> QED
      BY <2>1, <2>2, <2>3 DEF SubsStep, Subs!SubsNext
<1>3. RegistryIInv /\ [HibernateNext]_hibernateVars => [Subs!SubsNext]_Subs!subsVars
    BY <1>2
<1> QED
    BY <1>1, <1>3, RegistryInvariance, PTL
    DEF HibernateSpec, HibernateKeepsSubscriptions, Subs!SubsSpec

-----------------------------------------------------------------------------
(* The newest connection *)

\* A connection that started and was not closed is its client's, and every other of
\* that client is closed by the server or gone; the object knows those whose end is
\* not reported yet.
Newest == \A s \in Sockets :
    ws[s].phase \in {"open", "cut"} /\ ws[s].id # None =>
        /\ awake => connections[ws[s].id] = s
        /\ \A t \in Sockets \ {s} : ws[t].id = ws[s].id =>
              ws[t].phase \in {"closing", "gone"} /\ (Ending(t) => awake /\ known[t].on)

\* No end is reported before the connection is gone, and no id before it is there.
Unreported == \A s \in Sockets : /\ ws[s].phase # "gone" => ws[s].closes = 0
                                 /\ ws[s].phase = "unused" => ws[s].id = None

NewestIInv == RegistryIInv /\ Newest /\ Unreported

LEMMA UnreportedStep ==
    ASSUME HibernateTypeOK, Unreported, [HibernateNext]_hibernateVars
    PROVE  Unreported'
<1>1. ASSUME NEW s \in Sockets, NEW c \in Clients, Upgrade(s, c)
      PROVE  Unreported'
    BY <1>1 DEF Upgrade, Unreported, Unused, HibernateTypeOK, SocketStates
<1>2. ASSUME NEW s \in Sockets, Gone(s)
      PROVE  Unreported'
    BY <1>2 DEF Gone, Listed, Unreported, HibernateTypeOK, SocketStates
<1>3. ASSUME NEW s \in Sockets, Start(s)
      PROVE  Unreported'
    BY <1>3 DEF Start, Listed, Unreported, HibernateTypeOK, SocketStates
<1>4. ASSUME NEW s \in Sockets, Drop(s)
      PROVE  Unreported'
    BY <1>4 DEF Drop, Reports, Unreported, HibernateTypeOK, SocketStates
<1>5. CASE ws' = ws
    BY <1>5 DEF Unreported
<1> QED
    BY <1>1, <1>2, <1>3, <1>4, <1>5
    DEF HibernateNext, Register, Unsubscribe, Arm, Elapse, Alarm, Evict, Wake

\* The new socket of a client has not started.
LEMMA UpgradeNewest ==
    ASSUME NewestIInv, NEW s \in Sockets, NEW c \in Clients, Upgrade(s, c)
    PROVE  Newest'
<1> USE DEF NewestIInv, RegistryIInv
<1>1. /\ awake /\ awake' = awake /\ connections' = connections
      /\ known'[s].on /\ \A t \in Sockets : t # s => known'[t] = known[t]
    BY DEF Upgrade, HibernateTypeOK, Unknown
<1>2. ws'[s].id = None
    BY DEF Upgrade, Unused
<1>3. ASSUME NEW t \in Sockets, t # s
      PROVE  /\ ws'[t].id = ws[t].id /\ ws'[t].closes = ws[t].closes
             /\ ws'[t].phase \in {"open", "cut"} => ws[t].phase \in {"open", "cut"}
             /\ ws[t].phase \in {"closing", "gone"} => ws'[t].phase = ws[t].phase
             /\ Ending(t)' => Ending(t)
    BY <1>3 DEF Upgrade, Ending, HibernateTypeOK, SocketStates
<1> QED
    BY <1>1, <1>2, <1>3 DEF Newest

\* A connection of the client that is gone was closed, and it stays known.
LEMMA GoneNewest ==
    ASSUME NewestIInv, NEW s \in Sockets, Gone(s)
    PROVE  Newest'
<1> USE DEF NewestIInv, RegistryIInv
<1>1. PICK told \in {ws[s].closes, MaxCloses} :
          ws' = [ws EXCEPT ![s].phase = "gone", ![s].closes = told]
    BY DEF Gone
<1>2. UNCHANGED <<awake, connections, known>>
    BY DEF Gone
<1>3. /\ ws'[s].id = ws[s].id /\ ws'[s].phase = "gone"
      /\ \A t \in Sockets : t # s => ws'[t] = ws[t]
    BY <1>1 DEF HibernateTypeOK, SocketStates
<1>4. ws[s].phase = "closing" /\ Ending(s)' => Ending(s)
    BY <1>1, SocketFields, HibernateBoundsAssumption DEF Ending, HibernateTypeOK, SocketStates
<1>5. ASSUME NEW t \in Sockets, ws'[t].phase \in {"open", "cut"}, ws'[t].id # None
      PROVE  /\ awake' => connections'[ws'[t].id] = t
             /\ \A u \in Sockets \ {t} : ws'[u].id = ws'[t].id =>
                    ws'[u].phase \in {"closing", "gone"} /\ (Ending(u)' => awake' /\ known'[u].on)
  <2>1. t # s /\ ws'[t] = ws[t]
      BY <1>3, <1>5
  <2>2. ASSUME NEW u \in Sockets \ {t}, ws'[u].id = ws'[t].id
        PROVE  ws'[u].phase \in {"closing", "gone"} /\ (Ending(u)' => awake' /\ known'[u].on)
    <3>1. ws[u].phase \in {"closing", "gone"} /\ (Ending(u) => awake /\ known[u].on)
        BY <1>3, <1>5, <2>1, <2>2 DEF Newest
    <3>2. CASE u = s
        BY <1>2, <1>3, <1>4, <3>1, <3>2 DEF Gone, Listed
    <3>3. CASE u # s
        BY <1>2, <1>3, <3>1, <3>3 DEF Ending
    <3> QED
        BY <3>2, <3>3
  <2> QED
      BY <1>2, <1>5, <2>1, <2>2 DEF Newest
<1> QED
    BY <1>5 DEF Newest

\* The connection that starts closes the one before; all ends that are not reported
\* yet are of sockets the object knows.
LEMMA StartNewest ==
    ASSUME NewestIInv, ~ClosesLate, NEW s \in Sockets, Start(s)
    PROVE  Newest'
<1> USE DEF NewestIInv, RegistryIInv
<1> DEFINE c == ws[s].owner
           previous == connections[c]
<1>1. /\ awake /\ awake' = awake /\ ws[s].id = None /\ ws[s].phase \in {"open", "cut"}
      /\ connections' = [connections EXCEPT ![c] = s]
      /\ \A t \in Sockets : Ending(t) => known[t].on
      /\ ws' = [t \in Sockets |->
            IF t = s THEN [ws[t] EXCEPT !.id = c]
            ELSE IF t = previous /\ Listed(t) THEN [ws[t] EXCEPT !.phase = "closing"]
            ELSE ws[t]]
    BY DEF Start
<1>2. c \in Clients /\ c # None
    BY <1>1, HibernateNoneAssumption DEF Owned
<1>3. \A t \in Sockets : known[t].on => known'[t].on
    BY DEF Start, HibernateTypeOK
<1>4. previous # None => known[previous].on /\ ws[previous].id = c
    BY <1>1, <1>2 DEF Attached
<1>5. ws'[s].id = c /\ ws'[s].phase = ws[s].phase
    BY <1>1 DEF HibernateTypeOK, SocketStates
<1>6. ASSUME NEW t \in Sockets, t # s
      PROVE  /\ ws'[t].id = ws[t].id
             /\ ws'[t].phase \in {"open", "cut"} => t # previous /\ ws'[t] = ws[t]
             /\ ws'[t] = ws[t] \/ ws'[t].phase = "closing"
             /\ Ending(t)' => known'[t].on
  <2>1. CASE t = previous /\ Listed(t)
      BY <1>1, <1>3, <1>4, <1>6, <2>1, HibernateNoneAssumption DEF HibernateTypeOK, SocketStates
  <2>2. CASE ~(t = previous /\ Listed(t))
    <3>1. ws'[t] = ws[t]
        BY <1>1, <1>6, <2>2
    <3>2. Ending(t)' => Ending(t)
        BY <3>1 DEF Ending
    <3> QED
        BY <1>1, <1>3, <2>2, <3>1, <3>2 DEF Listed
  <2> QED
      BY <2>1, <2>2
<1>7. ASSUME NEW t \in Sockets, ws'[t].phase \in {"open", "cut"}, ws'[t].id # None
      PROVE  /\ connections'[ws'[t].id] = t
             /\ \A u \in Sockets \ {t} : ws'[u].id = ws'[t].id =>
                    ws'[u].phase \in {"closing", "gone"} /\ (Ending(u)' => awake' /\ known'[u].on)
  <2>1. CASE t = s
    <3>1. connections'[c] = s
        BY <1>1, <1>2 DEF HibernateTypeOK
    <3>2. ASSUME NEW u \in Sockets \ {s}, ws[u].id = c
          PROVE  ws'[u].phase \in {"closing", "gone"} /\ (Ending(u)' => known'[u].on)
      <4>1. ws'[u].phase \notin {"open", "cut"}
        <5>1. SUFFICES ASSUME ws'[u].phase \in {"open", "cut"} PROVE FALSE
            OBVIOUS
        <5>2. u # previous /\ ws'[u] = ws[u]
            BY <1>6, <5>1
        <5> QED
            BY <1>1, <1>2, <3>2, <5>1, <5>2 DEF Newest
      <4>2. ws'[u].phase # "unused"
        <5>1. ws[u].phase # "unused"
            BY <1>2, <3>2 DEF Unreported
        <5> QED
            BY <1>6, <5>1
      <4> QED
          BY <4>1, <4>2, <1>6, StartType, <1>2, SocketFields
    <3> QED
        BY <1>1, <1>5, <1>6, <2>1, <3>1, <3>2
  <2>2. CASE t # s
    <3>1. ws'[t] = ws[t] /\ t # previous
        BY <1>6, <1>7, <2>2
    <3>2. connections[ws[t].id] = t
        BY <1>1, <1>7, <3>1 DEF Newest
    <3>3. ws[t].id # c
        BY <3>1, <3>2
    <3>4. ws[t].id \in Clients
        BY <1>7, <3>1, SocketFields
    <3>5. ASSUME NEW u \in Sockets \ {t}, ws'[u].id = ws[t].id
          PROVE  ws'[u].phase \in {"closing", "gone"} /\ (Ending(u)' => known'[u].on)
        BY <1>5, <1>6, <1>7, <3>1, <3>3, <3>5 DEF Newest
    <3> QED
        BY <1>1, <3>1, <3>2, <3>3, <3>4, <3>5 DEF HibernateTypeOK
  <2> QED
      BY <2>1, <2>2
<1> QED
    BY <1>1, <1>7 DEF Newest

\* What is dropped was known, or its client has no other connection.
LEMMA DropNewest ==
    ASSUME NewestIInv, MaxCloses = 1, NEW s \in Sockets, Drop(s)
    PROVE  Newest'
<1> USE DEF NewestIInv, RegistryIInv
<1> DEFINE c == Wrapped(s).id
<1>1. /\ awake /\ awake' = awake /\ ws[s].phase = "gone" /\ ws[s].closes = 0
      /\ known' = [known EXCEPT ![s] = Unknown]
      /\ ws' = [ws EXCEPT ![s].closes = @ + 1]
    BY SocketFields DEF Drop, Reports
<1>2. \A t \in Sockets : ws'[t].id = ws[t].id /\ ws'[t].phase = ws[t].phase
    BY <1>1 DEF HibernateTypeOK, SocketStates
<1>3. ~Ending(s)'
    BY <1>1 DEF Ending, HibernateTypeOK, SocketStates
<1>4. \A t \in Sockets : t # s => (Ending(t)' => Ending(t)) /\ known'[t] = known[t]
    BY <1>1 DEF Ending, HibernateTypeOK
<1>5. ASSUME NEW t \in Sockets, ws[t].phase \in {"open", "cut"}, ws[t].id # None
      PROVE  connections'[ws[t].id] = t
  <2>1. connections[ws[t].id] = t /\ t # s /\ ws[t].id \in Clients
      BY <1>1, <1>5, SocketFields DEF Newest
  <2>2. CASE c # ws[t].id
      BY <1>1, <2>1, <2>2 DEF Drop, HibernateTypeOK
  <2>3. CASE c = ws[t].id
    <3>1. known[s].on
      <4>1. SUFFICES ASSUME ~known[s].on PROVE FALSE
          OBVIOUS
      <4>2. ws[s].id = ws[t].id
          BY <2>3, <4>1 DEF Wrapped
      <4>3. Ending(s)
          BY <1>1, <1>5, <4>2 DEF Ending
      <4> QED
          BY <1>5, <2>1, <4>1, <4>2, <4>3 DEF Newest
    <3> QED
        BY <1>5, <2>1, <2>3, <3>1 DEF Drop
  <2> QED
      BY <2>2, <2>3
<1> QED
    BY <1>1, <1>2, <1>3, <1>4, <1>5 DEF Newest

\* Nobody's end is unreported at an eviction.
LEMMA EvictNewest ==
    ASSUME NewestIInv, ~ClosesLate, Evict
    PROVE  Newest'
<1>1. ws' = ws /\ ~awake' /\ \A s \in Sockets : ~Ending(s)
    BY DEF Evict
<1> QED
    BY <1>1 DEF NewestIInv, Newest, Ending

\* The one candidate for a client's connection is the one that is not closed.
LEMMA WakeNewest ==
    ASSUME NewestIInv, MaxCloses = 1, Wake
    PROVE  Newest'
<1> USE DEF NewestIInv, RegistryIInv
<1>1. ~awake /\ ws' = ws
    BY DEF Wake
<1>2. ASSUME NEW s \in Sockets, ws[s].phase \in {"open", "cut"}, ws[s].id # None
      PROVE  /\ connections'[ws[s].id] = s
             /\ \A t \in Sockets \ {s} : ws[t].id = ws[s].id =>
                    ws[t].phase \in {"closing", "gone"} /\ ~Ending(t)
  <2>1. ASSUME NEW t \in Sockets \ {s}, ws[t].id = ws[s].id
        PROVE  ws[t].phase \in {"closing", "gone"} /\ ~Ending(t)
      BY <1>1, <1>2, <2>1 DEF Newest
  <2>2. ASSUME NEW t \in Sockets \ {s}, ws[t].id = ws[s].id
        PROVE  ~Listed(t)
    <3>1. ws[t].phase \in {"closing", "gone"} /\ ~Ending(t)
        BY <2>1, <2>2
    <3>2. ws[t].phase = "closing" => Ending(t)
        BY <1>2, <2>2 DEF Ending, Unreported
    <3> QED
        BY <3>1, <3>2 DEF Listed
  <2>3. Candidates(ws[s].id) = {s}
      BY <1>2, <2>2 DEF Candidates, RestoredId, Listed
  <2>4. ws[s].id \in Clients
      BY <1>2, SocketFields
  <2>5. connections'[ws[s].id] \in Candidates(ws[s].id)
      BY <2>3, <2>4 DEF Wake
  <2> QED
      BY <2>1, <2>3, <2>5
<1> QED
    BY <1>1, <1>2 DEF Newest, Ending

\* A step that leaves alone the sockets, the connections and who is known.
LEMMA SameNewest ==
    ASSUME NewestIInv, UNCHANGED <<ws, awake, connections>>,
           \A s \in Sockets : known'[s].on = known[s].on
    PROVE  Newest'
BY DEF NewestIInv, Newest, Ending

LEMMA NewestStep ==
    ASSUME MaxCloses = 1, ~ClosesLate, NewestIInv, [HibernateNext]_hibernateVars
    PROVE  NewestIInv'
<1>1. RegistryIInv' /\ Unreported'
    BY RegistryStep, UnreportedStep DEF NewestIInv, RegistryIInv
<1>2. ASSUME NEW c \in Clients, NEW r \in Refs, Register(c, r)
      PROVE  Newest'
    BY <1>2, SameNewest DEF Register, NewestIInv, RegistryIInv, HibernateTypeOK
<1>3. ASSUME NEW s \in Sockets, NEW r \in Refs, Unsubscribe(s, r)
      PROVE  Newest'
    BY <1>3, SameNewest DEF Unsubscribe, NewestIInv, RegistryIInv, HibernateTypeOK
<1>4. ASSUME Alarm
      PROVE  Newest'
  <2>1. /\ UNCHANGED <<ws, awake, connections>>
        /\ \A s \in Sockets : known'[s].on = known[s].on
      BY <1>4 DEF Alarm, NewestIInv, RegistryIInv, HibernateTypeOK
  <2> QED
      BY <2>1, SameNewest
<1>5. ASSUME UNCHANGED <<ws, awake, connections, known>>
      PROVE  Newest'
    BY <1>5, SameNewest
<1>6. ASSUME NEW c \in Clients, Arm(c) \/ Elapse(c)
      PROVE  Newest'
    BY <1>5, <1>6 DEF Arm, Elapse
<1>7. ASSUME UNCHANGED hibernateVars
      PROVE  Newest'
    BY <1>5, <1>7
<1>8. Newest'
    BY <1>2, <1>3, <1>4, <1>6, <1>7, UpgradeNewest, GoneNewest, StartNewest, DropNewest,
       EvictNewest, WakeNewest
    DEF HibernateNext
<1> QED
    BY <1>1, <1>8 DEF NewestIInv

\* "So the newest connection wins": where the runtime reports one end per connection,
\* before any frame that comes later, a client whose connection started is reached
\* through it, in the object that accepted it and in every one built after an eviction.
THEOREM NewestConnectionWins ==
    ASSUME MaxCloses = 1, ~ClosesLate
    PROVE  HibernateSpec => []NewestIsConnected
<1>1. HibernateInit => NewestIInv
    BY HibernateInitType DEF NewestIInv, HibernateInit, Newest, Unreported, Unused
<1>2. NewestIInv /\ [HibernateNext]_hibernateVars => NewestIInv'
    BY NewestStep
<1>3. NewestIInv => NewestIsConnected
    BY DEF NewestIInv, Newest, NewestIsConnected
<1> QED
    BY <1>1, <1>2, <1>3, PTL DEF HibernateSpec
=============================================================================
