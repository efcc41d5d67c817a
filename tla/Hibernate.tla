----------------------------- MODULE Hibernate -----------------------------
(***************************************************************************)
(* The gateway in a Durable Object: packages/core/src/cloudflare           *)
(* (HibernatableWebsocketGateway, and the Worker that registers through    *)
(* CloudflareRealtimePublisher), on top of WebsocketGatewayBase.ts.        *)
(*                                                                         *)
(* The object is evicted from memory while its sockets stay open; the next *)
(* event builds a new one, which restores its registry from the storage    *)
(* and from what is attached to the sockets. The runtime runs no other     *)
(* event while a storage call of a handler is pending, so a handler is a   *)
(* step; the alarm a close sets after its storage write is a step of its   *)
(* own. Principals are left out: every socket of a client has the same.    *)
(***************************************************************************)
EXTENDS Naturals, FiniteSets

CONSTANTS
    Sockets, Clients, Refs,
    None,            \* no client, no socket
    ClosesLate,      \* TRUE: the end of a connection may be reported after an eviction and later frames
    MaxCloses,       \* 2: the runtime reports an error and then the close
    MaxEvictions     \* evictions in a behaviour

ASSUME HibernateNoneAssumption == None \notin Clients /\ None \notin Sockets
ASSUME HibernateSwitchAssumption == ClosesLate \in BOOLEAN
ASSUME HibernateBoundsAssumption == MaxCloses \in Nat \ {0} /\ MaxEvictions \in Nat

VARIABLES
    ws,           \* the runtime's sockets, with what is attached to them
    awake,        \* is there an object in memory
    known,        \* #byWebSocket: the SocketLike of each socket
    connections,  \* _connections
    subs,         \* _subscriptions: the clients of each ref
    arming,       \* the clients whose expiry was written and whose alarm was not
    saved,        \* storage: `sub:` records
    expiry,       \* storage: `expire:` records, by whether their time has come
    alarm,        \* is an alarm set
    evictions

memoryVars == <<known, connections, subs, arming>>
storageVars == <<saved, expiry, alarm>>
hibernateVars == <<ws, awake, memoryVars, storageVars, evictions>>

-----------------------------------------------------------------------------
Unused == [phase |-> "unused", owner |-> None, id |-> None, closes |-> 0]
Unknown == [on |-> FALSE, id |-> None, refs |-> {}]

RefsIn(map, c) == {r \in Refs : c \in map[r]}
Without(map, c, refs) == [r \in Refs |-> IF r \in refs THEN map[r] \ {c} ELSE map[r]]

\* A socket that the server closed is listed until the peer answers.
Listed(s) == ws[s].phase \in {"open", "cut", "closing"}

\* Mutant of Orphans: only the expiries that are stored are looked at.
NoOrphans(map, conns) == {}

\* #orphanedClients: subscribed, and not connected.
Orphans(map, conns) == {c \in Clients : conns[c] = None /\ RefsIn(map, c) # {}}

-----------------------------------------------------------------------------
(* Sockets *)

\* A connection that had started, whose end is not reported yet.
Ending(s) == ws[s].phase \in {"closing", "gone"} /\ ws[s].closes < MaxCloses /\ ws[s].id # None

\* A client opens a connection; it gave its earlier ones up. handleRequest.
Upgrade(s, c) ==
    /\ awake /\ ws[s].phase = "unused"
    /\ ws' = [t \in Sockets |->
          IF t = s THEN [Unused EXCEPT !.phase = "open", !.owner = c]
          ELSE IF ws[t].owner = c /\ ws[t].phase = "open" THEN [ws[t] EXCEPT !.phase = "cut"]
          ELSE ws[t]]
    /\ known' = [known EXCEPT ![s] = [Unknown EXCEPT !.on = TRUE]]
    /\ UNCHANGED <<awake, connections, subs, arming, storageVars, evictions>>

\* The runtime learns that a connection is gone, or that a close is done. Nobody may
\* be told of one that vanished while the object was evicted.
Gone(s) ==
    /\ Listed(s)
    /\ \E told \in {ws[s].closes} \cup (IF awake THEN {} ELSE {MaxCloses}) :
          ws' = [ws EXCEPT ![s].phase = "gone", ![s].closes = told]
    /\ UNCHANGED <<awake, memoryVars, storageVars, evictions>>

\* _cancelDetach: the deletion may fail, "a stale record is harmless".
Canceled(c) == {expiry, [expiry EXCEPT ![c] = "none"]}

\* The `start` frame of a connection. The newest wins: the one before loses its id
\* in memory, but not what is attached to it.
Start(s) ==
    /\ awake /\ ws[s].phase \in {"open", "cut"} /\ ws[s].id = None
    /\ ClosesLate \/ \A t \in Sockets : Ending(t) => known[t].on
    /\ LET c == ws[s].owner
           previous == connections[c]
           before == IF previous = None THEN {} ELSE known[previous].refs
       IN  /\ ws' = [t \in Sockets |->
                 IF t = s THEN [ws[t] EXCEPT !.id = c]
                 ELSE IF t = previous /\ Listed(t) THEN [ws[t] EXCEPT !.phase = "closing"]
                 ELSE ws[t]]
           /\ known' = [t \in Sockets |->
                 IF t = s THEN [on |-> TRUE, id |-> c, refs |-> before \cup RefsIn(subs, c)]
                 ELSE IF t = previous THEN [known[t] EXCEPT !.id = None] ELSE known[t]]
           /\ connections' = [connections EXCEPT ![c] = s]
           /\ expiry' \in Canceled(c)
    /\ UNCHANGED <<awake, subs, arming, saved, alarm, evictions>>

\* #wrap of a socket the object does not know, from what is attached to it.
Wrapped(s) ==
    IF known[s].on THEN known[s]
    ELSE [on |-> TRUE, id |-> ws[s].id, refs |-> IF ws[s].id = None THEN {} ELSE RefsIn(subs, ws[s].id)]

\* Mutant of Reports: a close follows every error.
ReportsBoth(s) == ws[s].phase = "gone" /\ ws[s].closes <= MaxCloses

\* webSocketError, webSocketClose.
Reports(s) == ws[s].phase = "gone" /\ ws[s].closes < MaxCloses

\* #drop: the socket is wrapped first, which may make it its client's connection,
\* and closed; what it held expires after the grace window.
Drop(s) ==
    /\ awake /\ Reports(s)
    /\ ws' = [ws EXCEPT ![s].closes = @ + 1]
    /\ known' = [known EXCEPT ![s] = Unknown]
    /\ LET socket == Wrapped(s)
           c == socket.id
       IN  IF c = None
           THEN UNCHANGED <<connections, expiry, arming>>
           ELSE /\ connections' = IF connections[c] = s \/ ~known[s].on
                                  THEN [connections EXCEPT ![c] = None] ELSE connections
                /\ expiry' = IF socket.refs = {} THEN expiry ELSE [expiry EXCEPT ![c] = "waiting"]
                /\ arming' = IF socket.refs = {} THEN arming ELSE arming \cup {c}
    /\ UNCHANGED <<awake, subs, saved, alarm, evictions>>

\* The alarm is set once the expiry is written.
Arm(c) ==
    /\ c \in arming
    /\ arming' = arming \ {c}
    /\ alarm' = TRUE
    /\ UNCHANGED <<ws, awake, known, connections, subs, saved, expiry, evictions>>

-----------------------------------------------------------------------------
(* Subscriptions *)

\* register(), called by the Worker after an authorized read.
Register(c, r) ==
    /\ awake /\ connections[c] # None
    /\ r \notin RefsIn(subs, c)
    /\ subs' = [subs EXCEPT ![r] = @ \cup {c}]
    /\ known' = [known EXCEPT ![connections[c]].refs = @ \cup {r}]
    /\ saved' = [saved EXCEPT ![r] = @ \cup {c}]
    /\ UNCHANGED <<ws, awake, connections, arming, expiry, alarm, evictions>>

\* Mutant of Unsubscribe: the record stays in the storage.
UnsubscribeInMemory(s, r) ==
    /\ awake /\ ws[s].phase \in {"open", "cut"} /\ known[s].on /\ known[s].id # None
    /\ r \in RefsIn(subs, known[s].id)
    /\ subs' = Without(subs, known[s].id, {r})
    /\ known' = IF connections[known[s].id] = None THEN known
                ELSE [known EXCEPT ![connections[known[s].id]].refs = @ \ {r}]
    /\ UNCHANGED <<ws, awake, connections, arming, saved, expiry, alarm, evictions>>

\* An `unsubscribe` frame drops the client's own subscription: detach().
Unsubscribe(s, r) ==
    /\ awake /\ ws[s].phase \in {"open", "cut"} /\ known[s].on /\ known[s].id # None
    /\ LET c == known[s].id
       IN  /\ r \in RefsIn(subs, c)
           /\ subs' = Without(subs, c, {r})
           /\ saved' = Without(saved, c, {r})
           /\ known' = IF connections[c] = None THEN known
                       ELSE [known EXCEPT ![connections[c]].refs = @ \ {r}]
    /\ UNCHANGED <<ws, awake, connections, arming, expiry, alarm, evictions>>

-----------------------------------------------------------------------------
(* The alarm *)

\* The grace window of a client ends.
Elapse(c) ==
    /\ expiry[c] = "waiting"
    /\ expiry' = [expiry EXCEPT ![c] = "due"]
    /\ UNCHANGED <<ws, awake, memoryVars, saved, alarm, evictions>>

\* Mutants: the alarm is armed only for the expiries it wrote; a client that is back
\* is not looked for.
RearmedForNew(windows, map) == \E c \in Clients : windows[c] # "none" /\ expiry[c] = "none"
ExpiredAnyway == {c \in Clients : expiry[c] = "due"}

Expired == {c \in Clients : expiry[c] = "due" /\ connections[c] = None}

\* The next expiry, or a sweep while subscriptions remain.
Rearmed(windows, map) == (\E c \in Clients : windows[c] # "none") \/ \E r \in Refs : map[r] # {}

\* alarm(): who is back is left alone, whose window is over is detached, and an
\* orphan without an expiry gets one.
Alarm ==
    /\ awake /\ alarm
    /\ LET kept(map) == [r \in Refs |-> map[r] \ Expired]
           windows == [c \in Clients |->
              IF connections[c] # None \/ c \in Expired THEN "none"
              ELSE IF expiry[c] = "none" /\ c \in Orphans(kept(subs), connections) THEN "waiting"
              ELSE expiry[c]]
       IN  /\ subs' = kept(subs) /\ saved' = kept(saved)
           /\ known' = [s \in Sockets |->
                 IF known[s].id \in Expired /\ connections[known[s].id] = s
                 THEN [known[s] EXCEPT !.refs = {}] ELSE known[s]]
           /\ expiry' = windows
           /\ alarm' = Rearmed(windows, kept(subs))
    /\ UNCHANGED <<ws, awake, connections, arming, evictions>>

-----------------------------------------------------------------------------
(* Eviction *)

\* The object leaves the memory, maybe between an expiry and its alarm; its sockets and its storage stay.
Evict ==
    /\ awake /\ evictions < MaxEvictions
    /\ ClosesLate \/ \A s \in Sockets : ~Ending(s)
    /\ awake' = FALSE /\ evictions' = evictions + 1
    /\ known' = [s \in Sockets |-> Unknown]
    /\ connections' = [c \in Clients |-> None]
    /\ subs' = [r \in Refs |-> {}]
    /\ arming' = {}
    /\ UNCHANGED <<ws, storageVars>>

\* Mutant of RestoredId: sockets come back without their identity.
RestoredIdLost(s) == None

RestoredId(s) == ws[s].id

\* The sockets that may have become a client's connection: the last one wrapped.
Candidates(c) == {s \in Sockets : Listed(s) /\ RestoredId(s) = c}

\* The next event builds the object: #restore. Who dropped meanwhile gets a fresh
\* grace window.
Wake ==
    /\ ~awake
    /\ awake' = TRUE
    /\ subs' = saved
    /\ known' = [s \in Sockets |->
          IF ~Listed(s) THEN Unknown
          ELSE [on |-> TRUE, id |-> RestoredId(s),
                refs |-> IF RestoredId(s) = None THEN {} ELSE RefsIn(saved, RestoredId(s))]]
    /\ connections' \in {f \in [Clients -> Sockets \cup {None}] : \A c \in Clients :
          IF Candidates(c) = {} THEN f[c] = None ELSE f[c] \in Candidates(c)}
    /\ LET orphans == Orphans(saved, connections')
       IN  /\ expiry' = [c \in Clients |-> IF c \in orphans THEN "waiting" ELSE expiry[c]]
           /\ alarm' = (alarm \/ orphans # {})
    /\ arming' = {}
    /\ UNCHANGED <<ws, saved, evictions>>

-----------------------------------------------------------------------------
HibernateInit ==
    /\ ws = [s \in Sockets |-> Unused]
    /\ awake = TRUE
    /\ known = [s \in Sockets |-> Unknown]
    /\ connections = [c \in Clients |-> None]
    /\ subs = [r \in Refs |-> {}]
    /\ arming = {}
    /\ saved = [r \in Refs |-> {}]
    /\ expiry = [c \in Clients |-> "none"]
    /\ alarm = FALSE
    /\ evictions = 0

HibernateNext ==
    \/ \E s \in Sockets, c \in Clients : Upgrade(s, c)
    \/ \E s \in Sockets : Gone(s) \/ Start(s) \/ Drop(s)
    \/ \E s \in Sockets, r \in Refs : Unsubscribe(s, r)
    \/ \E c \in Clients, r \in Refs : Register(c, r)
    \/ \E c \in Clients : Arm(c) \/ Elapse(c)
    \/ Alarm \/ Evict \/ Wake

\* Events wake the object: changes come for everyone, closes are reported, an alarm
\* that is set fires.
HibernateFairness ==
    /\ \A s \in Sockets : WF_hibernateVars(ws[s].phase = "cut" /\ Gone(s)) /\ WF_hibernateVars(Drop(s))
    /\ \A c \in Clients : WF_hibernateVars(Arm(c)) /\ WF_hibernateVars(Elapse(c))
    /\ WF_hibernateVars(Alarm)
    /\ WF_hibernateVars(Wake)

HibernateSpec == HibernateInit /\ [][HibernateNext]_hibernateVars /\ HibernateFairness

-----------------------------------------------------------------------------
(* Properties *)

SocketStates == [phase : {"unused", "open", "cut", "closing", "gone"}, owner : Clients \cup {None},
                 id : Clients \cup {None}, closes : 0..MaxCloses]

HibernateTypeOK ==
    /\ ws \in [Sockets -> SocketStates]
    /\ known \in [Sockets -> [on : BOOLEAN, id : Clients \cup {None}, refs : SUBSET Refs]]
    /\ connections \in [Clients -> Sockets \cup {None}]
    /\ subs \in [Refs -> SUBSET Clients] /\ saved \in [Refs -> SUBSET Clients]
    /\ arming \subseteq Clients
    /\ expiry \in [Clients -> {"none", "waiting", "due"}]

\* "A woken instance rebuilds the same registry": while there is an object, its
\* subscriptions are those of the storage, and those of its sockets.
RegistryIsSaved ==
    awake => /\ subs = saved
             /\ \A c \in Clients : connections[c] # None => known[connections[c]].refs = RefsIn(saved, c)

\* "So the newest connection wins": a client whose connection started and is open
\* is reached through it, evicted and restored or not.
NewestIsConnected ==
    awake => \A s \in Sockets :
        ws[s].phase = "open" /\ ws[s].id # None => connections[ws[s].id] = s

\* Who is subscribed and not connected has an expiry or waits for the sweep.
NobodyIsStranded ==
    awake => \A c \in Clients :
        connections[c] = None /\ RefsIn(subs, c) # {} => c \in arming \/ (alarm /\ expiry[c] # "none")

\* The registry in memory is the saved one, and no subscription in it outlives its
\* client for ever, wherever the object was evicted and built again.
RegistryInv == HibernateTypeOK /\ RegistryIsSaved /\ NobodyIsStranded

\* The object, evicted or not, is a gateway as Subscriptions says.
Present(c) ==
    IF awake THEN connections[c] # None ELSE \E s \in Sockets : Listed(s) /\ ws[s].id = c
Subs == INSTANCE Subscriptions WITH
            present <- [c \in Clients |-> Present(c)],
            held <- [c \in Clients |-> RefsIn(saved, c)]

HibernateKeepsSubscriptions == Subs!SubsSpec

\* "Alarms survive eviction": who stays away is detached, whatever is evicted.
HibernateForgets == Subs!Forgotten
=============================================================================
