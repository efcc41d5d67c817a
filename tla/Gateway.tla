------------------------------ MODULE Gateway ------------------------------
(***************************************************************************)
(* The realtime gateway: packages/core/src/WebsocketGatewayBase.ts with    *)
(* the adapters that give it sockets (WebsocketGateway, BunWebsocketGateway*)
(* and EdgeWebsocketGateway).                                              *)
(*                                                                         *)
(* Every handler runs to its end, so a step is a handler. What interleaves *)
(* are the clients' connections, frames and reads, the closes an adapter   *)
(* reports when it learns of them, the setTimeout(0) that sends a change,  *)
(* and the timers of the grace window.                                     *)
(*                                                                         *)
(* One node: peer gateways, link() and close() are left out. The grace     *)
(* window is longer than 0. A change is the number of its publication.     *)
(***************************************************************************)
EXTENDS Naturals, Sequences, FiniteSets

CONSTANTS
    Sockets,       \* connections accepted during a behaviour
    Clients,       \* client ids
    None,          \* no client, no socket
    Collection,    \* the ref of a collection ...
    Documents,     \* ... and the refs of its documents
    Probes,        \* TRUE when the adapter's sockets have isAlive()
    SameObject,    \* TRUE when a socket is one SocketLike from accept to close
    MaxCloses,     \* 2 when an adapter reports an error and then the close
    MissedLimit,   \* MISSED_LIMIT
    MaxChanges     \* changes published in a behaviour

Refs == {Collection} \cup Documents

ASSUME NoneAssumption == None \notin Clients /\ None \notin Sockets
ASSUME CollectionAssumption == Collection \notin Documents
ASSUME AdapterAssumption == Probes \in BOOLEAN /\ SameObject \in BOOLEAN
ASSUME GatewayBoundsAssumption ==
    /\ MaxCloses \in Nat \ {0} /\ MissedLimit \in Nat \ {0} /\ MaxChanges \in Nat

VARIABLES
    sock,         \* per connection: its SocketLike, and the wire under it
    connections,  \* _connections
    subs,         \* _subscriptions
    grace,        \* _pendingDisconnects, with what the timer captured
    missed,       \* _missed
    posted,       \* per socket: frames in a setTimeout(0)
    changes,      \* history: what was published
    got,          \* history: what reached each client
    away          \* history: what was published for a client while it was away

gatewayVars == <<connections, subs, grace, missed>>
historyVars == <<changes, got, away>>
gwVars == <<sock, gatewayVars, posted, historyVars>>

-----------------------------------------------------------------------------
(* Sockets *)

NoSocket == [phase |-> "unused", owner |-> None, id |-> None, refs |-> {},
             wire |-> "none", closes |-> 0]

NoGrace == [on |-> FALSE, refs |-> {}]

\* `isAlive` is optional; without it every socket counts as alive.
Alive(s) == Probes => sock[s].wire # "down"

Connected(c) == connections[c] # None /\ Alive(connections[c])

\* What the map of subscriptions says a client listens to.
RefsOf(c) == {r \in Refs : c \in subs[r]}

\* A client opens a connection; it gave its earlier ones up. onConnection.
Accept(s, c) ==
    /\ sock[s].phase = "unused"
    /\ sock' = [t \in Sockets |->
          IF t = s THEN [NoSocket EXCEPT !.phase = "accepted", !.owner = c, !.wire = "up"]
          ELSE IF sock[t].owner = c /\ sock[t].wire = "up" THEN [sock[t] EXCEPT !.wire = "cut"]
          ELSE sock[t]]
    /\ UNCHANGED <<gatewayVars, posted, historyVars>>

\* The peer is gone and nobody knows (a half-open connection) ...
PeerGone(s) ==
    /\ sock[s].wire = "up"
    /\ sock' = [sock EXCEPT ![s].wire = "cut"]
    /\ UNCHANGED <<gatewayVars, posted, historyVars>>

\* ... until the runtime notices: readyState is no longer OPEN.
Noticed(s) ==
    /\ sock[s].wire \in {"up", "cut"}
    /\ sock' = [sock EXCEPT ![s].wire = "down"]
    /\ UNCHANGED <<gatewayVars, posted, historyVars>>

-----------------------------------------------------------------------------
(* _onStart *)

\* Mutant of Resumed: a reconnect inside the grace window starts with no refs.
ResumedEmpty(c) ==
    IF connections[c] # None THEN sock[connections[c]].refs ELSE {}

\* The refs of the connection that starts for a client: those of the one it
\* takes over, and those the grace window kept.
Resumed(c) ==
    (IF connections[c] # None THEN sock[connections[c]].refs ELSE {})
        \cup (IF grace[c].on THEN RefsOf(c) ELSE {})

\* Mutant of NothingMissed: what was missed is sent and kept.
MissedAgain(c) == missed

NothingMissed(c) == [missed EXCEPT ![c] = <<>>]

\* The `start` frame of a connection arrives. The newest connection wins: the
\* one before it loses its id and is closed. What the client missed follows
\* `hello`, if the connection still stands.
StartSocket(s) ==
    /\ sock[s].phase = "accepted"
    /\ sock[s].wire \in {"up", "cut"}
    /\ LET c == sock[s].owner
       IN  /\ sock' = [t \in Sockets |->
                 IF t = s THEN [sock[s] EXCEPT !.phase = "started", !.id = c, !.refs = Resumed(c)]
                 ELSE IF t = connections[c] THEN [sock[t] EXCEPT !.id = None, !.wire = "down"]
                 ELSE sock[t]]
           /\ connections' = [connections EXCEPT ![c] = s]
           /\ grace' = [grace EXCEPT ![c] = NoGrace]
           /\ missed' = NothingMissed(c)
           /\ got' = IF sock[s].wire = "up" THEN [got EXCEPT ![c] = @ \o missed[c]] ELSE got
           /\ away' = IF sock[s].wire = "up" THEN away ELSE [away EXCEPT ![c] = {}]
    /\ UNCHANGED <<subs, posted, changes>>

-----------------------------------------------------------------------------
(* _onDisconnect and the grace window *)

\* Mutant of OnClose: a close detaches at once.
OnCloseAtOnce(s) ==
    /\ sock[s].wire = "down"
    /\ sock[s].phase # "unused" /\ sock[s].closes < MaxCloses
    /\ sock' = [sock EXCEPT ![s].phase = "closed", ![s].closes = @ + 1]
    /\ LET c == sock[s].id
       IN  IF c = None
           THEN UNCHANGED <<connections, subs>>
           ELSE /\ connections' = IF connections[c] = s
                                  THEN [connections EXCEPT ![c] = None] ELSE connections
                /\ subs' = [r \in Refs |-> IF r \in sock[s].refs THEN subs[r] \ {c} ELSE subs[r]]
    /\ UNCHANGED <<grace, missed, posted, historyVars>>

\* The adapter reports a close. A connection that was replaced has no id.
OnClose(s) ==
    /\ sock[s].wire = "down"
    /\ sock[s].phase # "unused" /\ sock[s].closes < MaxCloses
    /\ sock' = [sock EXCEPT ![s].phase = "closed", ![s].closes = @ + 1]
    /\ LET c == sock[s].id
       IN  IF c = None
           THEN UNCHANGED <<connections, grace>>
           ELSE /\ connections' = IF SameObject /\ connections[c] = s
                                  THEN [connections EXCEPT ![c] = None] ELSE connections
                /\ grace' = IF sock[s].refs = {} THEN grace
                            ELSE [grace EXCEPT ![c] = [on |-> TRUE, refs |-> sock[s].refs]]
    /\ UNCHANGED <<subs, missed, posted, historyVars>>

\* detach(): the client, and the socket it is connected with, lose these refs.
Detached(c, refs) == [r \in Refs |-> IF r \in refs THEN subs[r] \ {c} ELSE subs[r]]

\* Mutants of GraceEnds: what was missed goes and the subscriptions stay; the
\* timer does not look whether the client is back.
GraceEndsForgets(c) ==
    /\ grace[c].on
    /\ grace' = [grace EXCEPT ![c] = NoGrace]
    /\ missed' = NothingMissed(c)
    /\ UNCHANGED <<sock, connections, subs, posted, historyVars>>

\* The timer of the window: a client that is back keeps its subscriptions.
GraceEnds(c) ==
    /\ grace[c].on
    /\ grace' = [grace EXCEPT ![c] = NoGrace]
    /\ \/ /\ connections[c] # None
          /\ UNCHANGED <<subs, missed, away>>
       \/ /\ connections[c] = None
          /\ subs' = Detached(c, grace[c].refs)
          /\ missed' = NothingMissed(c)
          /\ away' = [away EXCEPT ![c] = {}]
    /\ UNCHANGED <<sock, connections, posted, changes, got>>

-----------------------------------------------------------------------------
(* handle() / listen(), unsubscribe frames, and changes *)

\* A read by a client of this node subscribes it, if it is connected.
Listen(c, r) ==
    /\ connections[c] # None
    /\ r \notin sock[connections[c]].refs /\ c \notin subs[r]
    /\ subs' = [subs EXCEPT ![r] = @ \cup {c}]
    /\ sock' = [sock EXCEPT ![connections[c]].refs = @ \cup {r}]
    /\ UNCHANGED <<connections, grace, missed, posted, historyVars>>

\* An `unsubscribe` frame drops subscriptions of the client of that socket.
Unsubscribe(s, r) ==
    /\ sock[s].phase = "started"
    /\ sock[s].wire \in {"up", "cut"}
    /\ sock[s].id # None
    /\ LET c == sock[s].id
       IN  /\ c \in subs[r]
           /\ subs' = Detached(c, {r})
           /\ sock' = IF connections[c] = None THEN sock
                      ELSE [sock EXCEPT ![connections[c]].refs = @ \ {r}]
    /\ UNCHANGED <<connections, grace, missed, posted, historyVars>>

\* Mutant of Keeps: only a grace window keeps what is missed.
KeepsInGrace(c) == grace[c].on

\* _keepMissed: a client that dropped, or that is dropping.
Keeps(c) == grace[c].on \/ connections[c] # None

\* How many of the two maps a change to a document is looked up in name a client.
Hits(c, d) == {r \in {Collection, d} : c \in subs[r]}

\* Mutant of Newest: it trims one too late.
NewestLate(seq) ==
    IF Len(seq) <= MissedLimit + 1 THEN seq
    ELSE SubSeq(seq, Len(seq) - MissedLimit, Len(seq))

\* Past MISSED_LIMIT the oldest go.
Newest(seq) ==
    IF Len(seq) <= MissedLimit THEN seq
    ELSE SubSeq(seq, Len(seq) - MissedLimit + 1, Len(seq))

\* next(): a document of the collection changes. Each client is reached through
\* its connection once, or misses the change once for each map that names it.
Publish(d) ==
    /\ Len(changes) < MaxChanges
    /\ changes' = Append(changes, d)
    /\ LET n == Len(changes) + 1
           absent == {c \in Clients : Hits(c, d) # {} /\ ~Connected(c) /\ Keeps(c)}
           copies(c) == IF Hits(c, d) = {Collection, d} THEN <<n, n>> ELSE <<n>>
       IN  /\ posted' = [s \in Sockets |->
                 IF \E c \in Clients : /\ Hits(c, d) # {} /\ Connected(c)
                                       /\ connections[c] = s
                 THEN Append(posted[s], n) ELSE posted[s]]
           /\ missed' = [c \in Clients |->
                 IF c \in absent THEN Newest(missed[c] \o copies(c)) ELSE missed[c]]
           /\ away' = [c \in Clients |->
                 IF Hits(c, d) # {} /\ ~Connected(c) THEN away[c] \cup {n} ELSE away[c]]
    /\ UNCHANGED <<sock, connections, subs, grace, got>>

\* The setTimeout(0) of a change: a socket that is gone swallows it.
SendPosted(s) ==
    /\ posted[s] # <<>>
    /\ posted' = [posted EXCEPT ![s] = Tail(@)]
    /\ got' = IF sock[s].wire = "up"
              THEN [got EXCEPT ![sock[s].owner] = Append(@, Head(posted[s]))] ELSE got
    /\ UNCHANGED <<sock, gatewayVars, changes, away>>

-----------------------------------------------------------------------------
GatewayInit ==
    /\ sock = [s \in Sockets |-> NoSocket]
    /\ connections = [c \in Clients |-> None]
    /\ subs = [r \in Refs |-> {}]
    /\ grace = [c \in Clients |-> NoGrace]
    /\ missed = [c \in Clients |-> <<>>]
    /\ posted = [s \in Sockets |-> <<>>]
    /\ changes = <<>>
    /\ got = [c \in Clients |-> <<>>]
    /\ away = [c \in Clients |-> {}]

GatewayNext ==
    \/ \E s \in Sockets, c \in Clients : Accept(s, c)
    \/ \E s \in Sockets : PeerGone(s) \/ Noticed(s) \/ StartSocket(s) \/ OnClose(s)
                          \/ SendPosted(s)
    \/ \E s \in Sockets, r \in Refs : Unsubscribe(s, r)
    \/ \E c \in Clients, r \in Refs : Listen(c, r)
    \/ \E c \in Clients : GraceEnds(c)
    \/ \E d \in Documents : Publish(d)

GatewaySpec == GatewayInit /\ [][GatewayNext]_gwVars

-----------------------------------------------------------------------------
(* Properties *)

SocketRecord ==
    [phase : {"unused", "accepted", "started", "closed"}, owner : Clients \cup {None},
     id : Clients \cup {None}, refs : SUBSET Refs,
     wire : {"none", "up", "cut", "down"}, closes : 0..MaxCloses]

ChangeNumbers == 1..MaxChanges

GatewayTypeOK ==
    /\ sock \in [Sockets -> SocketRecord]
    /\ \A s \in Sockets : sock[s].owner = None => sock[s] = NoSocket
    /\ connections \in [Clients -> Sockets \cup {None}]
    /\ subs \in [Refs -> SUBSET Clients]
    /\ grace \in [Clients -> [on : BOOLEAN, refs : SUBSET Refs]]
    /\ missed \in [Clients -> Seq(ChangeNumbers)]
    /\ \A c \in Clients : Len(missed[c]) <= MissedLimit
    /\ posted \in [Sockets -> Seq(ChangeNumbers)]
    /\ changes \in Seq(Documents) /\ Len(changes) <= MaxChanges
    /\ got \in [Clients -> Seq(ChangeNumbers)]
    /\ away \in [Clients -> SUBSET ChangeNumbers]

\* "Rebuild this socket's ref set from the subscriptions we kept alive, so a later
\* disconnect detaches correctly": a connection's own refs are exactly what the
\* subscriptions say of its client, through takeovers, reconnects and unsubscribes
\* (a close reported twice breaks it as it breaks GoneIsDetached).
RefsMatch ==
    MaxCloses = 1 => \A c \in Clients : connections[c] # None =>
        /\ sock[connections[c]].id = c
        /\ sock[connections[c]].refs = RefsOf(c)

\* A client holds a subscription only while an open connection or a running
\* grace timer that captured it will take it away again.
Held(c) ==
    {r \in Refs : \/ connections[c] # None /\ sock[connections[c]].phase = "started"
                  \/ grace[c].on /\ r \in grace[c].refs}

\* "Grace period to keep a disconnected client's subscriptions before removing
\* them": no subscription is left behind that nothing will remove.
GoneIsDetached == \A c \in Clients : RefsOf(c) \subseteq Held(c)

\* The same for an adapter whose sockets keep their identity and close once.
NoLeak == SameObject /\ MaxCloses = 1 => GoneIsDetached

\* "The newest connection wins, and the old socket closes without detaching
\* them": a client that is connected loses a subscription only by asking, however
\* late the closes of its earlier connections and their timers come.
ConnectedKeepsRefs ==
    [][\A c \in Clients : \A r \in RefsOf(c) :
          c \notin subs'[r] =>
              \/ connections[c] = None
              \/ \E s \in Sockets : sock[s].id = c /\ Unsubscribe(s, r)]_gwVars

InOrder(seq) == \A i, j \in 1..Len(seq) : i < j => seq[i] <= seq[j]

\* "In order": a client never gets a change after a later one, whichever of its
\* connections, and whether as a frame of its own or among what it missed.
GotInOrder == \A c \in Clients : InOrder(got[c])

\* "Sent once, in order, as a sync event right after the reconnecting hello": no
\* change is sent twice.
GotOnce ==
    \A c \in Clients : \A i, j \in 1..Len(got[c]) : i # j => got[c][i] # got[c][j]

ToSet(seq) == {seq[i] : i \in 1..Len(seq)}

\* "Changes sent while a client was disconnected but still inside the grace were
\* lost. They are now kept (at most 1000, oldest dropped first)": one that was
\* published while its socket was seen to be gone is kept or delivered, unless
\* newer ones fill the limit, where a change to a document that the client listens
\* to by itself and in its collection is kept twice and counts for two.
AwayIsKept ==
    MaxCloses = 1 => \A c \in Clients : \A n \in away[c] :
        \/ n \in ToSet(missed[c]) \cup ToSet(got[c])
        \/ 2 * Cardinality({m \in away[c] : m > n}) >= MissedLimit

\* What a dropped client missed is kept up to the limit, never beyond it, and reaches
\* it in order with the rest.
MissedArrives ==
    /\ \A c \in Clients : Len(missed[c]) <= MissedLimit
    /\ GotInOrder /\ AwayIsKept

\* What the options promise of subscriptions, of which Hibernate is the other
\* implementation: takeovers, drops and reconnects leave every subscription alone.
Subs == INSTANCE Subscriptions WITH
            present <- [c \in Clients |-> connections[c] # None],
            held <- [c \in Clients |-> RefsOf(c)]

GatewayKeepsSubscriptions == Subs!SubsSpec

-----------------------------------------------------------------------------
(* What makes RefsMatch and NoLeak inductive *)

\* A connection has an id from its start until it is replaced, and a client has
\* at most one that started and is neither replaced nor closed.
OneConnection ==
    \A s \in Sockets :
        /\ sock[s].phase \in {"unused", "accepted"} => sock[s].id = None
        /\ sock[s].phase = "closed" => sock[s].closes >= 1
        /\ sock[s].phase = "started" /\ sock[s].id # None => connections[sock[s].id] = s

\* Who is connected is so through a socket with its id, open if the adapter's
\* sockets keep their identity.
ConnectionStarted ==
    \A c \in Clients : connections[c] # None =>
        /\ sock[connections[c]].id = c
        /\ SameObject => sock[connections[c]].phase = "started"

\* Who is not connected has only what its grace timer will take away.
DroppedInGrace ==
    MaxCloses = 1 => \A c \in Clients :
        connections[c] = None => \A r \in RefsOf(c) : grace[c].on /\ r \in grace[c].refs

GatewayIInv ==
    /\ GatewayTypeOK
    /\ OneConnection
    /\ ConnectionStarted
    /\ RefsMatch
    /\ DroppedInGrace

-----------------------------------------------------------------------------
(* What makes MissedArrives inductive *)

\* A client has one open wire at most. Its socket is the connection of that client
\* from its start on, and until then nothing is posted to it.
OneWire ==
    \A s \in Sockets :
        /\ sock[s].id \in {None, sock[s].owner}
        /\ sock[s].phase \in {"unused", "accepted"} => posted[s] = <<>>
        /\ sock[s].phase = "closed" => sock[s].wire = "down"
        /\ sock[s].wire = "up" =>
              /\ sock[s].phase = "started" => sock[s].id # None /\ missed[sock[s].owner] = <<>>
              /\ \A t \in Sockets \ {s} : ~(sock[t].wire = "up" /\ sock[t].owner = sock[s].owner)

\* What may still reach a client is newer than what did: the changes that are kept
\* for it, and those posted to its open wire.
NewerToCome ==
    /\ \A c \in Clients : InOrder(got[c] \o missed[c])
    /\ \A s \in Sockets : sock[s].wire = "up" => InOrder(got[sock[s].owner] \o posted[s])

\* None is newer than the last that was published.
Published ==
    /\ \A c \in Clients : ToSet(got[c]) \cup ToSet(missed[c]) \subseteq 1..Len(changes)
    /\ \A s \in Sockets : ToSet(posted[s]) \subseteq 1..Len(changes)

\* A change is in a sequence at most twice.
AtMostTwice(seq) == \A i, j \in 1..Len(seq) : i + 1 < j => seq[i] < seq[j]

\* Of the changes a client was away for, the kept ones are there at most twice.
MissedAway ==
    \A c \in Clients : ToSet(missed[c]) \subseteq away[c] /\ AtMostTwice(missed[c])

MissedIInv == OneWire /\ NewerToCome /\ Published /\ MissedAway /\ AwayIsKept

-----------------------------------------------------------------------------
(* Liveness. A runtime notices a dead peer in the end, reports the close, and *)
(* timers fire.                                                               *)

GatewayFairness ==
    /\ \A s \in Sockets : WF_gwVars(sock[s].wire = "cut" /\ Noticed(s))
    /\ \A s \in Sockets : WF_gwVars(OnClose(s))
    /\ \A c \in Clients : WF_gwVars(GraceEnds(c))

FairGatewaySpec == GatewaySpec /\ GatewayFairness

Gone(c) == \A s \in Sockets : sock[s].owner = c => sock[s].wire # "up"

\* A client that is gone for good is forgotten, whatever it was doing: every
\* close restarts the window, and a delayed start reopens it.
GoneIsForgotten ==
    \A c \in Clients : Gone(c) ~> RefsOf(c) = {} \/ ~Gone(c)
=============================================================================
