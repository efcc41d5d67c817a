-------------------------------- MODULE Live --------------------------------
(***************************************************************************)
(* A live query from end to end: packages/rest/src (Socket, and query() of *)
(* RestTransporter), the queries of packages/client/src/LivequeryClient.ts *)
(* with the list each LivequeryCollection shows, and the subscription a    *)
(* read registers at the server (honojs realtimeMiddleware and middleware, *)
(* nestjs LivequeryInterceptor) in the gateway of module Gateway.          *)
(*                                                                         *)
(* One client and one ref, watched by several collections; the documents   *)
(* all match. A document is the number of the write that made it, 0 when   *)
(* there is none. Requests and answers travel over HTTP, frames over the   *)
(* socket: two connections, whose order is a parameter. Storage calls on   *)
(* the way of one emission are one step with it.                           *)
(***************************************************************************)
EXTENDS Naturals, Sequences, FiniteSets, SequencesExt

CONSTANTS
    Watchers,        \* collections that watch the ref
    Docs,            \* its documents
    SubscribeFirst,  \* TRUE: the read subscribes, then reads (nestjs); FALSE: honojs
    KeepsMissed,     \* TRUE: changes missed in the grace window are kept
    Versioned,       \* TRUE: documents carry `updated_at`
    HttpOvertakes,   \* TRUE: a request may arrive before frames sent earlier
    FramesOvertake,  \* TRUE: changes and answers may arrive in another order than they were made
    Patient,         \* TRUE: a stream ends only when no unsubscribe timer is pending
    SlowStart,       \* TRUE: the first connection may take longer than a query waits
    SameFilters,     \* TRUE: a query is repeated with its filters
    MaxWrites, MaxDrops, MaxEnds, MaxFails   \* bounds; an end is an unmount or a new query

ASSUME SwitchesAssumption ==
    {SubscribeFirst, KeepsMissed, Versioned, HttpOvertakes, FramesOvertake, Patient,
     SlowStart, SameFilters}
        \subseteq BOOLEAN
ASSUME WatchersAssumption == IsFiniteSet(Watchers)
ASSUME LiveBoundsAssumption == {MaxWrites, MaxDrops, MaxEnds, MaxFails} \subseteq Nat

VARIABLES
    db,       \* the server's documents
    written,  \* writes so far
    gateway,  \* the gateway's view of this client
    up, down, \* frames on the socket, to the gateway and to the client
    socket,   \* Socket: connected, seen, and the frames in #queue
    topic,    \* #topics: the topic object of the ref, 0 if none
    listens,  \* listen_count of each topic object
    timers,   \* unsubscribe timers that captured each topic object
    stream,   \* the transporter query of each collection
    stored,   \* the client's storage
    list,     \* what each collection shows
    status,   \* LivequeryCollectionStatus
    left      \* how often each bounded event may still happen

serverVars == <<db, written, gateway>>
topicVars == <<topic, listens, timers>>
viewVars == <<stored, list, status>>
liveVars == <<serverVars, up, down, socket, topicVars, stream, viewVars, left>>

Topics == 1..(Cardinality(Watchers) + MaxEnds + MaxDrops * Cardinality(Watchers))
Empty == [d \in Docs |-> 0]
NoStream == [phase |-> "none", topic |-> 0, refetch |-> FALSE, emitted |-> FALSE,
             answer |-> Empty, asOf |-> 0, early |-> FALSE, replay |-> Empty]

May(event) == left[event] > 0
Used(event) == left' = [left EXCEPT ![event] = @ - 1]

Open(w) == stream[w].phase # "none"
MayEnd(w) == Patient => timers[stream[w].topic] = 0
Listening == {w \in Watchers : Open(w) /\ stream[w].topic = topic}

-----------------------------------------------------------------------------
(* Socket.listen and its finalizer *)

\* The topic object a new stream listens on.
TopicOfListen == IF topic # 0 THEN topic
                 ELSE CHOOSE t \in Topics : listens[t] = 0 /\ timers[t] = 0 /\ \A u \in Topics :
                          listens[u] = 0 /\ timers[u] = 0 => t <= u

\* Mutant of Gone: who stops listening is still counted.
GoneUncounted(W, u) == 0

Gone(W, u) == Cardinality({w \in W : Open(w) /\ stream[w].topic = u})

\* A collection's stream is replaced (or, when `again` is FALSE, only ends): the
\* new one listens before the old one lets go and sets its timer.
Relisten(W, again) ==
    LET t == TopicOfListen
    IN  /\ topic' = IF again /\ W # {} THEN t ELSE topic
        /\ listens' = [u \in Topics |->
              listens[u] - Gone(W, u) + (IF again /\ u = t THEN Cardinality(W) ELSE 0)]
        /\ timers' = [u \in Topics |-> timers[u] + Gone(W, u)]

NewStream(refetch) ==
    [NoStream EXCEPT !.phase = "waiting", !.topic = TopicOfListen, !.refetch = refetch]

\* #isStale: the frames in #queue are unsubscribes of this ref.
Stale == topic # 0 /\ listens[topic] > 0

\* Mutant of UnsubscribeTimer: it does not look who listens.
UnsubscribeTimerAlways(t) ==
    /\ timers[t] > 0
    /\ timers' = [timers EXCEPT ![t] = @ - 1]
    /\ topic' = 0
    /\ up' = IF socket.connected THEN Append(up, "unsubscribe") ELSE up
    /\ UNCHANGED <<serverVars, down, socket, listens, stream, viewVars, left>>

\* Two seconds later: the timer looks at the topic object it captured.
UnsubscribeTimer(t) ==
    /\ timers[t] > 0
    /\ timers' = [timers EXCEPT ![t] = @ - 1]
    /\ IF listens[t] > 0 THEN UNCHANGED <<topic, up, socket>>
       ELSE /\ topic' = 0
            /\ IF socket.connected
               THEN up' = Append(up, "unsubscribe") /\ UNCHANGED socket
               ELSE socket' = [socket EXCEPT !.queue = Append(@, "unsubscribe")] /\ UNCHANGED up
    /\ UNCHANGED <<serverVars, down, listens, stream, viewVars, left>>

-----------------------------------------------------------------------------
(* Collections: watch, query, refetch *)

\* initialize(): the collection asks for its first page.
Mount(w) ==
    /\ ~Open(w)
    /\ Relisten({w}, TRUE)
    /\ stream' = [stream EXCEPT ![w] = NewStream(FALSE)]
    /\ list' = [list EXCEPT ![w] = Empty]
    /\ status' = [status EXCEPT ![w] = "loading"]
    /\ UNCHANGED <<serverVars, up, down, socket, stored, left>>

\* The collection goes away: its stream ends with data$.
Unmount(w) ==
    /\ Open(w) /\ MayEnd(w) /\ May("end") /\ Used("end")
    /\ Relisten({w}, FALSE)
    /\ stream' = [stream EXCEPT ![w] = NoStream]
    /\ list' = [list EXCEPT ![w] = Empty]
    /\ status' = [status EXCEPT ![w] = "idle"]
    /\ UNCHANGED <<serverVars, up, down, socket, stored>>

\* query() of a collection that is on screen. With other filters a new stream
\* replaces the old one; with the same ones #cache gives the stream there is,
\* which replays its first emission.
QueryAgain(w) ==
    /\ Open(w) /\ MayEnd(w) /\ May("end") /\ Used("end")
    /\ IF SameFilters
       THEN /\ list' = [list EXCEPT ![w] = stream[w].replay]
            /\ status' = [status EXCEPT ![w] = IF stream[w].emitted THEN "ready" ELSE "loading"]
            /\ UNCHANGED <<topicVars, stream>>
       ELSE /\ Relisten({w}, TRUE)
            /\ stream' = [stream EXCEPT ![w] = NewStream(FALSE)]
            /\ list' = [list EXCEPT ![w] = Empty]
            /\ status' = [status EXCEPT ![w] = "loading"]
    /\ UNCHANGED <<serverVars, up, down, socket, stored>>

Mounted == {w \in Watchers : Open(w)}

\* Mutant of ReconnectedStreams: coming back does not refetch.
NoRefetch == stream

\* refetch(): every live collection runs its first-page query again.
ReconnectedStreams == [w \in Watchers |-> IF w \in Mounted THEN NewStream(TRUE) ELSE stream[w]]

-----------------------------------------------------------------------------
(* The connection *)

\* The socket opens: `start`, the queued frames that are not stale, and, when it
\* was connected before, a refetch.
Connect ==
    /\ ~socket.connected
    /\ LET again == socket.seen
           kept == IF Stale THEN <<>> ELSE socket.queue
       IN  /\ socket' = [connected |-> TRUE, seen |-> TRUE, queue |-> <<>>]
           /\ up' = <<"start">> \o kept
           /\ down' = <<>>
           /\ IF again /\ ReconnectedStreams # stream
              THEN stream' = ReconnectedStreams /\ Relisten(Mounted, TRUE)
              ELSE UNCHANGED <<stream, topicVars>>
    /\ UNCHANGED <<serverVars, viewVars, left>>

\* The connection drops; what was on it is gone, and the gateway does not know.
Disconnect ==
    /\ socket.connected /\ May("drop") /\ Used("drop")
    /\ socket' = [socket EXCEPT !.connected = FALSE]
    /\ up' = <<>> /\ down' = <<>>
    /\ gateway' = [gateway EXCEPT !.link = IF @ = "up" THEN "dead" ELSE @]
    /\ UNCHANGED <<db, written, topicVars, stream, viewVars>>

\* The gateway learns of it: the grace window starts ...
GatewayNotices ==
    /\ gateway.link = "dead"
    /\ gateway' = [gateway EXCEPT !.link = "none"]
    /\ UNCHANGED <<db, written, up, down, socket, topicVars, stream, viewVars, left>>

\* ... and ends.
GraceOver ==
    /\ gateway.link = "none" /\ gateway.subscribed
    /\ gateway' = [gateway EXCEPT !.subscribed = FALSE, !.missed = <<>>]
    /\ UNCHANGED <<db, written, up, down, socket, topicVars, stream, viewVars, left>>

\* A frame of the client arrives at the gateway.
GatewayReceives ==
    /\ up # <<>>
    /\ up' = Tail(up)
    /\ IF Head(up) = "start"
       THEN /\ gateway' = [gateway EXCEPT !.link = "up", !.missed = <<>>]
            /\ down' = down \o gateway.missed
       ELSE /\ gateway' = [gateway EXCEPT !.subscribed = FALSE]
            /\ UNCHANGED down
    /\ UNCHANGED <<db, written, socket, topicVars, stream, viewVars, left>>

-----------------------------------------------------------------------------
(* The server *)

\* Someone writes a document, and its change is published: to the client, to what
\* it misses, or to a connection that is dead.
Write(d, type) ==
    /\ May("write") /\ Used("write")
    /\ (type = "added") = (db[d] = 0)
    /\ written' = written + 1
    /\ db' = [db EXCEPT ![d] = IF type = "removed" THEN 0 ELSE written + 1]
    /\ LET change == [doc |-> d, type |-> type, at |-> written + 1]
           reaches == gateway.subscribed /\ gateway.link = "up"
           misses == gateway.subscribed /\ gateway.link = "none" /\ KeepsMissed
       IN  /\ down' = IF reaches THEN Append(down, change) ELSE down
           /\ gateway' = IF misses THEN [gateway EXCEPT !.missed = Append(@, change)] ELSE gateway
    /\ UNCHANGED <<up, socket, topicVars, stream, viewVars>>

\* ready$ of query(): the socket is connected, or three seconds passed.
Ask(w) ==
    /\ stream[w].phase = "waiting"
    /\ socket.connected \/ socket.seen \/ SlowStart
    /\ stream' = [stream EXCEPT ![w].phase = "asked"]
    /\ UNCHANGED <<serverVars, up, down, socket, topicVars, viewVars, left>>

Arrives == HttpOvertakes \/ up = <<>>

\* listen() skips a client that is not connected to this gateway.
Registered == gateway.subscribed \/ gateway.link # "none"

\* The interceptor subscribes, then the handler reads; the middlewares of hono run
\* after it.
RegistersAt == IF SubscribeFirst THEN "asked" ELSE "read"
ReadsAt == IF SubscribeFirst THEN "registered" ELSE "asked"

Register(w) ==
    /\ stream[w].phase = RegistersAt
    /\ Arrives
    /\ gateway' = [gateway EXCEPT !.subscribed = Registered]
    /\ stream' = [stream EXCEPT ![w].phase = IF SubscribeFirst THEN "registered" ELSE "served"]
    /\ UNCHANGED <<db, written, up, down, socket, topicVars, viewVars, left>>

\* The datasource reads.
Read(w) ==
    /\ stream[w].phase = ReadsAt
    /\ Arrives
    /\ stream' = [stream EXCEPT ![w].answer = db, ![w].asOf = written,
                                ![w].phase = IF SubscribeFirst THEN "served" ELSE "read"]
    /\ UNCHANGED <<serverVars, up, down, socket, topicVars, viewVars, left>>

-----------------------------------------------------------------------------
(* What the streams emit: #query, #ingestRemoteChange, #broadcast and the      *)
(* collection's #applyChanges and #reconcile                                   *)

\* Mutant of Older: a version that is stored already is dropped.
OlderOrSame(d, at) == Versioned /\ stored[d] # 0 /\ at <= stored[d]

\* isOlder: a change that is older than what the storage holds is dropped.
Older(d, at) == Versioned /\ stored[d] # 0 /\ at < stored[d]

\* A change may arrive, or an answer may, when nothing the server sent before it is
\* still on its way.
ChangeInOrder(c) ==
    FramesOvertake \/ \A w \in Watchers : stream[w].phase \in {"read", "served"} => c.at <= stream[w].asOf
AnswerInOrder(w) ==
    FramesOvertake \/ \A i \in 1..Len(down) : down[i].at > stream[w].asOf

\* The documents of an answer that are not dropped.
Fresh(answer) == {d \in Docs : answer[d] # 0 /\ ~Older(d, answer[d])}

Added(old, answer) == [d \in Docs |-> IF d \in Fresh(answer) THEN answer[d] ELSE old[d]]

\* A refetch is a complete re-read: what it does not mention is dropped.
Reconciled(old, answer) == [d \in Docs |-> IF d \in Fresh(answer) THEN answer[d] ELSE 0]

\* The answer of a read that went well. As the first emission it answers the
\* query; after a change it is broadcast like one.
Answer(w) ==
    /\ stream[w].phase = "served" /\ AnswerInOrder(w)
    /\ LET s == stream[w]
       IN  /\ stream' = [stream EXCEPT ![w].phase = "answered", ![w].emitted = TRUE,
                             ![w].replay = IF s.emitted THEN @ ELSE Added(Empty, s.answer)]
           /\ stored' = Added(stored, s.answer)
           /\ list' = [v \in Watchers |->
                 IF s.emitted THEN (IF Open(v) THEN Added(list[v], s.answer) ELSE list[v])
                 ELSE IF v # w THEN list[v]
                 ELSE IF s.refetch THEN Reconciled(list[v], s.answer) ELSE Added(list[v], s.answer)]
           /\ status' = IF s.emitted THEN status ELSE [status EXCEPT ![w] = "ready"]
    /\ UNCHANGED <<serverVars, up, down, socket, topicVars, left>>

\* A read that fails. As the first emission of a refetch it is reconciled like an
\* empty answer; after a change it has no changes, and is dropped.
AnswerFails(w) ==
    /\ stream[w].phase \in {"asked", "served"} /\ May("fail") /\ Used("fail")
    /\ stream' = [stream EXCEPT ![w].phase = "failed", ![w].emitted = TRUE]
    /\ IF stream[w].emitted THEN UNCHANGED viewVars
       ELSE /\ list' = IF stream[w].refetch THEN [list EXCEPT ![w] = Empty] ELSE list
            /\ status' = [status EXCEPT ![w] = "error"]
            /\ UNCHANGED stored
    /\ UNCHANGED <<serverVars, up, down, socket, topicVars>>

\* What a change does to a list, or to the storage: an update needs a document.
Applied(old, c) ==
    IF c.type = "removed" THEN [old EXCEPT ![c.doc] = 0]
    ELSE IF c.type = "modified" /\ old[c.doc] = 0 THEN old
    ELSE [old EXCEPT ![c.doc] = c.at]

\* A change arrives: every stream on the ref's topic emits it. The first emission
\* of a stream goes to its collection as the answer, any other to all of them.
Receive ==
    /\ down # <<>> /\ ChangeInOrder(Head(down))
    /\ down' = Tail(down)
    /\ LET c == Head(down)
           dropped == c.type # "removed" /\ Older(c.doc, c.at)
           first == {w \in Listening : ~stream[w].emitted}
           shared == \E w \in Listening : stream[w].emitted
           base(w) == IF w \in first /\ stream[w].refetch
                      THEN [d \in Docs |-> IF d = c.doc /\ ~dropped THEN list[w][d] ELSE 0]
                      ELSE list[w]
           next(w) == IF dropped \/ ~(w \in first \/ (shared /\ Open(w))) THEN base(w)
                      ELSE Applied(base(w), c)
       IN  /\ stream' = [w \in Watchers |->
                 IF w \notin first THEN stream[w]
                 ELSE [stream[w] EXCEPT !.emitted = TRUE, !.early = TRUE,
                                        !.replay = IF dropped THEN Empty ELSE Applied(Empty, c)]]
           /\ stored' = IF Listening = {} \/ dropped THEN stored ELSE Applied(stored, c)
           /\ list' = [w \in Watchers |-> next(w)]
           /\ status' = [w \in Watchers |-> IF w \in first THEN "ready" ELSE status[w]]
    /\ UNCHANGED <<serverVars, up, socket, topicVars, left>>

-----------------------------------------------------------------------------
LiveInit ==
    /\ db = Empty /\ written = 0
    /\ gateway = [link |-> "none", subscribed |-> FALSE, missed |-> <<>>]
    /\ up = <<>> /\ down = <<>>
    /\ socket = [connected |-> FALSE, seen |-> FALSE, queue |-> <<>>]
    /\ topic = 0 /\ listens = [t \in Topics |-> 0] /\ timers = [t \in Topics |-> 0]
    /\ stream = [w \in Watchers |-> NoStream]
    /\ stored = Empty
    /\ list = [w \in Watchers |-> Empty]
    /\ status = [w \in Watchers |-> "idle"]
    /\ left = [write |-> MaxWrites, drop |-> MaxDrops, end |-> MaxEnds, fail |-> MaxFails]

LiveNext ==
    \/ Connect \/ Disconnect \/ GatewayNotices \/ GraceOver \/ GatewayReceives \/ Receive
    \/ \E t \in Topics : UnsubscribeTimer(t)
    \/ \E w \in Watchers : \/ Mount(w) \/ Unmount(w) \/ QueryAgain(w)
                           \/ Ask(w) \/ Register(w) \/ Read(w) \/ Answer(w) \/ AnswerFails(w)
    \/ \E d \in Docs, type \in {"added", "modified", "removed"} : Write(d, type)

\* The socket is retried for ever, timers fire, frames and answers arrive.
LiveFairness ==
    /\ WF_liveVars(Connect) /\ WF_liveVars(GatewayNotices) /\ WF_liveVars(GatewayReceives)
    /\ WF_liveVars(Receive)
    /\ \A w \in Watchers : WF_liveVars(Ask(w) \/ Register(w) \/ Read(w) \/ Answer(w))

LiveSpec == LiveInit /\ [][LiveNext]_liveVars /\ LiveFairness

-----------------------------------------------------------------------------
(* Properties *)

LiveTypeOK ==
    /\ db \in [Docs -> 0..MaxWrites] /\ written \in 0..MaxWrites
    /\ gateway.link \in {"none", "up", "dead"} /\ gateway.subscribed \in BOOLEAN
    /\ topic \in {0} \cup Topics
    /\ listens \in [Topics -> 0..Cardinality(Watchers)]
    /\ timers \in [Topics -> Nat]
    /\ list \in [Watchers -> [Docs -> 0..MaxWrites]] /\ stored \in [Docs -> 0..MaxWrites]
    /\ status \in [Watchers -> {"idle", "loading", "ready", "error"}]

\* Nothing is on its way to the client.
Quiet ==
    /\ socket.connected /\ up = <<>> /\ down = <<>> /\ gateway.link = "up"
    /\ \A w \in Mounted : stream[w].phase \in {"answered", "failed"}

\* A list shows what the server holds of a document; one that took a change for
\* the answer to its read may keep a document that was deleted since.
Shows(w, d) == list[w][d] = db[d] \/ (db[d] = 0 /\ stream[w].early)

\* "Realtime events sent while the connection was down are gone for good", so coming
\* back reads again; and a read subscribes. When everything has arrived, a list shows
\* what the server holds, whatever was written between the read, its subscription,
\* the drops and the reconnects.
CaughtUp == Quiet => \A w \in Mounted, d \in Docs : stream[w].phase = "answered" => Shows(w, d)

\* The same of every document.
NoGhost == Quiet => \A w \in Mounted : stream[w].phase = "answered" => list[w] = db

\* "An unsubscribe for a ref that is listened to again: sending it would cut that ref
\* off": a stream that is open is on the topic object that frames are routed to.
Routed == \A w \in Mounted : stream[w].topic = topic

\* The types, and the topic that frames are routed to.
LiveInv == LiveTypeOK /\ Routed

\* A collection that stays on screen shows what the server holds, in the end, unless
\* its last read failed.
Arrived == \A w \in Watchers :
    <>[](stream[w].phase \notin {"none", "failed"} => \A d \in Docs : Shows(w, d) /\ stream[w].phase = "answered")

\* "A background refetch keeps the list on screen": a document leaves a list
\* because the server no longer has it, or with a new query.
ListKept ==
    [][\A w \in Watchers, d \in Docs :
          list[w][d] # 0 /\ list'[w][d] = 0 =>
              \/ \E x \in {list[w][d]} : db[d] # x
              \/ Unmount(w) \/ QueryAgain(w)]_liveVars

\* "ready: the server, the cache or the device answered".
ReadyIsAnswered == \A w \in Watchers : status[w] = "ready" => stream[w].phase = "answered"

\* "error: the last query failed".
FailedIsSaid == \A w \in Watchers : stream[w].phase = "failed" => status[w] = "error"
=============================================================================
