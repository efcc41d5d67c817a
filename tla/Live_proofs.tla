----------------------------- MODULE Live_proofs -----------------------------
(***************************************************************************)
(* Proofs about Live for any number of collections, documents, writes,     *)
(* drops and ends, in every order of the connections and of the server's   *)
(* middlewares: its types, and that a stream which is open is on the topic *)
(* object frames are routed to, if streams end one unsubscribe at a time.  *)
(* Where requests, changes and answers come in order: that every list      *)
(* shows what the server holds once nothing is on its way to it.           *)
(***************************************************************************)
EXTENDS Live, FiniteSetTheorems, SequenceTheorems, TLAPS

USE DEF serverVars, topicVars, viewVars, liveVars

-----------------------------------------------------------------------------
(* The inductive invariant *)

Contents == [Docs -> 0..MaxWrites]
Change == [doc : Docs, type : {"added", "modified", "removed"}, at : 0..MaxWrites]
StreamRecord ==
    [phase : {"none", "waiting", "asked", "registered", "read", "served", "answered", "failed"},
     topic : {0} \cup Topics, refetch : BOOLEAN, emitted : BOOLEAN,
     answer : Contents, asOf : 0..MaxWrites, early : BOOLEAN, replay : Contents]

\* One topic object is in use at a time: it is listened to by every stream there is,
\* and when they are all gone one timer is left to give it up.
OneTopic ==
    /\ \A t \in Topics : t # topic => listens[t] = 0 /\ timers[t] = 0
    /\ topic = 0 => Mounted = {}
    /\ topic # 0 => /\ listens[topic] = Cardinality(Mounted)
                    /\ listens[topic] = 0 => timers[topic] = 1

TopicsOK ==
    /\ topic \in {0} \cup Topics
    /\ listens \in [Topics -> 0..Cardinality(Watchers)] /\ timers \in [Topics -> Nat]
    /\ Routed /\ OneTopic

\* The types, with those of the wires and of the streams.
DataOK ==
    /\ db \in Contents /\ written \in 0..MaxWrites
    /\ left \in [{"write", "drop", "end", "fail"} -> Nat] /\ written + left["write"] = MaxWrites
    /\ gateway \in [link : {"none", "up", "dead"}, subscribed : BOOLEAN, missed : Seq(Change)]
    /\ up \in Seq({"start", "unsubscribe"}) /\ down \in Seq(Change)
    /\ socket \in [connected : BOOLEAN, seen : BOOLEAN, queue : Seq({"start", "unsubscribe"})]

ViewOK ==
    /\ list \in [Watchers -> Contents] /\ stored \in Contents
    /\ status \in [Watchers -> {"idle", "loading", "ready", "error"}]

TopicIInv == DataOK /\ ViewOK /\ stream \in [Watchers -> StreamRecord] /\ TopicsOK

LEMMA LeftType ==
    [write |-> MaxWrites, drop |-> MaxDrops, end |-> MaxEnds, fail |-> MaxFails]
        \in [{"write", "drop", "end", "fail"} -> Nat]
BY LiveBoundsAssumption

LEMMA LeftWrite ==
    [write |-> MaxWrites, drop |-> MaxDrops, end |-> MaxEnds, fail |-> MaxFails]["write"] = MaxWrites
OBVIOUS

-----------------------------------------------------------------------------
(* Topic objects *)

LEMMA ZeroIsNoTopic == 0 \notin Topics
BY DEF Topics

\* While somebody watches there is a topic object to listen on.
LEMMA FirstTopic ==
    ASSUME NEW w \in Watchers
    PROVE  1 \in Topics /\ Topics \subseteq Nat
<1>1. Cardinality(Watchers) \in Nat \ {0}
    BY WatchersAssumption, FS_CardinalityType, FS_EmptySet
<1>2. MaxDrops * Cardinality(Watchers) \in Nat /\ MaxEnds \in Nat
    BY <1>1, LiveBoundsAssumption
<1> QED
    BY <1>1, <1>2 DEF Topics

LEMMA TopicOfListenType ==
    ASSUME TopicsOK, NEW w \in Watchers
    PROVE  TopicOfListen \in Topics /\ (topic # 0 => TopicOfListen = topic)
<1>1. CASE topic # 0
    BY <1>1 DEF TopicsOK, TopicOfListen
<1>2. CASE topic = 0
  <2>1. \A t \in Topics : listens[t] = 0 /\ timers[t] = 0
      BY <1>2, ZeroIsNoTopic DEF TopicsOK, OneTopic
  <2>2. \E t \in Topics : listens[t] = 0 /\ timers[t] = 0 /\ \A u \in Topics :
            listens[u] = 0 /\ timers[u] = 0 => t <= u
      BY <2>1, FirstTopic DEF Topics
  <2> QED
      BY <1>2, <2>2 DEF TopicOfListen
<1> QED
    BY <1>1, <1>2

LEMMA MountedFinite ==
    /\ Mounted \subseteq Watchers /\ IsFiniteSet(Mounted)
    /\ Cardinality(Mounted) \in 0..Cardinality(Watchers)
<1>1. Mounted \subseteq Watchers
    BY DEF Mounted
<1> QED
    BY <1>1, WatchersAssumption, FS_Subset, FS_CardinalityType

\* Everybody listens on the one topic there is.
LEMMA GoneFromTopic ==
    ASSUME TopicsOK, NEW W \in SUBSET Mounted, NEW u \in Topics
    PROVE  /\ Gone(W, u) = IF u = topic THEN Cardinality(W) ELSE 0
           /\ Gone(W, u) \in Nat
<1>1. {w \in W : Open(w) /\ stream[w].topic = u} = IF u = topic THEN W ELSE {}
    BY DEF TopicsOK, Routed, Mounted
<1>2. Cardinality(W) \in Nat
    BY MountedFinite, FS_Subset, FS_CardinalityType
<1> QED
    BY <1>1, <1>2, FS_EmptySet DEF Gone

\* A stream that begins is one more on the topic.
LEMMA MountTopics ==
    ASSUME TopicsOK, NEW w \in Watchers, ~Open(w), Relisten({w}, TRUE), NEW refetch,
           stream \in [Watchers -> StreamRecord],
           stream' = [stream EXCEPT ![w] = NewStream(refetch)]
    PROVE  TopicsOK'
<1> DEFINE t == TopicOfListen
<1>1. t \in Topics /\ (topic # 0 => t = topic) /\ t # 0
    BY TopicOfListenType, ZeroIsNoTopic
<1>2. \A u \in Topics : Gone({w}, u) = 0
  <2>1. \A u \in Topics : {x \in {w} : Open(x) /\ stream[x].topic = u} = {}
      OBVIOUS
  <2> QED
      BY <2>1, FS_EmptySet DEF Gone
<1>3. /\ topic' = t
      /\ listens' = [u \in Topics |-> listens[u] - 0 + (IF u = t THEN 1 ELSE 0)]
      /\ timers' = [u \in Topics |-> timers[u] + 0]
    BY <1>2, FS_Singleton DEF Relisten
<1>4. Mounted' = Mounted \cup {w} /\ w \notin Mounted
    BY DEF Mounted, Open, NewStream, NoStream
<1>5. Cardinality(Mounted') = Cardinality(Mounted) + 1
    BY <1>4, MountedFinite, FS_AddElement
<1>6. Cardinality(Mounted') \in 0..Cardinality(Watchers)
  <2>1. Mounted' \subseteq Watchers
      BY DEF Mounted
  <2> QED
      BY <2>1, WatchersAssumption, FS_Subset, FS_CardinalityType
<1>7. topic = 0 => Cardinality(Mounted) = 0
    BY FS_EmptySet DEF TopicsOK, OneTopic
<1>8. listens'[t] = Cardinality(Mounted')
    BY <1>1, <1>3, <1>5, <1>7, ZeroIsNoTopic, MountedFinite DEF TopicsOK, OneTopic
<1>9. \A u \in Topics : u # t => listens'[u] = 0 /\ timers'[u] = 0
    BY <1>1, <1>3, ZeroIsNoTopic DEF TopicsOK, OneTopic
<1>10. Routed'
  <2>1. stream'[w].topic = t
      BY DEF NewStream, NoStream
  <2>2. \A x \in Watchers \ {w} : stream'[x] = stream[x]
      OBVIOUS
  <2>3. \A x \in Mounted : stream[x].topic = topic /\ topic # 0
      BY DEF TopicsOK, OneTopic, Routed
  <2> QED
      BY <1>1, <1>3, <1>4, <2>1, <2>2, <2>3 DEF Routed, Mounted, Open
<1>11. listens' \in [Topics -> 0..Cardinality(Watchers)] /\ timers' \in [Topics -> Nat]
    BY <1>3, <1>6, <1>8, <1>9, MountedFinite DEF TopicsOK
<1>12. OneTopic'
    BY <1>1, <1>3, <1>5, <1>8, <1>9, MountedFinite DEF OneTopic
<1> QED
    BY <1>1, <1>3, <1>10, <1>11, <1>12 DEF TopicsOK

\* A stream that ends leaves one timer, for none was running.
LEMMA UnmountTopics ==
    ASSUME TopicsOK, Patient, NEW w \in Watchers, Open(w), MayEnd(w), Relisten({w}, FALSE),
           stream \in [Watchers -> StreamRecord], stream' = [stream EXCEPT ![w] = NoStream]
    PROVE  TopicsOK'
<1>1. w \in Mounted /\ topic # 0 /\ topic \in Topics /\ stream[w].topic = topic /\ timers[topic] = 0
    BY DEF Mounted, TopicsOK, OneTopic, Routed, MayEnd
<1>2. Cardinality({w}) = 1 /\ {w} \in SUBSET Mounted
    BY <1>1, FS_Singleton
<1>3. /\ topic' = topic
      /\ listens' = [u \in Topics |-> listens[u] - (IF u = topic THEN 1 ELSE 0) + 0]
      /\ timers' = [u \in Topics |-> timers[u] + (IF u = topic THEN 1 ELSE 0)]
    BY <1>2, GoneFromTopic DEF Relisten
<1>4. Mounted' = Mounted \ {w}
    BY DEF Mounted, Open, NoStream
<1>5. Cardinality(Mounted') = Cardinality(Mounted) - 1 /\ Cardinality(Mounted') \in Nat
    BY <1>1, <1>4, MountedFinite, FS_RemoveElement, FS_Subset, FS_CardinalityType
<1>6. listens'[topic] = Cardinality(Mounted') /\ timers'[topic] = 1
    BY <1>1, <1>3, <1>5, MountedFinite DEF TopicsOK, OneTopic
<1>7. \A u \in Topics : u # topic => listens'[u] = 0 /\ timers'[u] = 0
    BY <1>3 DEF TopicsOK, OneTopic
<1>8. Routed'
    BY <1>3, <1>4 DEF TopicsOK, Routed, Mounted
<1>9. listens' \in [Topics -> 0..Cardinality(Watchers)] /\ timers' \in [Topics -> Nat]
  <2>1. Cardinality(Mounted') \in 0..Cardinality(Watchers)
      BY <1>5, MountedFinite, WatchersAssumption, FS_CardinalityType
  <2>2. \A u \in Topics : listens'[u] \in 0..Cardinality(Watchers) /\ timers'[u] \in Nat
      BY <1>6, <1>7, <2>1, WatchersAssumption, FS_CardinalityType
  <2> QED
      BY <1>3, <2>2
<1> QED
    BY <1>1, <1>3, <1>6, <1>7, <1>8, <1>9 DEF TopicsOK, OneTopic

\* Streams that are replaced stay on the topic, and leave a timer each.
LEMMA ReplaceTopics ==
    ASSUME TopicsOK, NEW W \in SUBSET Mounted, W # {}, Relisten(W, TRUE), NEW refetch,
           stream \in [Watchers -> StreamRecord],
           stream' = [w \in Watchers |-> IF w \in W THEN NewStream(refetch) ELSE stream[w]]
    PROVE  TopicsOK'
<1>1. topic # 0 /\ topic \in Topics
    BY DEF TopicsOK, OneTopic
<1>2. PICK w \in W : TRUE
    OBVIOUS
<1>3. TopicOfListen = topic
    BY <1>1, <1>2, TopicOfListenType, MountedFinite
<1>4. Cardinality(W) \in 0..Cardinality(Mounted) /\ Cardinality(W) # 0
    BY MountedFinite, FS_Subset, FS_CardinalityType, FS_EmptySet
<1>5. /\ topic' = topic
      /\ listens' = [u \in Topics |-> listens[u] - (IF u = topic THEN Cardinality(W) ELSE 0)
                                        + (IF u = topic THEN Cardinality(W) ELSE 0)]
      /\ timers' = [u \in Topics |-> timers[u] + (IF u = topic THEN Cardinality(W) ELSE 0)]
    BY <1>3, GoneFromTopic DEF Relisten
<1>6. Mounted' = Mounted /\ \A x \in Mounted : stream'[x].topic = topic
    BY <1>3 DEF Mounted, Open, NewStream, NoStream, TopicsOK, Routed
<1>7. \A u \in Topics : listens'[u] = listens[u] /\ (u # topic => timers'[u] = timers[u])
    BY <1>4, <1>5, MountedFinite DEF TopicsOK
<1>8. listens[topic] # 0
    BY <1>1, <1>4, MountedFinite DEF TopicsOK, OneTopic
<1>9. listens' \in [Topics -> 0..Cardinality(Watchers)] /\ timers' \in [Topics -> Nat]
    BY <1>4, <1>5, <1>7, MountedFinite DEF TopicsOK
<1>10. OneTopic'
    BY <1>1, <1>5, <1>6, <1>7, <1>8 DEF OneTopic, TopicsOK
<1>11. Routed'
    BY <1>5, <1>6 DEF Routed
<1> QED
    BY <1>1, <1>5, <1>9, <1>10, <1>11 DEF TopicsOK

\* The last timer of a topic that nobody listens to gives it up; any other does nothing.
LEMMA TimerTopics ==
    ASSUME TopicsOK, NEW t \in Topics, UnsubscribeTimer(t)
    PROVE  TopicsOK'
<1>1. /\ timers[t] > 0 /\ timers' = [timers EXCEPT ![t] = @ - 1]
      /\ UNCHANGED <<listens, stream>>
      /\ IF listens[t] > 0 THEN topic' = topic ELSE topic' = 0
    BY DEF UnsubscribeTimer
<1>2. t = topic /\ topic # 0
    BY <1>1, ZeroIsNoTopic DEF TopicsOK, OneTopic
<1>3. Mounted' = Mounted
    BY <1>1 DEF Mounted, Open
<1>4. timers' \in [Topics -> Nat]
    BY <1>1 DEF TopicsOK
<1>5. CASE listens[t] > 0
    BY <1>1, <1>2, <1>3, <1>4, <1>5 DEF TopicsOK, OneTopic, Routed
<1>6. CASE ~(listens[t] > 0)
  <2>1. listens[t] = 0
      BY <1>6, MountedFinite, WatchersAssumption, FS_CardinalityType DEF TopicsOK
  <2>2. Mounted = {} /\ timers[t] = 1
      BY <1>2, <2>1, MountedFinite, FS_EmptySet DEF TopicsOK, OneTopic
  <2> QED
      BY <1>1, <1>2, <1>3, <1>4, <1>6, <2>1, <2>2 DEF TopicsOK, OneTopic, Routed
<1> QED
    BY <1>5, <1>6

\* A step that leaves topics alone, and which streams are there and where.
LEMMA SameTopics ==
    ASSUME TopicsOK, UNCHANGED topicVars,
           \A w \in Watchers : stream'[w].topic = stream[w].topic /\ (Open(w)' <=> Open(w))
    PROVE  TopicsOK'
<1>1. Mounted' = Mounted
    BY DEF Mounted
<1> QED
    BY <1>1 DEF TopicsOK, OneTopic, Routed, Mounted

-----------------------------------------------------------------------------
(* Types *)

LEMMA EmptyType == Empty \in Contents /\ 0 \in 0..MaxWrites /\ MaxWrites \in Nat
BY LiveBoundsAssumption DEF Empty, Contents

LEMMA NoStreamType == NoStream \in StreamRecord
BY EmptyType DEF NoStream, StreamRecord

LEMMA NewStreamType ==
    ASSUME TopicsOK, NEW w \in Watchers, NEW refetch \in BOOLEAN
    PROVE  /\ NewStream(refetch) \in StreamRecord
           /\ NewStream(refetch).phase = "waiting" /\ NewStream(refetch).topic = TopicOfListen
<1>1. TopicOfListen \in {0} \cup Topics
    BY TopicOfListenType
<1> QED
    BY <1>1, EmptyType DEF NewStream, NoStream, StreamRecord

LEMMA AddedType ==
    ASSUME NEW old \in Contents, NEW answer \in Contents
    PROVE  Added(old, answer) \in Contents /\ Reconciled(old, answer) \in Contents
BY EmptyType DEF Added, Reconciled, Fresh, Contents

LEMMA AppliedType ==
    ASSUME NEW old \in Contents, NEW c \in Change
    PROVE  Applied(old, c) \in Contents
BY EmptyType DEF Applied, Contents, Change

LEMMA StreamPhase ==
    ASSUME NEW w \in Watchers, stream \in [Watchers -> StreamRecord], NEW s \in StreamRecord,
           s.topic = stream[w].topic, s.phase # "none" <=> stream[w].phase # "none",
           stream' = [stream EXCEPT ![w] = s], TopicsOK, UNCHANGED topicVars
    PROVE  stream' \in [Watchers -> StreamRecord] /\ TopicsOK'
<1>1. \A x \in Watchers : stream'[x].topic = stream[x].topic /\ (Open(x)' <=> Open(x))
    BY DEF Open
<1> QED
    BY <1>1, SameTopics

-----------------------------------------------------------------------------
(* The invariant is inductive, action by action *)

LEMMA InvInit ==
    ASSUME LiveInit
    PROVE  TopicIInv
<1>1. DataOK
    BY EmptyType, LeftType, LeftWrite DEF LiveInit, DataOK
<1>2. ViewOK
    BY EmptyType DEF LiveInit, ViewOK
<1>3. stream \in [Watchers -> StreamRecord]
    BY NoStreamType DEF LiveInit
<1>4. Mounted = {}
    BY DEF LiveInit, Mounted, Open, NoStream
<1>5. TopicsOK
    BY <1>4, WatchersAssumption, FS_CardinalityType DEF LiveInit, TopicsOK, Routed, OneTopic
<1> QED
    BY <1>1, <1>2, <1>3, <1>5 DEF TopicIInv

LEMMA MountStep ==
    ASSUME TopicIInv, NEW w \in Watchers, Mount(w)
    PROVE  TopicIInv'
<1>1. DataOK'
    BY DEF TopicIInv, DataOK, Mount
<1>2. ViewOK'
    BY EmptyType DEF TopicIInv, ViewOK, Mount
<1>3. stream' \in [Watchers -> StreamRecord]
    BY NewStreamType DEF TopicIInv, Mount
<1>4. TopicsOK'
    BY MountTopics DEF TopicIInv, Mount
<1> QED
    BY <1>1, <1>2, <1>3, <1>4 DEF TopicIInv

LEMMA UsedOK ==
    ASSUME DataOK, NEW e \in {"drop", "end", "fail"}, May(e), Used(e),
           UNCHANGED <<serverVars, up, down, socket>>
    PROVE  DataOK'
<1>1. left' \in [{"write", "drop", "end", "fail"} -> Nat] /\ left'["write"] = left["write"]
    BY DEF DataOK, May, Used
<1> QED
    BY <1>1 DEF DataOK

LEMMA UnmountStep ==
    ASSUME TopicIInv, Patient, NEW w \in Watchers, Unmount(w)
    PROVE  TopicIInv'
<1>1. DataOK'
    BY UsedOK DEF TopicIInv, Unmount
<1>2. ViewOK'
    BY EmptyType DEF TopicIInv, ViewOK, Unmount
<1>3. stream' \in [Watchers -> StreamRecord]
    BY NoStreamType DEF TopicIInv, Unmount
<1>4. TopicsOK'
    BY UnmountTopics DEF TopicIInv, Unmount
<1> QED
    BY <1>1, <1>2, <1>3, <1>4 DEF TopicIInv

LEMMA QueryAgainStep ==
    ASSUME TopicIInv, NEW w \in Watchers, QueryAgain(w)
    PROVE  TopicIInv'
<1>1. DataOK'
    BY UsedOK DEF TopicIInv, QueryAgain
<1>2. stream[w].replay \in Contents
    BY DEF TopicIInv, StreamRecord
<1>3. ViewOK'
    BY <1>2, EmptyType DEF TopicIInv, ViewOK, QueryAgain
<1>4. CASE SameFilters
  <2>1. UNCHANGED <<topicVars, stream>>
      BY <1>4 DEF QueryAgain
  <2>2. TopicsOK'
      BY <2>1, SameTopics DEF TopicIInv, Open
  <2> QED
      BY <1>1, <1>3, <2>1, <2>2 DEF TopicIInv
<1>5. CASE ~SameFilters
  <2>1. Relisten({w}, TRUE) /\ stream' = [stream EXCEPT ![w] = NewStream(FALSE)]
      BY <1>5 DEF QueryAgain
  <2>2. {w} \in SUBSET Mounted
      BY DEF QueryAgain, Mounted
  <2>3. stream' = [x \in Watchers |-> IF x \in {w} THEN NewStream(FALSE) ELSE stream[x]]
      BY <2>1 DEF TopicIInv
  <2>4. TopicsOK'
      BY <2>1, <2>2, <2>3, ReplaceTopics DEF TopicIInv
  <2>5. stream' \in [Watchers -> StreamRecord]
      BY <2>1, NewStreamType DEF TopicIInv
  <2> QED
      BY <1>1, <1>3, <2>4, <2>5 DEF TopicIInv
<1> QED
    BY <1>4, <1>5

LEMMA ConnectStep ==
    ASSUME TopicIInv, Connect
    PROVE  TopicIInv'
<1>1. DataOK'
  <2>1. up' \in Seq({"start", "unsubscribe"}) /\ down' = <<>>
      BY DEF Connect, TopicIInv, DataOK
  <2> QED
      BY <2>1 DEF Connect, TopicIInv, DataOK
<1>2. ViewOK'
    BY DEF TopicIInv, ViewOK, Connect
<1>3. CASE UNCHANGED <<stream, topicVars>>
  <2>1. TopicsOK'
      BY <1>3, SameTopics DEF TopicIInv, Open
  <2> QED
      BY <1>1, <1>2, <1>3, <2>1 DEF TopicIInv
<1>4. CASE ReconnectedStreams # stream /\ stream' = ReconnectedStreams /\ Relisten(Mounted, TRUE)
  <2>1. Mounted # {} /\ Mounted \subseteq Watchers
      BY <1>4 DEF ReconnectedStreams, TopicIInv, Mounted
  <2>2. stream' = [x \in Watchers |-> IF x \in Mounted THEN NewStream(TRUE) ELSE stream[x]]
      BY <1>4 DEF ReconnectedStreams
  <2>3. TopicsOK'
      BY <1>4, <2>1, <2>2, ReplaceTopics DEF TopicIInv
  <2>4. \A x \in Watchers : NewStream(TRUE) \in StreamRecord
      BY NewStreamType DEF TopicIInv
  <2>5. stream' \in [Watchers -> StreamRecord]
      BY <2>2, <2>4 DEF TopicIInv
  <2> QED
      BY <1>1, <1>2, <2>3, <2>5 DEF TopicIInv
<1> QED
    BY <1>3, <1>4 DEF Connect

\* A step that touches neither the streams nor the topics.
LEMMA StillStreams ==
    ASSUME TopicIInv, DataOK', ViewOK', UNCHANGED <<topicVars, stream>>
    PROVE  TopicIInv'
<1>1. TopicsOK'
    BY SameTopics DEF TopicIInv, Open
<1> QED
    BY <1>1 DEF TopicIInv

LEMMA DisconnectStep ==
    ASSUME TopicIInv, Disconnect
    PROVE  TopicIInv'
<1>1. left' \in [{"write", "drop", "end", "fail"} -> Nat] /\ left'["write"] = left["write"]
    BY DEF TopicIInv, DataOK, Disconnect, May, Used
<1>2. DataOK'
  <2>1. gateway' \in [link : {"none", "up", "dead"}, subscribed : BOOLEAN, missed : Seq(Change)]
      BY DEF TopicIInv, DataOK, Disconnect
  <2>2. up' = <<>> /\ down' = <<>> /\ UNCHANGED <<db, written>>
      BY DEF Disconnect
  <2>3. socket' \in [connected : BOOLEAN, seen : BOOLEAN, queue : Seq({"start", "unsubscribe"})]
      BY DEF TopicIInv, DataOK, Disconnect
  <2> QED
      BY <1>1, <2>1, <2>2, <2>3 DEF TopicIInv, DataOK
<1>3. ViewOK'
    BY DEF TopicIInv, ViewOK, Disconnect
<1> QED
    BY <1>2, <1>3, StillStreams DEF Disconnect

LEMMA GatewayStep ==
    ASSUME TopicIInv, GatewayNotices \/ GraceOver \/ GatewayReceives
    PROVE  TopicIInv'
<1>1. DataOK'
  <2>1. CASE GatewayNotices
      BY <2>1 DEF TopicIInv, DataOK, GatewayNotices
  <2>2. CASE GraceOver
    <3>1. <<>> \in Seq(Change)
        OBVIOUS
    <3>2. gateway' \in [link : {"none", "up", "dead"}, subscribed : BOOLEAN, missed : Seq(Change)]
        BY <2>2, <3>1 DEF TopicIInv, DataOK, GraceOver
    <3> QED
        BY <2>2, <3>2 DEF TopicIInv, DataOK, GraceOver
  <2>3. CASE GatewayReceives
    <3>1. up' \in Seq({"start", "unsubscribe"})
        BY <2>3 DEF TopicIInv, DataOK, GatewayReceives
    <3>2. down' \in Seq(Change)
      <4>1. gateway.missed \in Seq(Change) /\ down \in Seq(Change)
          BY DEF TopicIInv, DataOK
      <4>2. down \o gateway.missed \in Seq(Change)
          BY <4>1, ConcatProperties
      <4> QED
          BY <2>3, <4>1, <4>2 DEF GatewayReceives
    <3>3. gateway' \in [link : {"none", "up", "dead"}, subscribed : BOOLEAN, missed : Seq(Change)]
      <4>1. <<>> \in Seq(Change)
          OBVIOUS
      <4> QED
          BY <2>3, <4>1 DEF TopicIInv, DataOK, GatewayReceives
    <3> QED
        BY <2>3, <3>1, <3>2, <3>3 DEF TopicIInv, DataOK, GatewayReceives
  <2> QED
      BY <2>1, <2>2, <2>3
<1>2. ViewOK'
    BY DEF TopicIInv, ViewOK, GatewayNotices, GraceOver, GatewayReceives
<1> QED
    BY <1>1, <1>2, StillStreams DEF GatewayNotices, GraceOver, GatewayReceives

LEMMA WriteStep ==
    ASSUME TopicIInv, NEW d \in Docs, NEW type \in {"added", "modified", "removed"}, Write(d, type)
    PROVE  TopicIInv'
<1>1. /\ left' \in [{"write", "drop", "end", "fail"} -> Nat] /\ left'["write"] = left["write"] - 1
      /\ left["write"] > 0 /\ left["write"] \in Nat
    BY DEF TopicIInv, DataOK, Write, May, Used
<1>2. written' = written + 1 /\ written' \in 0..MaxWrites /\ written' + left'["write"] = MaxWrites
  <2>1. written' = written + 1 /\ written \in Nat /\ written + left["write"] = MaxWrites
      BY DEF TopicIInv, DataOK, Write
  <2> QED
      BY <1>1, <2>1, LiveBoundsAssumption
<1>3. [doc |-> d, type |-> type, at |-> written + 1] \in Change
    BY <1>2 DEF Change
<1>4. db' \in Contents
    BY <1>2, EmptyType DEF TopicIInv, DataOK, Contents, Write
<1>5. down' \in Seq(Change)
    BY <1>3, AppendProperties DEF TopicIInv, DataOK, Write
<1>6. gateway' \in [link : {"none", "up", "dead"}, subscribed : BOOLEAN, missed : Seq(Change)]
  <2>1. gateway.missed \in Seq(Change)
      BY DEF TopicIInv, DataOK
  <2>2. Append(gateway.missed, [doc |-> d, type |-> type, at |-> written + 1]) \in Seq(Change)
      BY <1>3, <2>1, AppendProperties
  <2> QED
      BY <2>2 DEF TopicIInv, DataOK, Write
<1>7. DataOK'
    BY <1>1, <1>2, <1>4, <1>5, <1>6 DEF TopicIInv, DataOK, Write
<1>8. ViewOK'
    BY DEF TopicIInv, ViewOK, Write
<1> QED
    BY <1>7, <1>8, StillStreams DEF Write

\* A read on its way: its phase moves on, its stream stays.
LEMMA ReadStep ==
    ASSUME TopicIInv, NEW w \in Watchers, Ask(w) \/ Register(w) \/ Read(w)
    PROVE  TopicIInv'
<1>1. DataOK'
    BY DEF TopicIInv, DataOK, Ask, Register, Registered, Read
<1>2. ViewOK'
    BY DEF TopicIInv, ViewOK, Ask, Register, Read
<1>3. PICK p \in {"asked", "registered", "served", "read"}, a \in Contents, n \in 0..MaxWrites :
          stream' = [stream EXCEPT ![w] = [stream[w] EXCEPT !.phase = p, !.answer = a, !.asOf = n]]
  <2>1. CASE Ask(w)
    <3>1. stream' = [stream EXCEPT ![w] = [stream[w] EXCEPT !.phase = "asked",
                         !.answer = stream[w].answer, !.asOf = stream[w].asOf]]
        BY <2>1 DEF TopicIInv, Ask, StreamRecord
    <3> QED
        BY <3>1 DEF TopicIInv, StreamRecord
  <2>2. CASE Register(w)
    <3>1. stream' = [stream EXCEPT ![w] = [stream[w] EXCEPT
                         !.phase = IF SubscribeFirst THEN "registered" ELSE "served",
                         !.answer = stream[w].answer, !.asOf = stream[w].asOf]]
        BY <2>2 DEF TopicIInv, Register, StreamRecord
    <3> QED
        BY <3>1 DEF TopicIInv, StreamRecord
  <2>3. CASE Read(w)
    <3>1. stream' = [stream EXCEPT ![w] = [stream[w] EXCEPT
                         !.phase = IF SubscribeFirst THEN "served" ELSE "read",
                         !.answer = db, !.asOf = written]]
        BY <2>3 DEF TopicIInv, Read, StreamRecord
    <3> QED
        BY <3>1 DEF TopicIInv, DataOK
  <2> QED
      BY <2>1, <2>2, <2>3
<1>4. [stream[w] EXCEPT !.phase = p, !.answer = a, !.asOf = n] \in StreamRecord
    BY DEF TopicIInv, StreamRecord
<1>5. stream[w].phase # "none" /\ UNCHANGED topicVars
    BY DEF Ask, Register, RegistersAt, Read, ReadsAt
<1>6. stream' \in [Watchers -> StreamRecord] /\ TopicsOK'
  <2> DEFINE s == [stream[w] EXCEPT !.phase = p, !.answer = a, !.asOf = n]
  <2>1. s.topic = stream[w].topic /\ s.phase # "none"
      BY DEF TopicIInv, StreamRecord
  <2> HIDE DEF s
  <2> QED
      BY <1>3, <1>4, <1>5, <2>1, StreamPhase DEF TopicIInv, s
<1> QED
    BY <1>1, <1>2, <1>6 DEF TopicIInv

LEMMA AnswerStep ==
    ASSUME TopicIInv, NEW w \in Watchers, Answer(w)
    PROVE  TopicIInv'
<1> DEFINE s == stream[w]
<1>1. s \in StreamRecord /\ s.answer \in Contents /\ s.phase = "served"
    BY DEF TopicIInv, StreamRecord, Answer
<1>2. DataOK'
    BY DEF TopicIInv, DataOK, Answer
<1>3. Added(stored, s.answer) \in Contents /\ Added(Empty, s.answer) \in Contents
    BY <1>1, AddedType, EmptyType DEF TopicIInv, ViewOK
<1>4. ViewOK'
  <2>1. \A v \in Watchers : Added(list[v], s.answer) \in Contents /\ Reconciled(list[v], s.answer) \in Contents
      BY <1>1, AddedType DEF TopicIInv, ViewOK
  <2>2. stored' = Added(stored, s.answer) /\ status' = IF s.emitted THEN status ELSE [status EXCEPT ![w] = "ready"]
      BY DEF Answer
  <2>3. list' = [v \in Watchers |->
                 IF s.emitted THEN (IF Open(v) THEN Added(list[v], s.answer) ELSE list[v])
                 ELSE IF v # w THEN list[v]
                 ELSE IF s.refetch THEN Reconciled(list[v], s.answer) ELSE Added(list[v], s.answer)]
      BY DEF Answer
  <2>4. list' \in [Watchers -> Contents]
      BY <2>1, <2>3 DEF TopicIInv, ViewOK
  <2> QED
      BY <1>3, <2>2, <2>4 DEF TopicIInv, ViewOK
<1>5. PICK r \in Contents :
          stream' = [stream EXCEPT ![w] = [s EXCEPT !.phase = "answered", !.emitted = TRUE, !.replay = r]]
  <2>1. s.replay \in Contents
      BY <1>1 DEF StreamRecord
  <2>2. stream' = [stream EXCEPT ![w] = [s EXCEPT !.phase = "answered", !.emitted = TRUE,
                       !.replay = IF s.emitted THEN @ ELSE Added(Empty, s.answer)]]
      BY DEF TopicIInv, Answer
  <2> QED
      BY <1>1, <1>3, <2>1, <2>2 DEF StreamRecord
<1>6. UNCHANGED topicVars
    BY DEF Answer
<1>7. stream' \in [Watchers -> StreamRecord] /\ TopicsOK'
  <2> DEFINE n == [s EXCEPT !.phase = "answered", !.emitted = TRUE, !.replay = r]
  <2>1. n \in StreamRecord /\ n.topic = stream[w].topic /\ n.phase # "none"
      BY <1>1 DEF StreamRecord
  <2>2. stream' = [stream EXCEPT ![w] = n]
      BY <1>5
  <2> HIDE DEF n
  <2> QED
      BY <1>1, <1>6, <2>1, <2>2, StreamPhase DEF TopicIInv
<1> QED
    BY <1>2, <1>4, <1>7 DEF TopicIInv

LEMMA AnswerFailsStep ==
    ASSUME TopicIInv, NEW w \in Watchers, AnswerFails(w)
    PROVE  TopicIInv'
<1> DEFINE n == [stream[w] EXCEPT !.phase = "failed", !.emitted = TRUE]
<1>1. stream[w] \in StreamRecord /\ stream[w].phase # "none"
    BY DEF TopicIInv, AnswerFails
<1>2. DataOK'
    BY UsedOK DEF TopicIInv, AnswerFails
<1>3. ViewOK'
    BY EmptyType DEF TopicIInv, ViewOK, AnswerFails
<1>4. stream' = [stream EXCEPT ![w] = n]
    BY DEF TopicIInv, AnswerFails
<1>5. n \in StreamRecord /\ n.topic = stream[w].topic /\ n.phase # "none"
    BY <1>1 DEF StreamRecord
<1>6. UNCHANGED topicVars
    BY DEF AnswerFails
<1>7. stream' \in [Watchers -> StreamRecord] /\ TopicsOK'
  <2> HIDE DEF n
  <2> QED
      BY <1>1, <1>4, <1>5, <1>6, StreamPhase DEF TopicIInv
<1> QED
    BY <1>2, <1>3, <1>7 DEF TopicIInv

LEMMA ReceiveStep ==
    ASSUME TopicIInv, Receive
    PROVE  TopicIInv'
<1> DEFINE c == Head(down)
           dropped == c.type # "removed" /\ Older(c.doc, c.at)
           first == {w \in Listening : ~stream[w].emitted}
           shared == \E w \in Listening : stream[w].emitted
           base(w) == IF w \in first /\ stream[w].refetch
                      THEN [d \in Docs |-> IF d = c.doc /\ ~dropped THEN list[w][d] ELSE 0]
                      ELSE list[w]
           nextList(w) == IF dropped \/ ~(w \in first \/ (shared /\ Open(w))) THEN base(w)
                          ELSE Applied(base(w), c)
           replay == IF dropped THEN Empty ELSE Applied(Empty, c)
<1>1. c \in Change /\ down' \in Seq(Change)
    BY HeadTailProperties DEF TopicIInv, DataOK, Receive
<1>2. DataOK'
    BY <1>1 DEF TopicIInv, DataOK, Receive
<1>3. replay \in Contents /\ Applied(stored, c) \in Contents
    BY <1>1, AppliedType, EmptyType DEF TopicIInv, ViewOK
<1>4. /\ stream' = [w \in Watchers |->
            IF w \notin first THEN stream[w]
            ELSE [stream[w] EXCEPT !.emitted = TRUE, !.early = TRUE, !.replay = replay]]
      /\ stored' = IF Listening = {} \/ dropped THEN stored ELSE Applied(stored, c)
      /\ list' = [w \in Watchers |-> nextList(w)]
      /\ status' = [w \in Watchers |-> IF w \in first THEN "ready" ELSE status[w]]
      /\ UNCHANGED topicVars
    BY DEF Receive
<1>5. \A w \in Watchers : base(w) \in Contents
    BY EmptyType DEF TopicIInv, ViewOK, Contents
<1>6. \A w \in Watchers : nextList(w) \in Contents
  <2> HIDE DEF dropped, first, shared, base, c
  <2> QED
      BY <1>1, <1>5, AppliedType
<1>7. ViewOK'
  <2> HIDE DEF dropped, first, shared, nextList, c
  <2> QED
      BY <1>3, <1>4, <1>6 DEF TopicIInv, ViewOK
<1>8. \A w \in Watchers : /\ stream'[w] \in StreamRecord /\ stream'[w].topic = stream[w].topic
                          /\ stream'[w].phase = stream[w].phase
  <2> HIDE DEF dropped, first, replay
  <2>1. \A w \in Watchers : /\ stream[w] \in StreamRecord
                            /\ [stream[w] EXCEPT !.emitted = TRUE, !.early = TRUE, !.replay = replay] \in StreamRecord
      BY <1>3 DEF TopicIInv, StreamRecord
  <2> QED
      BY <1>4, <2>1 DEF StreamRecord
<1>9. TopicsOK'
    BY <1>4, <1>8, SameTopics DEF TopicIInv, Open
<1>10. stream' \in [Watchers -> StreamRecord]
  <2> HIDE DEF dropped, first, replay
  <2> QED
      BY <1>4, <1>8
<1> QED
    BY <1>2, <1>7, <1>9, <1>10 DEF TopicIInv

LEMMA TimerStep ==
    ASSUME TopicIInv, NEW t \in Topics, UnsubscribeTimer(t)
    PROVE  TopicIInv'
<1>1. up' \in Seq({"start", "unsubscribe"})
  <2>1. up \in Seq({"start", "unsubscribe"}) /\ Append(up, "unsubscribe") \in Seq({"start", "unsubscribe"})
      BY AppendProperties DEF TopicIInv, DataOK
  <2> QED
      BY <2>1 DEF UnsubscribeTimer
<1>2. socket' \in [connected : BOOLEAN, seen : BOOLEAN, queue : Seq({"start", "unsubscribe"})]
  <2>1. socket.queue \in Seq({"start", "unsubscribe"})
      BY DEF TopicIInv, DataOK
  <2>2. Append(socket.queue, "unsubscribe") \in Seq({"start", "unsubscribe"})
      BY <2>1, AppendProperties
  <2> QED
      BY <2>2 DEF TopicIInv, DataOK, UnsubscribeTimer
<1>3. DataOK'
    BY <1>1, <1>2 DEF TopicIInv, DataOK, UnsubscribeTimer
<1>4. ViewOK' /\ stream' \in [Watchers -> StreamRecord]
    BY DEF TopicIInv, ViewOK, UnsubscribeTimer
<1>5. TopicsOK'
    BY TimerTopics DEF TopicIInv
<1> QED
    BY <1>3, <1>4, <1>5 DEF TopicIInv

LEMMA InvNext ==
    ASSUME Patient, TopicIInv, [LiveNext]_liveVars
    PROVE  TopicIInv'
<1>1. CASE UNCHANGED liveVars
  <2>1. DataOK' /\ ViewOK'
      BY <1>1 DEF TopicIInv, DataOK, ViewOK
  <2> QED
      BY <1>1, <2>1, StillStreams
<1>2. CASE LiveNext
    BY <1>2, ConnectStep, DisconnectStep, GatewayStep, ReceiveStep, TimerStep, MountStep, UnmountStep,
       QueryAgainStep, ReadStep, AnswerStep, AnswerFailsStep, WriteStep DEF LiveNext
<1> QED
    BY <1>1, <1>2

LEMMA InvAgree ==
    ASSUME TopicIInv
    PROVE  LiveInv
BY DEF TopicIInv, LiveInv, LiveTypeOK, DataOK, ViewOK, TopicsOK, Contents

\* In every state of a client whose streams end one unsubscribe at a time, all the
\* streams of a ref are on one topic object, whose count is theirs.
THEOREM TopicInvariance ==
    ASSUME Patient
    PROVE  LiveSpec => []TopicIInv
BY InvInit, InvNext, PTL DEF LiveSpec

\* "An unsubscribe for a ref that is listened to again: sending it would cut that ref
\* off" (Socket.ts): whatever order frames, answers, drops and timers come in, and
\* however often a collection is mounted, queried again or refetched, an open stream
\* is on the topic object that frames of its ref are routed to.
THEOREM OpenStreamsAreRouted ==
    ASSUME Patient
    PROVE  LiveSpec => []LiveInv
BY TopicInvariance, InvAgree, PTL

-----------------------------------------------------------------------------
(* What a list is owed: the changes on their way, and the answers that wait for *)
(* them. Requests follow the frames sent before them, changes and answers come in *)
(* the order they were made, the read subscribes before it reads.             *)

Orderly ==
    /\ SubscribeFirst = TRUE /\ Patient = TRUE
    /\ HttpOvertakes = FALSE /\ FramesOvertake = FALSE /\ SlowStart = FALSE /\ SameFilters = FALSE

In(s) == {s[i] : i \in 1..Len(s)}
Sent == In(down)
Rising(s) == \A i, j \in 1..Len(s) : i < j => s[i].at < s[j].at

\* What a change leaves of its document.
Leaves(c) == IF c.type = "removed" THEN 0 ELSE c.at

\* The versions grow: nobody holds one that is newer than the server's.
AgesOK ==
    /\ Rising(down) /\ Rising(gateway.missed)
    /\ \A c \in Sent \cup In(gateway.missed) :
          c.at # 0 /\ c.at <= written /\ (db[c.doc] # 0 => c.at <= db[c.doc])
    /\ \A d \in Docs : /\ db[d] <= written /\ stored[d] <= written
                       /\ db[d] # 0 => stored[d] <= db[d]
    /\ \A w \in Watchers : stream[w].asOf <= written
    /\ \A w \in Watchers, d \in Docs : /\ stream[w].answer[d] <= stream[w].asOf
                                       /\ db[d] # 0 => stream[w].answer[d] <= db[d]

\* The gateway knows of a connection what has arrived on it: `start` comes first.
LinkOK ==
    /\ ~socket.connected => up = <<>> /\ down = <<>> /\ gateway.link # "up"
    /\ socket.connected => socket.seen
    /\ socket.queue \in Seq({"unsubscribe"})
    /\ socket.connected /\ gateway.link = "up" => up \in Seq({"unsubscribe"})
    /\ socket.connected /\ gateway.link # "up" =>
          up # <<>> /\ Head(up) = "start" /\ Tail(up) \in Seq({"unsubscribe"}) /\ down = <<>>

Before == {"waiting", "asked", "registered", "served"}
First(w) == stream[w].phase \in Before /\ ~stream[w].emitted /\ ~stream[w].refetch

\* A stream that was read on this connection is subscribed; none was before the first.
PhasesOK ==
    /\ \A w \in Watchers : stream[w].phase # "read"
    /\ ~socket.seen => \A w \in Watchers : stream[w].phase \in {"none", "waiting"} /\ list[w] = Empty
    /\ \A w \in Watchers : /\ stream[w].phase \in Before /\ stream[w].emitted => stream[w].early
                           /\ stream[w].phase = "answered" => stream[w].emitted
    /\ socket.connected => \A w \in Watchers :
          stream[w].phase \in {"registered", "served", "answered"} => gateway.subscribed /\ up = <<>>

\* The changes of a document since the read of a stream, and what they are changes of.
Since(w, d) == {c \in Sent : c.doc = d /\ c.at > stream[w].asOf}
Base(w) == IF stream[w].phase = "served" THEN stream[w].answer ELSE list[w]
Claims(w) == stream[w].phase \in {"served", "answered"}

\* Before change n the document is there: it was from the start, or a change made it,
\* and none removed it since.
There(C, base, n) ==
    \/ base # 0 /\ \A c \in C : c.at < n => c.type # "removed"
    \/ \E b \in C : /\ b.at < n /\ b.type # "removed"
                    /\ \A c \in C : b.at < c.at /\ c.at < n => c.type # "removed"

\* With changes C to come, what holds `base` will hold `now`.
Becomes(C, base, now) ==
    /\ C # {} => \E c \in C : now = Leaves(c) /\ \A b \in C : b.at <= c.at
    /\ \A c \in C : c.type = "modified" => There(C, base, c.at)

Owed(w, d) ==
    /\ Becomes(Since(w, d), Base(w)[d], db[d])
    /\ Since(w, d) = {} => \/ Base(w)[d] = db[d]
                           \/ db[d] = 0 /\ stream[w].phase = "answered" /\ stream[w].early
    /\ \A c \in Since(w, d) : stored[d] < c.at

OwedOK == \A w \in Watchers, d \in Docs : Claims(w) => Owed(w, d)

AnsweredOK == \A w \in Watchers : stream[w].phase = "answered" => \A c \in Sent : c.at > stream[w].asOf

\* An answer that waits is newer than what is stored and than what came before it, and two
\* differ by what is still to come between them.
Between(v, w, d) ==
    /\ stream[w].answer[d] # 0 => stream[v].answer[d] <= stream[w].answer[d]
    /\ stream[w].answer[d] # stream[v].answer[d] =>
          \E c \in Sent : stream[v].asOf < c.at /\ c.at <= stream[w].asOf

Waits(w) ==
    /\ \A d \in Docs : stream[w].answer[d] # 0 => stored[d] <= stream[w].answer[d]
    /\ \A c \in Sent : c.at <= stream[w].asOf /\ stream[w].answer[c.doc] # 0 => c.at <= stream[w].answer[c.doc]
    /\ \A v \in Watchers, d \in Docs :
          stream[v].phase = "served" /\ stream[v].asOf <= stream[w].asOf => Between(v, w, d)

WaitsOK == \A w \in Watchers : stream[w].phase = "served" => Waits(w)

\* A list that has no answer yet shows what those of others brought; what its own
\* answer does not mention is removed by a change that comes before it.
FilledOK == \A w \in Watchers, d \in Docs : First(w) /\ list[w][d] # 0 =>
    /\ gateway.subscribed /\ up = <<>>
    /\ stream[w].phase # "served" /\ db[d] = 0 => Sent # {}
    /\ stream[w].phase = "served" /\ stream[w].answer[d] = 0 => \E c \in Sent : c.at <= stream[w].asOf

ArrivingOK == socket.connected => OwedOK /\ AnsweredOK /\ WaitsOK /\ FilledOK

CaughtIInv == TopicIInv /\ AgesOK /\ LinkOK /\ PhasesOK /\ ArrivingOK

-----------------------------------------------------------------------------
(* What is typed, and what a sequence holds *)

\* The types of what the invariant compares.
Compares ==
    /\ written \in Nat
    /\ \A d \in Docs : db[d] \in Nat /\ stored[d] \in Nat
    /\ \A w \in Watchers : stream[w] \in StreamRecord /\ stream[w].asOf \in Nat
    /\ \A w \in Watchers, d \in Docs : stream[w].answer[d] \in Nat /\ list[w][d] \in Nat
    /\ \A c \in Sent \cup In(gateway.missed) : c \in Change /\ c.at \in Nat /\ c.doc \in Docs

LEMMA InSeq ==
    ASSUME NEW S, NEW s \in Seq(S)
    PROVE  In(s) \subseteq S
BY DEF In

LEMMA StreamNats ==
    ASSUME NEW s \in StreamRecord, NEW d \in Docs
    PROVE  s.answer[d] \in Nat /\ s.asOf \in Nat
BY DEF StreamRecord, Contents

LEMMA Compared ==
    ASSUME TopicIInv
    PROVE  Compares
<1>1. written \in Nat /\ down \in Seq(Change) /\ gateway.missed \in Seq(Change) /\ db \in Contents
    BY DEF TopicIInv, DataOK
<1>2. \A d \in Docs : db[d] \in Nat /\ stored[d] \in Nat
    BY <1>1 DEF TopicIInv, ViewOK, Contents
<1>3. \A w \in Watchers : stream[w] \in StreamRecord /\ stream[w].asOf \in Nat
    BY DEF TopicIInv, StreamRecord
<1>4. \A w \in Watchers, d \in Docs : stream[w].answer[d] \in Nat /\ list[w][d] \in Nat
  <2>1. \A w \in Watchers, d \in Docs : list[w][d] \in Nat
      BY DEF TopicIInv, ViewOK, Contents
  <2> QED
      BY <1>3, <2>1, StreamNats
<1>5. \A c \in Sent \cup In(gateway.missed) : c \in Change
    BY <1>1, InSeq DEF Sent
<1> QED
    BY <1>1, <1>2, <1>3, <1>4, <1>5 DEF Compares, Change

\* The first change is older than the others.
LEMMA InTail ==
    ASSUME NEW s \in Seq(Change), s # <<>>, Rising(s)
    PROVE  /\ Rising(Tail(s)) /\ Head(s) \in In(s) /\ In(Tail(s)) = In(s) \ {Head(s)}
           /\ \A c \in In(Tail(s)) : Head(s).at < c.at
<1>1. /\ Len(s) \in Nat \ {0} /\ Tail(s) \in Seq(Change) /\ Len(Tail(s)) = Len(s) - 1
      /\ \A i \in 1..Len(Tail(s)) : Tail(s)[i] = s[i + 1]
      /\ Head(s) = s[1] /\ \A i \in 1..Len(s) : s[i] \in Change
    BY HeadTailProperties
<1>2. \A i \in 1..Len(s) : s[i].at \in Nat
    BY <1>1 DEF Change
<1>3. ASSUME NEW c \in In(Tail(s)) PROVE c \in In(s) /\ Head(s).at < c.at
  <2>1. PICK i \in 1..Len(Tail(s)) : c = s[i + 1]
      BY <1>1 DEF In
  <2> QED
      BY <1>1, <2>1 DEF In, Rising
<1>4. ASSUME NEW c \in In(s), c # Head(s) PROVE c \in In(Tail(s))
  <2>1. PICK i \in 1..Len(s) : c = s[i]
      BY DEF In
  <2>2. i - 1 \in 1..Len(Tail(s)) /\ Tail(s)[i - 1] = c
      BY <1>1, <1>4, <2>1
  <2> QED
      BY <2>2 DEF In
<1>5. Rising(Tail(s))
    BY <1>1 DEF Rising
<1>6. Head(s) \in In(s) /\ Head(s) \notin In(Tail(s))
    BY <1>1, <1>2, <1>3 DEF In
<1> QED
    BY <1>3, <1>4, <1>5, <1>6

LEMMA InAppend ==
    ASSUME NEW s \in Seq(Change), Rising(s), NEW c \in Change, \A b \in In(s) : b.at < c.at
    PROVE  Rising(Append(s, c)) /\ In(Append(s, c)) = In(s) \cup {c}
<1>1. /\ Len(s) \in Nat /\ Len(Append(s, c)) = Len(s) + 1
      /\ \A i \in 1..Len(s) : Append(s, c)[i] = s[i]
      /\ Append(s, c)[Len(s) + 1] = c
    BY AppendProperties
<1>2. Rising(Append(s, c))
  <2> SUFFICES ASSUME NEW i \in 1..(Len(s) + 1), NEW j \in 1..(Len(s) + 1), i < j
               PROVE  Append(s, c)[i].at < Append(s, c)[j].at
      BY <1>1 DEF Rising
  <2>1. i \in 1..Len(s)
      BY <1>1
  <2>2. CASE j = Len(s) + 1
      BY <1>1, <2>1, <2>2 DEF In
  <2>3. CASE j \in 1..Len(s)
      BY <1>1, <2>1, <2>3 DEF Rising
  <2> QED
      BY <1>1, <2>2, <2>3
<1>3. In(Append(s, c)) \subseteq In(s) \cup {c}
    BY <1>1 DEF In
<1>4. In(s) \cup {c} \subseteq In(Append(s, c))
  <2>1. \A i \in 1..Len(s) : i \in 1..(Len(s) + 1)
      BY <1>1
  <2>2. Len(s) + 1 \in 1..(Len(s) + 1)
      BY <1>1
  <2> QED
      BY <1>1, <2>1, <2>2 DEF In
<1> QED
    BY <1>2, <1>3, <1>4

LEMMA InNothing == In(<<>>) = {} /\ Rising(<<>>)
BY DEF In, Rising

-----------------------------------------------------------------------------
(* The versions grow *)

\* A stream whose answer stays, or that has none yet.
Rereads(w) ==
    \/ stream'[w].answer = stream[w].answer /\ stream'[w].asOf = stream[w].asOf
    \/ stream'[w].answer = Empty /\ stream'[w].asOf = 0

\* Nothing is written or stored, and changes only move on.
LEMMA AgesKept ==
    ASSUME Compares, AgesOK, UNCHANGED <<db, written, stored>>, Rising(down'), Rising(gateway'.missed),
           In(down') \cup In(gateway'.missed) \subseteq Sent \cup In(gateway.missed),
           \A w \in Watchers : Rereads(w)
    PROVE  AgesOK'
<1>1. \A d \in Docs : Empty[d] = 0
    BY DEF Empty
<1>2. Sent' = In(down')
    BY DEF Sent
<1>3. \A c \in Sent' \cup In(gateway'.missed) :
          c.at # 0 /\ c.at <= written' /\ (db'[c.doc] # 0 => c.at <= db'[c.doc])
    BY <1>2 DEF AgesOK
<1>4. \A w \in Watchers : stream'[w].asOf <= written'
    BY DEF AgesOK, Compares, Rereads
<1>5. ASSUME NEW w \in Watchers, NEW d \in Docs
      PROVE  stream'[w].answer[d] <= stream'[w].asOf /\ (db'[d] # 0 => stream'[w].answer[d] <= db'[d])
  <2>1. CASE stream'[w].answer = stream[w].answer /\ stream'[w].asOf = stream[w].asOf
      BY <2>1 DEF AgesOK
  <2>2. CASE stream'[w].answer = Empty /\ stream'[w].asOf = 0
      BY <1>1, <2>2 DEF Compares
  <2> QED
      BY <2>1, <2>2 DEF Rereads
<1> QED
    BY <1>3, <1>4, <1>5 DEF AgesOK

LEMMA NewStreamReads ==
    ASSUME NEW refetch
    PROVE  /\ NewStream(refetch).answer = Empty /\ NewStream(refetch).asOf = 0
           /\ NoStream.answer = Empty /\ NoStream.asOf = 0
BY DEF NewStream, NoStream

\* Streams begin and end, and reads get on.
LEMMA StreamAges ==
    ASSUME TopicIInv, Compares, AgesOK, NEW w \in Watchers,
           Mount(w) \/ Unmount(w) \/ QueryAgain(w) \/ Ask(w) \/ Register(w) \/ AnswerFails(w)
    PROVE  AgesOK'
<1>1. UNCHANGED <<db, written, down, stored>> /\ gateway'.missed = gateway.missed
    BY DEF Mount, Unmount, QueryAgain, Ask, Register, AnswerFails, TopicIInv, DataOK
<1>2. ASSUME NEW v \in Watchers PROVE Rereads(v)
  <2>1. stream \in [Watchers -> StreamRecord]
      BY DEF TopicIInv
  <2>2. CASE Mount(w)
      BY <2>1, <2>2, NewStreamReads DEF Mount, Rereads
  <2>3. CASE Unmount(w)
      BY <2>1, <2>3, NewStreamReads DEF Unmount, Rereads
  <2>4. CASE QueryAgain(w)
      BY <2>1, <2>4, NewStreamReads DEF QueryAgain, Rereads
  <2>5. CASE Ask(w) \/ Register(w) \/ AnswerFails(w)
      BY <2>1, <2>5 DEF Ask, Register, AnswerFails, Rereads, StreamRecord
  <2> QED
      BY <1>2, <2>2, <2>3, <2>4, <2>5
<1> QED
    BY <1>1, <1>2, AgesKept DEF AgesOK, Sent

\* The connection comes and goes.
LEMMA LinkAges ==
    ASSUME TopicIInv, Compares, AgesOK, LinkOK, Orderly,
           \/ Connect \/ Disconnect \/ GatewayNotices \/ GraceOver \/ GatewayReceives
           \/ \E t \in Topics : UnsubscribeTimer(t)
    PROVE  AgesOK'
<1>1. UNCHANGED <<db, written, stored>>
    BY DEF Connect, Disconnect, GatewayNotices, GraceOver, GatewayReceives, UnsubscribeTimer
<1>2. ASSUME NEW v \in Watchers PROVE Rereads(v)
  <2>1. CASE Connect
    <3>1. stream' = ReconnectedStreams \/ stream' = stream
        BY <2>1 DEF Connect
    <3> QED
        BY <1>2, <3>1, NewStreamReads DEF ReconnectedStreams, Rereads
  <2>2. CASE stream' = stream
      BY <2>2 DEF Rereads
  <2> QED
      BY <2>1, <2>2 DEF Disconnect, GatewayNotices, GraceOver, GatewayReceives, UnsubscribeTimer
<1>3. /\ Rising(down') /\ Rising(gateway'.missed)
      /\ In(down') \cup In(gateway'.missed) \subseteq Sent \cup In(gateway.missed)
  <2>1. CASE Connect \/ Disconnect
      BY <2>1, InNothing DEF Connect, Disconnect, AgesOK, TopicIInv, DataOK
  <2>2. CASE GatewayNotices \/ GraceOver \/ \E t \in Topics : UnsubscribeTimer(t)
      BY <2>2, InNothing DEF GatewayNotices, GraceOver, UnsubscribeTimer, AgesOK, Sent, TopicIInv, DataOK
  <2>3. CASE GatewayReceives /\ Head(up) # "start"
      BY <2>3 DEF GatewayReceives, AgesOK, Sent, TopicIInv, DataOK
  <2>4. CASE GatewayReceives /\ Head(up) = "start"
    <3>1. socket.connected /\ up # <<>>
        BY <2>4 DEF GatewayReceives, LinkOK, TopicIInv, DataOK
    <3>2. gateway.link # "up"
      <4>1. up \in Seq({"unsubscribe"}) => Head(up) = "unsubscribe"
          BY <3>1
      <4> QED
          BY <2>4, <3>1, <4>1 DEF LinkOK
    <3>3. down = <<>> /\ gateway.missed \in Seq(Change)
        BY <3>1, <3>2 DEF LinkOK, TopicIInv, DataOK
    <3>4. down' = gateway.missed
        BY <2>4, <3>3, ConcatEmptySeq DEF GatewayReceives
    <3>5. gateway'.missed = <<>>
        BY <2>4 DEF GatewayReceives, TopicIInv, DataOK
    <3> QED
        BY <3>4, <3>5, InNothing DEF AgesOK
  <2> QED
      BY <2>1, <2>2, <2>3, <2>4
<1> QED
    BY <1>1, <1>2, <1>3, AgesKept

\* What a write publishes.
Published(d, type) == [doc |-> d, type |-> type, at |-> written + 1]

LEMMA WriteSends ==
    ASSUME TopicIInv, TopicIInv', Compares, AgesOK, NEW d \in Docs, NEW type \in {"added", "modified", "removed"},
           Write(d, type)
    PROVE  /\ written' = written + 1 /\ Published(d, type) \in Change
           /\ db' = [db EXCEPT ![d] = Leaves(Published(d, type))]
           /\ UNCHANGED <<up, socket, stream, stored, list>>
           /\ gateway'.link = gateway.link /\ gateway'.subscribed = gateway.subscribed
           /\ Rising(down') /\ Rising(gateway'.missed)
           /\ Sent' = IF gateway.subscribed /\ gateway.link = "up" THEN Sent \cup {Published(d, type)} ELSE Sent
           /\ In(gateway'.missed) \subseteq In(gateway.missed) \cup {Published(d, type)}
<1> DEFINE c == Published(d, type)
<1>1. written' = written + 1 /\ UNCHANGED <<up, socket, stream, stored, list>>
    BY DEF Write
<1>2. c \in Change
  <2>1. written + 1 \in 0..MaxWrites
      BY <1>1 DEF TopicIInv, DataOK
  <2> QED
      BY <2>1 DEF Published, Change
<1>3. db' = [db EXCEPT ![d] = Leaves(c)]
    BY DEF Write, Published, Leaves
<1>4. down \in Seq(Change) /\ gateway.missed \in Seq(Change)
    BY DEF TopicIInv, DataOK
<1>5. \A b \in In(down) \cup In(gateway.missed) : b.at < c.at
    BY DEF Compares, AgesOK, Sent, Published
<1>6. /\ Rising(Append(down, c)) /\ In(Append(down, c)) = In(down) \cup {c}
      /\ Rising(Append(gateway.missed, c)) /\ In(Append(gateway.missed, c)) = In(gateway.missed) \cup {c}
  <2> HIDE DEF c
  <2> QED
      BY <1>2, <1>4, <1>5, InAppend DEF AgesOK
<1>7. /\ down' = IF gateway.subscribed /\ gateway.link = "up" THEN Append(down, c) ELSE down
      /\ gateway' = IF gateway.subscribed /\ gateway.link = "none" /\ KeepsMissed
                    THEN [gateway EXCEPT !.missed = Append(@, c)] ELSE gateway
    BY DEF Write, Published
<1>8. /\ gateway'.link = gateway.link /\ gateway'.subscribed = gateway.subscribed
      /\ gateway'.missed \in {gateway.missed, Append(gateway.missed, c)}
    BY <1>7 DEF TopicIInv, DataOK
<1> HIDE DEF c
<1> QED
    BY <1>1, <1>2, <1>3, <1>6, <1>7, <1>8 DEF AgesOK, Sent, c

LEMMA WriteAges ==
    ASSUME TopicIInv, TopicIInv', Compares, AgesOK, NEW d \in Docs, NEW type \in {"added", "modified", "removed"},
           Write(d, type)
    PROVE  AgesOK'
<1> DEFINE c == Published(d, type)
<1>1. /\ written' = written + 1 /\ db' = [db EXCEPT ![d] = Leaves(c)] /\ UNCHANGED <<stream, stored>>
      /\ Rising(down') /\ Rising(gateway'.missed)
      /\ Sent' \subseteq Sent \cup {c} /\ In(gateway'.missed) \subseteq In(gateway.missed) \cup {c}
    BY WriteSends
<1>2. written \in Nat /\ c.at = written + 1 /\ c.doc = d /\ Leaves(c) \in {0, written + 1}
    BY DEF Published, Leaves, Compares
<1>3. \A e \in Docs : db'[e] = IF e = d THEN Leaves(c) ELSE db[e]
    BY <1>1 DEF TopicIInv, DataOK, Contents
<1> HIDE DEF c
<1>4. ASSUME NEW b \in Sent' \cup In(gateway'.missed)
      PROVE  b.at # 0 /\ b.at <= written' /\ (db'[b.doc] # 0 => b.at <= db'[b.doc])
  <2>1. CASE b = c
      BY <1>1, <1>2, <1>3, <2>1
  <2>2. CASE b \in Sent \cup In(gateway.missed)
    <3>1. b.at \in Nat /\ b.doc \in Docs /\ b.at # 0 /\ b.at <= written /\ (db[b.doc] # 0 => b.at <= db[b.doc])
        BY <2>2 DEF AgesOK, Compares
    <3> QED
        BY <1>1, <1>2, <1>3, <3>1
  <2> QED
      BY <1>1, <2>1, <2>2
<1>5. ASSUME NEW e \in Docs
      PROVE  db'[e] <= written' /\ stored'[e] <= written' /\ (db'[e] # 0 => stored'[e] <= db'[e])
  <2>1. db[e] \in Nat /\ stored[e] \in Nat /\ db[e] <= written /\ stored[e] <= written
        /\ (db[e] # 0 => stored[e] <= db[e])
      BY DEF AgesOK, Compares
  <2> QED
      BY <1>1, <1>2, <1>3, <2>1
<1>6. ASSUME NEW w \in Watchers, NEW e \in Docs
      PROVE  stream'[w].asOf <= written' /\ stream'[w].answer[e] <= stream'[w].asOf
             /\ (db'[e] # 0 => stream'[w].answer[e] <= db'[e])
  <2>1. stream[w].asOf \in Nat /\ stream[w].answer[e] \in Nat /\ stream[w].asOf <= written
        /\ stream[w].answer[e] <= stream[w].asOf /\ (db[e] # 0 => stream[w].answer[e] <= db[e])
      BY DEF AgesOK, Compares
  <2> QED
      BY <1>1, <1>2, <1>3, <2>1
<1>7. \A w \in Watchers : stream'[w].asOf <= written'
    BY <1>1, <1>2 DEF AgesOK, Compares
<1> QED
    BY <1>1, <1>4, <1>5, <1>6, <1>7 DEF AgesOK

\* What a read does to its stream.
LEMMA ReadReads ==
    ASSUME TopicIInv, Orderly, NEW w \in Watchers, Read(w)
    PROVE  /\ stream[w].phase = "registered" /\ stream'[w].phase = "served"
           /\ stream'[w].answer = db /\ stream'[w].asOf = written
           /\ stream'[w].emitted = stream[w].emitted /\ stream'[w].refetch = stream[w].refetch
           /\ stream'[w].early = stream[w].early
           /\ \A v \in Watchers : v # w => stream'[v] = stream[v]
           /\ UNCHANGED <<serverVars, up, down, socket, viewVars>>
<1>1. stream' = [stream EXCEPT ![w] = [stream[w] EXCEPT !.phase = "served", !.answer = db, !.asOf = written]]
    BY DEF TopicIInv, Read, Orderly, StreamRecord
<1>2. stream[w] \in StreamRecord /\ stream[w].phase = "registered"
    BY DEF TopicIInv, Read, ReadsAt, Orderly
<1> QED
    BY <1>1, <1>2 DEF TopicIInv, Read, StreamRecord

LEMMA ReadAges ==
    ASSUME TopicIInv, Compares, AgesOK, Orderly, NEW w \in Watchers, Read(w)
    PROVE  AgesOK'
<1>1. /\ stream'[w].answer = db /\ stream'[w].asOf = written
      /\ \A v \in Watchers : v # w => stream'[v] = stream[v]
      /\ UNCHANGED <<serverVars, down, stored>>
    BY ReadReads
<1>2. ASSUME NEW v \in Watchers PROVE stream'[v].asOf <= written'
    BY <1>1 DEF AgesOK, Compares
<1>3. ASSUME NEW v \in Watchers, NEW d \in Docs
      PROVE  stream'[v].answer[d] <= stream'[v].asOf /\ (db'[d] # 0 => stream'[v].answer[d] <= db'[d])
    BY <1>1 DEF AgesOK, Compares
<1> QED
    BY <1>1, <1>2, <1>3 DEF AgesOK, Sent

\* What an answer does to the storage and the lists.
LEMMA AnswerSays ==
    ASSUME TopicIInv, Orderly, NEW w \in Watchers, Answer(w)
    PROVE  /\ stream[w].phase = "served" /\ stream'[w].phase = "answered" /\ stream'[w].emitted
           /\ stream'[w].answer = stream[w].answer /\ stream'[w].asOf = stream[w].asOf
           /\ stream'[w].early = stream[w].early
           /\ \A v \in Watchers : v # w => stream'[v] = stream[v]
           /\ UNCHANGED <<serverVars, up, down, socket>>
           /\ \A c \in Sent : c.at > stream[w].asOf
           /\ \A d \in Docs : stored'[d] = IF d \in Fresh(stream[w].answer) THEN stream[w].answer[d] ELSE stored[d]
           /\ \A v \in Watchers, d \in Docs :
                 /\ v # w => \/ list'[v][d] = list[v][d]
                             \/ d \in Fresh(stream[w].answer) /\ list'[v][d] = stream[w].answer[d]
                 /\ v = w => list'[v][d] = IF d \in Fresh(stream[w].answer) THEN stream[w].answer[d]
                                           ELSE IF stream[w].refetch /\ ~stream[w].emitted THEN 0 ELSE list[v][d]
<1> DEFINE s == stream[w]
<1>1. s \in StreamRecord /\ s.phase = "served" /\ Open(w)
    BY DEF TopicIInv, StreamRecord, Answer, Open
<1>2. stream' = [stream EXCEPT ![w] = [s EXCEPT !.phase = "answered", !.emitted = TRUE,
                       !.replay = IF s.emitted THEN @ ELSE Added(Empty, s.answer)]]
    BY DEF TopicIInv, Answer
<1>3. /\ stream'[w].phase = "answered" /\ stream'[w].emitted
      /\ stream'[w].answer = s.answer /\ stream'[w].asOf = s.asOf /\ stream'[w].early = s.early
      /\ \A v \in Watchers : v # w => stream'[v] = stream[v]
    BY <1>1, <1>2 DEF TopicIInv, StreamRecord
<1>4. \A c \in Sent : c.at > s.asOf
    BY DEF Answer, AnswerInOrder, Orderly, Sent, In
<1>5. \A d \in Docs : stored'[d] = IF d \in Fresh(s.answer) THEN s.answer[d] ELSE stored[d]
    BY DEF Answer, Added
<1>6. list' = [v \in Watchers |->
                 IF s.emitted THEN (IF Open(v) THEN Added(list[v], s.answer) ELSE list[v])
                 ELSE IF v # w THEN list[v]
                 ELSE IF s.refetch THEN Reconciled(list[v], s.answer) ELSE Added(list[v], s.answer)]
    BY DEF Answer
<1>7. ASSUME NEW v \in Watchers, NEW d \in Docs
      PROVE  /\ v # w => \/ list'[v][d] = list[v][d]
                         \/ d \in Fresh(s.answer) /\ list'[v][d] = s.answer[d]
             /\ v = w => list'[v][d] = IF d \in Fresh(s.answer) THEN s.answer[d]
                                       ELSE IF s.refetch /\ ~s.emitted THEN 0 ELSE list[v][d]
  <2>1. /\ Added(list[v], s.answer)[d] = IF d \in Fresh(s.answer) THEN s.answer[d] ELSE list[v][d]
        /\ Reconciled(list[v], s.answer)[d] = IF d \in Fresh(s.answer) THEN s.answer[d] ELSE 0
      BY DEF Added, Reconciled
  <2>2. list'[v] = IF s.emitted THEN (IF Open(v) THEN Added(list[v], s.answer) ELSE list[v])
                   ELSE IF v # w THEN list[v]
                   ELSE IF s.refetch THEN Reconciled(list[v], s.answer) ELSE Added(list[v], s.answer)
      BY <1>6
  <2> HIDE DEF s
  <2> QED
      BY <1>1, <2>1, <2>2
<1>8. UNCHANGED <<serverVars, up, down, socket>>
    BY DEF Answer
<1> QED
    BY <1>1, <1>3, <1>4, <1>5, <1>7, <1>8

LEMMA AnswerAges ==
    ASSUME TopicIInv, Compares, AgesOK, Orderly, NEW w \in Watchers, Answer(w)
    PROVE  AgesOK'
<1>1. UNCHANGED <<db, written, gateway, down>>
    BY AnswerSays
<1>2. \A v \in Watchers : stream'[v].answer = stream[v].answer /\ stream'[v].asOf = stream[v].asOf
    BY AnswerSays
<1>3. ASSUME NEW d \in Docs
      PROVE  db'[d] <= written' /\ stored'[d] <= written' /\ (db'[d] # 0 => stored'[d] <= db'[d])
  <2>1. stored'[d] \in {stored[d], stream[w].answer[d]}
      BY AnswerSays
  <2>2. stream[w].answer[d] \in Nat /\ stream[w].asOf \in Nat /\ written \in Nat /\ db[d] \in Nat /\ stored[d] \in Nat
      BY DEF Compares
  <2> QED
      BY <1>1, <2>1, <2>2 DEF AgesOK
<1> QED
    BY <1>1, <1>2, <1>3 DEF AgesOK, Sent

\* What a change does to the streams, the storage and the lists: everybody who is
\* mounted listens.
LEMMA ReceiveBrings ==
    ASSUME TopicIInv, AgesOK, Orderly, NEW c, c = Head(down), Receive
    PROVE  /\ c \in Change /\ c \in Sent /\ Sent' = Sent \ {c} /\ Rising(down') /\ \A b \in Sent' : c.at < b.at
           /\ \A w \in Watchers : stream[w].phase = "served" => c.at <= stream[w].asOf
           /\ UNCHANGED <<serverVars, up, socket>>
           /\ \A w \in Watchers :
                 /\ stream'[w].phase = stream[w].phase /\ stream'[w].refetch = stream[w].refetch
                 /\ stream'[w].answer = stream[w].answer /\ stream'[w].asOf = stream[w].asOf
                 /\ IF Open(w) /\ ~stream[w].emitted THEN stream'[w].emitted /\ stream'[w].early
                    ELSE stream'[w].emitted = stream[w].emitted /\ stream'[w].early = stream[w].early
           /\ \A d \in Docs : d # c.doc => stored'[d] = stored[d]
           /\ stored'[c.doc] \in {stored[c.doc], 0, c.at}
           /\ \A w \in Watchers : Open(w) /\ stream[w].emitted /\ ~Older(c.doc, c.at) => list'[w] = Applied(list[w], c)
<1>1. down \in Seq(Change) /\ down # <<>> /\ down' = Tail(down)
    BY DEF TopicIInv, DataOK, Receive
<1>2. c \in Change /\ c \in Sent /\ Sent' = Sent \ {c} /\ Rising(down') /\ \A b \in Sent' : c.at < b.at
  <2>1. c \in Change
      BY <1>1, HeadTailProperties
  <2> QED
      BY <1>1, <2>1, InTail DEF AgesOK, Sent
<1>3. \A w \in Watchers : stream[w].phase = "served" => c.at <= stream[w].asOf
    BY DEF Receive, ChangeInOrder, Orderly
<1> DEFINE dropped == c.type # "removed" /\ Older(c.doc, c.at)
           first == {w \in Listening : ~stream[w].emitted}
           shared == \E w \in Listening : stream[w].emitted
           base(w) == IF w \in first /\ stream[w].refetch
                      THEN [d \in Docs |-> IF d = c.doc /\ ~dropped THEN list[w][d] ELSE 0]
                      ELSE list[w]
           nextList(w) == IF dropped \/ ~(w \in first \/ (shared /\ Open(w))) THEN base(w)
                          ELSE Applied(base(w), c)
           replay == IF dropped THEN Empty ELSE Applied(Empty, c)
<1>4. /\ stream' = [w \in Watchers |->
            IF w \notin first THEN stream[w]
            ELSE [stream[w] EXCEPT !.emitted = TRUE, !.early = TRUE, !.replay = replay]]
      /\ stored' = IF Listening = {} \/ dropped THEN stored ELSE Applied(stored, c)
      /\ list' = [w \in Watchers |-> nextList(w)]
      /\ UNCHANGED <<serverVars, up, socket>>
    BY DEF Receive
<1>5. Listening = {w \in Watchers : Open(w)}
    BY DEF TopicIInv, TopicsOK, Routed, Mounted, Listening
<1>6. ASSUME NEW w \in Watchers
      PROVE  /\ stream'[w].phase = stream[w].phase /\ stream'[w].refetch = stream[w].refetch
             /\ stream'[w].answer = stream[w].answer /\ stream'[w].asOf = stream[w].asOf
             /\ IF Open(w) /\ ~stream[w].emitted THEN stream'[w].emitted /\ stream'[w].early
                ELSE stream'[w].emitted = stream[w].emitted /\ stream'[w].early = stream[w].early
  <2>1. stream[w] \in StreamRecord
      BY DEF TopicIInv
  <2>2. w \in first <=> Open(w) /\ ~stream[w].emitted
      BY <1>5
  <2>3. stream'[w] = IF w \notin first THEN stream[w]
                     ELSE [stream[w] EXCEPT !.emitted = TRUE, !.early = TRUE, !.replay = replay]
      BY <1>4
  <2> HIDE DEF first, replay
  <2> QED
      BY <2>1, <2>2, <2>3 DEF StreamRecord
<1>7. /\ \A d \in Docs : d # c.doc => stored'[d] = stored[d]
      /\ stored'[c.doc] \in {stored[c.doc], 0, c.at}
  <2>1. stored \in [Docs -> 0..MaxWrites] /\ c.doc \in Docs
      BY <1>2 DEF TopicIInv, ViewOK, Contents, Change
  <2>2. stored' = stored \/ stored' = Applied(stored, c)
      BY <1>4
  <2> QED
      BY <2>1, <2>2 DEF Applied
<1>8. ASSUME NEW w \in Watchers, Open(w), stream[w].emitted, ~Older(c.doc, c.at)
      PROVE  list'[w] = Applied(list[w], c)
  <2>1. ~dropped /\ w \notin first /\ shared
      BY <1>5, <1>8
  <2>2. base(w) = list[w]
      BY <2>1
  <2>3. nextList(w) = Applied(base(w), c)
      BY <1>8, <2>1
  <2> HIDE DEF nextList, base
  <2> QED
      BY <1>4, <2>2, <2>3
<1> HIDE DEF dropped, first, shared, base, nextList, replay
<1> QED
    BY <1>2, <1>3, <1>4, <1>6, <1>7, <1>8

LEMMA ReceiveAges ==
    ASSUME TopicIInv, Compares, AgesOK, Orderly, Receive
    PROVE  AgesOK'
<1> DEFINE c == Head(down)
<1>1. /\ c \in Sent /\ Sent' = Sent \ {c} /\ Rising(down') /\ UNCHANGED <<db, written, gateway>>
      /\ \A v \in Watchers : stream'[v].answer = stream[v].answer /\ stream'[v].asOf = stream[v].asOf
      /\ \A d \in Docs : d # c.doc => stored'[d] = stored[d]
      /\ stored'[c.doc] \in {stored[c.doc], 0, c.at}
  <2> HIDE DEF c
  <2> QED
      BY ReceiveBrings DEF c
<1> HIDE DEF c
<1>2. ASSUME NEW d \in Docs
      PROVE  db'[d] <= written' /\ stored'[d] <= written' /\ (db'[d] # 0 => stored'[d] <= db'[d])
  <2>1. written \in Nat /\ db[d] \in Nat /\ stored[d] \in Nat /\ c.at \in Nat /\ c.doc \in Docs
      BY <1>1 DEF Compares
  <2>2. CASE d # c.doc
      BY <1>1, <2>1, <2>2 DEF AgesOK
  <2>3. CASE d = c.doc
      BY <1>1, <2>1, <2>3 DEF AgesOK
  <2> QED
      BY <2>2, <2>3
<1> QED
    BY <1>1, <1>2 DEF AgesOK

-----------------------------------------------------------------------------
(* What the gateway knows of the connection *)

LEMMA StartFirst ==
    ASSUME NEW k \in Seq({"unsubscribe"})
    PROVE  <<"start">> \o k # <<>> /\ Head(<<"start">> \o k) = "start" /\ Tail(<<"start">> \o k) = k
<1>1. /\ <<"start">> \in Seq({"start", "unsubscribe"}) /\ k \in Seq({"start", "unsubscribe"})
      /\ Len(<<"start">>) = 1
    OBVIOUS
<1> DEFINE s == <<"start">> \o k
<1>2. /\ s \in Seq({"start", "unsubscribe"}) /\ Len(s) = 1 + Len(k) /\ Len(k) \in Nat
      /\ \A i \in 1..1 + Len(k) : s[i] = IF i <= 1 THEN <<"start">>[i] ELSE k[i - 1]
    BY <1>1, ConcatProperties
<1> HIDE DEF s
<1>3. s # <<>> /\ Head(s) = "start"
    BY <1>2
<1>4. /\ Tail(s) \in Seq({"start", "unsubscribe"}) /\ Len(Tail(s)) = Len(k)
      /\ \A i \in 1..Len(k) : Tail(s)[i] = k[i]
    BY <1>2, <1>3, HeadTailProperties
<1>5. Tail(s) = k
    BY <1>1, <1>4, SeqEqual
<1> QED
    BY <1>3, <1>5 DEF s

\* A step that leaves the connection alone.
LEMMA LinkStays ==
    ASSUME LinkOK, UNCHANGED <<up, down, socket>>, gateway'.link = gateway.link
    PROVE  LinkOK'
BY DEF LinkOK

LEMMA ReadLink ==
    ASSUME TopicIInv, LinkOK, NEW w \in Watchers,
           \/ Mount(w) \/ Unmount(w) \/ QueryAgain(w)
           \/ Ask(w) \/ Register(w) \/ Read(w) \/ Answer(w) \/ AnswerFails(w)
    PROVE  LinkOK'
<1>1. UNCHANGED <<up, down, socket>>
    BY DEF Mount, Unmount, QueryAgain, Ask, Register, Read, Answer, AnswerFails
<1>2. gateway'.link = gateway.link
    BY DEF Mount, Unmount, QueryAgain, Ask, Register, Read, Answer, AnswerFails, TopicIInv, DataOK
<1> QED
    BY <1>1, <1>2, LinkStays

LEMMA ServerLink ==
    ASSUME TopicIInv, LinkOK, Receive \/ \E d \in Docs, type \in {"added", "modified", "removed"} : Write(d, type)
    PROVE  LinkOK'
<1>1. CASE Receive
    BY <1>1 DEF LinkOK, Receive
<1>2. CASE \E d \in Docs, type \in {"added", "modified", "removed"} : Write(d, type)
  <2>1. PICK d \in Docs, type \in {"added", "modified", "removed"} : Write(d, type)
      BY <1>2
  <2>2. UNCHANGED <<up, socket>> /\ gateway'.link = gateway.link
      BY <2>1 DEF Write, TopicIInv, DataOK
  <2>3. gateway.link # "up" => down' = down
      BY <2>1 DEF Write
  <2> QED
      BY <2>2, <2>3 DEF LinkOK
<1> QED
    BY <1>1, <1>2

LEMMA ConnectLink ==
    ASSUME TopicIInv, LinkOK, Connect
    PROVE  LinkOK'
<1>1. /\ ~socket.connected /\ gateway.link # "up" /\ gateway' = gateway /\ down' = <<>>
      /\ socket'.connected /\ socket'.seen /\ socket'.queue = <<>>
    BY DEF Connect, LinkOK, TopicIInv, DataOK
<1>2. PICK k \in Seq({"unsubscribe"}) : up' = <<"start">> \o k
  <2> DEFINE kept == IF Stale THEN <<>> ELSE socket.queue
  <2>1. kept \in Seq({"unsubscribe"}) /\ up' = <<"start">> \o kept
      BY DEF Connect, LinkOK
  <2> QED
      BY <2>1
<1>3. up' # <<>> /\ Head(up') = "start" /\ Tail(up') \in Seq({"unsubscribe"})
    BY <1>2, StartFirst
<1> QED
    BY <1>1, <1>3 DEF LinkOK

LEMMA GatewayLink ==
    ASSUME TopicIInv, LinkOK, Disconnect \/ GatewayNotices \/ GraceOver \/ GatewayReceives
    PROVE  LinkOK'
<1>1. CASE Disconnect
    BY <1>1 DEF LinkOK, Disconnect, TopicIInv, DataOK
<1>2. CASE GatewayNotices \/ GraceOver
    BY <1>2 DEF LinkOK, GatewayNotices, GraceOver, TopicIInv, DataOK
<1>3. CASE GatewayReceives
  <2>1. socket.connected /\ up # <<>> /\ up' = Tail(up) /\ socket' = socket
      BY <1>3 DEF GatewayReceives, LinkOK, TopicIInv, DataOK
  <2>2. CASE gateway.link = "up"
    <3>1. up \in Seq({"unsubscribe"})
        BY <2>1, <2>2 DEF LinkOK
    <3>2. Head(up) = "unsubscribe" /\ up' \in Seq({"unsubscribe"})
        BY <2>1, <3>1
    <3>3. gateway'.link = "up"
        BY <1>3, <2>2, <3>2 DEF GatewayReceives, TopicIInv, DataOK
    <3> QED
        BY <2>1, <3>2, <3>3 DEF LinkOK
  <2>3. CASE gateway.link # "up"
    <3>1. Head(up) = "start" /\ up' \in Seq({"unsubscribe"})
        BY <2>1, <2>3 DEF LinkOK
    <3>2. gateway'.link = "up"
        BY <1>3, <3>1 DEF GatewayReceives, TopicIInv, DataOK
    <3> QED
        BY <2>1, <3>1, <3>2 DEF LinkOK
  <2> QED
      BY <2>2, <2>3
<1> QED
    BY <1>1, <1>2, <1>3

LEMMA TimerLink ==
    ASSUME TopicIInv, LinkOK, NEW t \in Topics, UnsubscribeTimer(t)
    PROVE  LinkOK'
<1>1. gateway' = gateway /\ down' = down /\ socket'.connected = socket.connected /\ socket'.seen = socket.seen
    BY DEF UnsubscribeTimer, TopicIInv, DataOK
<1>2. socket'.queue \in {socket.queue, Append(socket.queue, "unsubscribe")}
      /\ (up' = up \/ (socket.connected /\ up' = Append(up, "unsubscribe")))
    BY DEF UnsubscribeTimer, TopicIInv, DataOK
<1>3. socket'.queue \in Seq({"unsubscribe"})
    BY <1>2, AppendProperties DEF LinkOK
<1>4. up \in Seq({"unsubscribe"}) => Append(up, "unsubscribe") \in Seq({"unsubscribe"})
    BY AppendProperties
<1>5. ASSUME up # <<>>, Head(up) = "start", Tail(up) \in Seq({"unsubscribe"})
      PROVE  /\ Append(up, "unsubscribe") # <<>> /\ Head(Append(up, "unsubscribe")) = "start"
             /\ Tail(Append(up, "unsubscribe")) \in Seq({"unsubscribe"})
  <2>1. up \in Seq({"start", "unsubscribe"})
      BY DEF TopicIInv, DataOK
  <2>2. /\ Head(Append(up, "unsubscribe")) = Head(up)
        /\ Tail(Append(up, "unsubscribe")) = Append(Tail(up), "unsubscribe")
      BY <1>5, <2>1, HeadTailAppend
  <2>3. Append(Tail(up), "unsubscribe") \in Seq({"unsubscribe"})
      BY <1>5, AppendProperties
  <2> QED
      BY <1>5, <2>1, <2>2, <2>3, AppendProperties
<1> QED
    BY <1>1, <1>2, <1>3, <1>4, <1>5 DEF LinkOK

-----------------------------------------------------------------------------
(* How far the streams are *)

\* A stream that begins or ends has nothing.
LEMMA StreamBegins ==
    ASSUME TopicIInv, Orderly, NEW w \in Watchers, Mount(w) \/ Unmount(w) \/ QueryAgain(w)
    PROVE  /\ stream'[w].phase \in {"none", "waiting"} /\ ~stream'[w].emitted /\ list'[w] = Empty
           /\ \A v \in Watchers : v # w => stream'[v] = stream[v] /\ list'[v] = list[v]
           /\ UNCHANGED <<serverVars, up, down, socket, stored>>
<1>1. stream' \in {[stream EXCEPT ![w] = NewStream(FALSE)], [stream EXCEPT ![w] = NoStream]}
      /\ list' = [list EXCEPT ![w] = Empty] /\ UNCHANGED <<serverVars, up, down, socket, stored>>
    BY DEF Mount, Unmount, QueryAgain, Orderly
<1>2. /\ NewStream(FALSE).phase = "waiting" /\ ~NewStream(FALSE).emitted
      /\ NoStream.phase = "none" /\ ~NoStream.emitted
    BY DEF NewStream, NoStream
<1> QED
    BY <1>1, <1>2 DEF TopicIInv, ViewOK

\* What happens to a read: its phase.
LEMMA ReadMoves ==
    ASSUME TopicIInv, Orderly, NEW w \in Watchers, Ask(w) \/ Register(w)
    PROVE  /\ Ask(w) => stream[w].phase = "waiting" /\ stream'[w].phase = "asked" /\ gateway' = gateway
           /\ Register(w) => /\ stream[w].phase = "asked" /\ stream'[w].phase = "registered"
                             /\ up = <<>> /\ gateway' = [gateway EXCEPT !.subscribed = Registered]
           /\ stream'[w].emitted = stream[w].emitted /\ stream'[w].refetch = stream[w].refetch
           /\ stream'[w].early = stream[w].early
           /\ stream'[w].answer = stream[w].answer /\ stream'[w].asOf = stream[w].asOf
           /\ \A v \in Watchers : v # w => stream'[v] = stream[v]
           /\ UNCHANGED <<db, written, up, down, socket, viewVars>>
<1>1. stream[w] \in StreamRecord
    BY DEF TopicIInv
<1>2. CASE Ask(w)
  <2>1. stream' = [stream EXCEPT ![w] = [stream[w] EXCEPT !.phase = "asked"]] /\ stream[w].phase = "waiting"
        /\ UNCHANGED <<db, written, gateway, up, down, socket, viewVars>>
      BY <1>2 DEF Ask, TopicIInv
  <2> QED
      BY <1>1, <1>2, <2>1 DEF TopicIInv, StreamRecord, Register, RegistersAt, Orderly
<1>3. CASE Register(w)
  <2>1. /\ stream' = [stream EXCEPT ![w] = [stream[w] EXCEPT !.phase = "registered"]]
        /\ stream[w].phase = "asked" /\ up = <<>> /\ gateway' = [gateway EXCEPT !.subscribed = Registered]
        /\ UNCHANGED <<db, written, up, down, socket, viewVars>>
      BY <1>3 DEF Register, TopicIInv, RegistersAt, Arrives, Orderly
  <2> QED
      BY <1>1, <1>3, <2>1 DEF TopicIInv, StreamRecord, Ask
<1> QED
    BY <1>2, <1>3

LEMMA FailEnds ==
    ASSUME TopicIInv, NEW w \in Watchers, AnswerFails(w)
    PROVE  /\ stream[w].phase \in {"asked", "served"} /\ stream'[w].phase = "failed"
           /\ \A v \in Watchers : v # w => stream'[v] = stream[v] /\ list'[v] = list[v]
           /\ UNCHANGED <<serverVars, up, down, socket, stored>>
<1>1. stream' = [stream EXCEPT ![w] = [stream[w] EXCEPT !.phase = "failed", !.emitted = TRUE]]
    BY DEF TopicIInv, AnswerFails
<1>2. stream[w] \in StreamRecord /\ stream[w].phase \in {"asked", "served"}
    BY DEF TopicIInv, AnswerFails
<1>3. list' \in {list, [list EXCEPT ![w] = Empty]} /\ UNCHANGED <<serverVars, up, down, socket, stored>>
    BY DEF AnswerFails
<1> QED
    BY <1>1, <1>2, <1>3 DEF TopicIInv, StreamRecord, ViewOK

\* After a reconnect every stream reads again; before the first connection none did.
LEMMA ConnectRestarts ==
    ASSUME TopicIInv, LinkOK, PhasesOK, Connect
    PROVE  /\ \A w \in Watchers : /\ stream'[w].phase \in {"none", "waiting"}
                                  /\ stream'[w] = stream[w] \/ ~stream'[w].emitted
                                  /\ stream'[w].phase = "waiting" => stream'[w].refetch \/ list[w] = Empty
           /\ ~socket.connected /\ socket'.connected /\ socket'.seen /\ up' # <<>> /\ down' = <<>>
           /\ UNCHANGED <<serverVars, viewVars>>
<1>1. /\ ~socket.connected /\ socket'.connected /\ socket'.seen /\ down' = <<>> /\ UNCHANGED <<serverVars, viewVars>>
    BY DEF Connect
<1>2. up' # <<>>
    BY ConnectLink, <1>1 DEF Connect, LinkOK, TopicIInv, DataOK
<1>3. /\ NewStream(TRUE).phase = "waiting" /\ ~NewStream(TRUE).emitted /\ NewStream(TRUE).refetch
    BY DEF NewStream, NoStream
<1>4. stream' = IF socket.seen THEN ReconnectedStreams ELSE stream
    BY DEF Connect
<1>5. ASSUME NEW w \in Watchers
      PROVE  /\ stream'[w].phase \in {"none", "waiting"}
             /\ stream'[w] = stream[w] \/ ~stream'[w].emitted
             /\ stream'[w].phase = "waiting" => stream'[w].refetch \/ list[w] = Empty
  <2>1. CASE socket.seen
    <3>1. stream'[w] = IF stream[w].phase # "none" THEN NewStream(TRUE) ELSE stream[w]
        BY <1>4, <2>1 DEF ReconnectedStreams, Mounted, Open
    <3> QED
        BY <1>3, <3>1
  <2>2. CASE ~socket.seen
      BY <1>4, <2>2 DEF PhasesOK
  <2> QED
      BY <2>1, <2>2
<1> QED
    BY <1>1, <1>2, <1>5

\* An unsubscribe is sent when nobody is there.
LEMMA TimerSends ==
    ASSUME TopicIInv, NEW t \in Topics, UnsubscribeTimer(t)
    PROVE  /\ up' = up \/ \A w \in Watchers : stream[w].phase = "none"
           /\ socket'.connected = socket.connected /\ socket'.seen = socket.seen
           /\ UNCHANGED <<serverVars, down, stream, viewVars>>
<1>1. /\ timers[t] > 0 /\ (up' = up \/ listens[t] = 0)
      /\ socket'.connected = socket.connected /\ socket'.seen = socket.seen
      /\ UNCHANGED <<serverVars, down, stream, viewVars>>
  <2>1. socket' = socket \/ socket' = [socket EXCEPT !.queue = Append(@, "unsubscribe")]
      BY DEF UnsubscribeTimer
  <2>2. socket'.connected = socket.connected /\ socket'.seen = socket.seen
      BY <2>1 DEF TopicIInv, DataOK
  <2>3. timers[t] > 0 /\ (listens[t] > 0 => up' = up) /\ UNCHANGED <<serverVars, down, stream, viewVars>>
      BY DEF UnsubscribeTimer
  <2>4. listens[t] \in Nat
      BY WatchersAssumption, FS_CardinalityType DEF TopicIInv, TopicsOK
  <2> QED
      BY <2>2, <2>3, <2>4
<1>2. t = topic /\ topic # 0
    BY <1>1, ZeroIsNoTopic DEF TopicIInv, TopicsOK, OneTopic
<1>3. listens[t] = 0 => Mounted = {}
    BY <1>2, MountedFinite, FS_EmptySet DEF TopicIInv, TopicsOK, OneTopic
<1>4. Mounted = {} => \A w \in Watchers : stream[w].phase = "none"
    BY DEF Mounted, Open
<1> QED
    BY <1>1, <1>3, <1>4

\* Streams that begin and end, and reads on their way.
LEMMA StreamPhases ==
    ASSUME TopicIInv, LinkOK, PhasesOK, Orderly, NEW w \in Watchers,
           \/ Mount(w) \/ Unmount(w) \/ QueryAgain(w)
           \/ Ask(w) \/ Register(w) \/ Read(w) \/ Answer(w) \/ AnswerFails(w)
    PROVE  PhasesOK'
<1>1. CASE Mount(w) \/ Unmount(w) \/ QueryAgain(w)
  <2>1. /\ stream'[w].phase \in {"none", "waiting"} /\ ~stream'[w].emitted /\ list'[w] = Empty
        /\ \A v \in Watchers : v # w => stream'[v] = stream[v] /\ list'[v] = list[v]
        /\ UNCHANGED <<gateway, up, socket>>
      BY <1>1, StreamBegins
  <2> QED
      BY <2>1 DEF PhasesOK, Empty
<1>2. CASE Ask(w)
  <2>1. /\ stream[w].phase = "waiting" /\ stream'[w].phase = "asked" /\ UNCHANGED <<gateway, up, socket, list>>
        /\ stream'[w].emitted = stream[w].emitted /\ stream'[w].early = stream[w].early
        /\ \A v \in Watchers : v # w => stream'[v] = stream[v]
      BY <1>2, ReadMoves
  <2>2. socket.seen
      BY <1>2 DEF Ask, Orderly, LinkOK
  <2> QED
      BY <2>1, <2>2 DEF PhasesOK, Before
<1>3. CASE Register(w)
  <2>1. /\ stream[w].phase = "asked" /\ stream'[w].phase = "registered" /\ UNCHANGED <<up, socket, list>>
        /\ up = <<>> /\ gateway' = [gateway EXCEPT !.subscribed = Registered]
        /\ stream'[w].emitted = stream[w].emitted /\ stream'[w].early = stream[w].early
        /\ \A v \in Watchers : v # w => stream'[v] = stream[v]
      BY <1>3, ReadMoves
  <2>2. socket.seen
      BY <2>1 DEF PhasesOK
  <2>3. socket.connected => gateway'.subscribed
    <3>1. gateway'.subscribed = Registered
        BY <2>1 DEF TopicIInv, DataOK
    <3> QED
        BY <2>1, <3>1 DEF LinkOK, Registered
  <2> QED
      BY <2>1, <2>2, <2>3 DEF PhasesOK, Before
<1>4. CASE Read(w)
  <2>1. /\ stream[w].phase = "registered" /\ stream'[w].phase = "served" /\ UNCHANGED <<gateway, up, socket, list>>
        /\ stream'[w].emitted = stream[w].emitted /\ stream'[w].early = stream[w].early
        /\ \A v \in Watchers : v # w => stream'[v] = stream[v]
      BY <1>4, ReadReads
  <2> QED
      BY <2>1 DEF PhasesOK, Before
<1>5. CASE Answer(w)
  <2>1. /\ stream[w].phase = "served" /\ stream'[w].phase = "answered" /\ UNCHANGED <<gateway, up, socket>>
        /\ stream'[w].emitted
        /\ \A v \in Watchers : v # w => stream'[v] = stream[v]
      BY <1>5, AnswerSays
  <2>2. socket.seen
      BY <2>1 DEF PhasesOK
  <2> QED
      BY <2>1, <2>2 DEF PhasesOK, Before
<1>6. CASE AnswerFails(w)
  <2>1. /\ stream[w].phase \in {"asked", "served"} /\ stream'[w].phase = "failed" /\ UNCHANGED <<gateway, up, socket>>
        /\ \A v \in Watchers : v # w => stream'[v] = stream[v] /\ list'[v] = list[v]
      BY <1>6, FailEnds
  <2>2. socket.seen
      BY <2>1 DEF PhasesOK
  <2> QED
      BY <2>1, <2>2 DEF PhasesOK, Before
<1> QED
    BY <1>1, <1>2, <1>3, <1>4, <1>5, <1>6

\* The server writes, and changes arrive.
LEMMA ServerPhases ==
    ASSUME TopicIInv, AgesOK, LinkOK, PhasesOK, Orderly,
           Receive \/ \E d \in Docs, type \in {"added", "modified", "removed"} : Write(d, type)
    PROVE  PhasesOK'
<1>1. CASE Receive
  <2> DEFINE c == Head(down)
  <2>1. /\ UNCHANGED <<gateway, up, socket>>
        /\ \A w \in Watchers :
              /\ stream'[w].phase = stream[w].phase
              /\ IF Open(w) /\ ~stream[w].emitted THEN stream'[w].emitted /\ stream'[w].early
                 ELSE stream'[w].emitted = stream[w].emitted /\ stream'[w].early = stream[w].early
    <3> HIDE DEF c
    <3> QED
        BY <1>1, ReceiveBrings DEF c
  <2>2. socket.seen
      BY <1>1 DEF Receive, LinkOK
  <2> QED
      BY <2>1, <2>2 DEF PhasesOK
<1>2. CASE \E d \in Docs, type \in {"added", "modified", "removed"} : Write(d, type)
  <2>1. UNCHANGED <<up, socket, stream, list>>
      BY <1>2 DEF Write
  <2>2. gateway'.subscribed = gateway.subscribed
      BY <1>2 DEF Write, TopicIInv, DataOK
  <2> QED
      BY <2>1, <2>2 DEF PhasesOK, Empty
<1> QED
    BY <1>1, <1>2

\* The connection comes and goes.
LEMMA LinkPhases ==
    ASSUME TopicIInv, LinkOK, PhasesOK,
           \/ Connect \/ Disconnect \/ GatewayNotices \/ GraceOver \/ GatewayReceives
           \/ \E t \in Topics : UnsubscribeTimer(t)
    PROVE  PhasesOK'
<1>1. CASE Connect
  <2>1. /\ \A w \in Watchers : /\ stream'[w].phase \in {"none", "waiting"}
                               /\ stream'[w] = stream[w] \/ ~stream'[w].emitted
        /\ socket'.seen
      BY <1>1, ConnectRestarts
  <2> QED
      BY <2>1 DEF PhasesOK
<1>2. CASE Disconnect
  <2>1. socket.connected /\ ~socket'.connected /\ socket'.seen = socket.seen /\ UNCHANGED stream
      BY <1>2 DEF Disconnect, TopicIInv, DataOK
  <2> QED
      BY <2>1 DEF PhasesOK, LinkOK
<1>3. CASE GatewayNotices \/ GraceOver \/ GatewayReceives
  <2>1. socket.connected => up # <<>>
      BY <1>3 DEF GatewayNotices, GraceOver, GatewayReceives, LinkOK
  <2>2. UNCHANGED <<stream, socket, list>>
      BY <1>3 DEF GatewayNotices, GraceOver, GatewayReceives
  <2> QED
      BY <2>1, <2>2 DEF PhasesOK, Empty
<1>4. CASE \E t \in Topics : UnsubscribeTimer(t)
  <2>1. /\ up' = up \/ \A w \in Watchers : stream[w].phase = "none"
        /\ socket'.connected = socket.connected /\ socket'.seen = socket.seen
        /\ UNCHANGED <<serverVars, down, stream, viewVars>>
      BY <1>4, TimerSends
  <2> QED
      BY <2>1 DEF PhasesOK, Empty
<1> QED
    BY <1>1, <1>2, <1>3, <1>4

-----------------------------------------------------------------------------
(* What is owed stays owed: the steps that bring nothing *)

LEMMA NothingRead ==
    ASSUME \A w \in Watchers : stream'[w].phase \notin {"served", "answered"},
           \A w \in Watchers, d \in Docs : First(w)' => list'[w][d] = 0
    PROVE  ArrivingOK'
BY DEF ArrivingOK, OwedOK, AnsweredOK, WaitsOK, FilledOK, Claims

\* One stream begins, ends or moves on before its read; the others stay.
LEMMA OthersArrive ==
    ASSUME ArrivingOK, NEW w \in Watchers, \A v \in Watchers : v # w => stream'[v] = stream[v] /\ list'[v] = list[v],
           UNCHANGED <<db, up, down, socket, stored>>,
           socket.connected /\ up = <<>> /\ gateway.subscribed => gateway'.subscribed,
           stream'[w].phase \notin {"served", "answered"},
           \A d \in Docs : First(w)' /\ list'[w][d] # 0 =>
               First(w) /\ list[w][d] # 0 /\ stream[w].phase # "served"
    PROVE  ArrivingOK'
<1> SUFFICES ASSUME socket.connected
             PROVE  OwedOK' /\ AnsweredOK' /\ WaitsOK' /\ FilledOK'
    BY DEF ArrivingOK
<1>1. OwedOK /\ AnsweredOK /\ WaitsOK /\ FilledOK /\ Sent' = Sent
    BY DEF ArrivingOK, Sent
<1>2. ASSUME NEW v \in Watchers, NEW d \in Docs, Claims(v)' PROVE Owed(v, d)'
  <2>1. v # w /\ stream'[v] = stream[v] /\ list'[v] = list[v]
      BY <1>2 DEF Claims
  <2>2. Owed(v, d)
      BY <1>1, <1>2, <2>1 DEF OwedOK, Claims
  <2>3. Since(v, d)' = Since(v, d) /\ Base(v)' = Base(v)
      BY <1>1, <2>1 DEF Since, Base
  <2> QED
      BY <2>1, <2>2, <2>3 DEF Owed, Becomes, There
<1>3. AnsweredOK'
    BY <1>1 DEF AnsweredOK
<1>4. ASSUME NEW v \in Watchers, stream'[v].phase = "served" PROVE Waits(v)'
  <2>1. v # w /\ stream'[v] = stream[v] /\ Waits(v)
      BY <1>1, <1>4 DEF WaitsOK
  <2>2. ASSUME NEW u \in Watchers, NEW d \in Docs, stream'[u].phase = "served", stream'[u].asOf <= stream'[v].asOf
        PROVE  Between(u, v, d)'
    <3>1. u # w /\ stream'[u] = stream[u]
        BY <2>2
    <3>2. Between(u, v, d)
        BY <2>1, <2>2, <3>1 DEF Waits
    <3> QED
        BY <1>1, <2>1, <3>1, <3>2 DEF Between
  <2> QED
      BY <1>1, <2>1, <2>2 DEF Waits
<1>5. FilledOK'
  <2> SUFFICES ASSUME NEW v \in Watchers, NEW d \in Docs, First(v)', list'[v][d] # 0
               PROVE  /\ gateway'.subscribed /\ up' = <<>>
                      /\ stream'[v].phase # "served" /\ db'[d] = 0 => Sent' # {}
                      /\ stream'[v].phase = "served" /\ stream'[v].answer[d] = 0 =>
                            \E c \in Sent' : c.at <= stream'[v].asOf
      BY DEF FilledOK
  <2>1. CASE v = w
      BY <1>1, <2>1 DEF FilledOK
  <2>2. CASE v # w
    <3>1. stream'[v] = stream[v] /\ list'[v] = list[v] /\ First(v)
        BY <2>2 DEF First
    <3> QED
        BY <1>1, <3>1 DEF FilledOK
  <2> QED
      BY <2>1, <2>2
<1> QED
    BY <1>2, <1>3, <1>4, <1>5 DEF OwedOK, WaitsOK

LEMMA StreamArriving ==
    ASSUME TopicIInv, LinkOK, ArrivingOK, Orderly, NEW w \in Watchers,
           \/ Mount(w) \/ Unmount(w) \/ QueryAgain(w) \/ Ask(w) \/ Register(w) \/ AnswerFails(w)
    PROVE  ArrivingOK'
<1>1. CASE Mount(w) \/ Unmount(w) \/ QueryAgain(w)
  <2>1. /\ stream'[w].phase \in {"none", "waiting"} /\ list'[w] = Empty
        /\ \A v \in Watchers : v # w => stream'[v] = stream[v] /\ list'[v] = list[v]
        /\ UNCHANGED <<serverVars, up, down, socket, stored>>
      BY <1>1, StreamBegins
  <2>2. \A d \in Docs : list'[w][d] = 0
      BY <2>1 DEF Empty
  <2> QED
      BY <2>1, <2>2, OthersArrive
<1>2. CASE AnswerFails(w)
  <2>1. /\ stream'[w].phase = "failed"
        /\ \A v \in Watchers : v # w => stream'[v] = stream[v] /\ list'[v] = list[v]
        /\ UNCHANGED <<serverVars, up, down, socket, stored>>
      BY <1>2, FailEnds
  <2>2. ~First(w)'
      BY <2>1 DEF First, Before
  <2> QED
      BY <2>1, <2>2, OthersArrive
<1>3. CASE Ask(w) \/ Register(w)
  <2>1. /\ stream[w].phase \in {"waiting", "asked"} /\ stream'[w].phase \in {"asked", "registered"}
        /\ stream'[w].emitted = stream[w].emitted /\ stream'[w].refetch = stream[w].refetch
        /\ \A v \in Watchers : v # w => stream'[v] = stream[v]
        /\ UNCHANGED <<db, up, down, socket, viewVars>>
      BY <1>3, ReadMoves
  <2>2. gateway' = gateway \/ gateway' = [gateway EXCEPT !.subscribed = Registered]
      BY <1>3, ReadMoves
  <2>3. socket.connected /\ up = <<>> /\ gateway.subscribed => gateway'.subscribed
      BY <2>2 DEF Registered, TopicIInv, DataOK
  <2>4. First(w)' => First(w)
      BY <2>1 DEF First, Before
  <2> QED
      BY <2>1, <2>3, <2>4, OthersArrive
<1> QED
    BY <1>1, <1>2, <1>3

LEMMA LinkArriving ==
    ASSUME TopicIInv, LinkOK, PhasesOK, ArrivingOK,
           \/ Connect \/ Disconnect \/ GatewayNotices \/ GraceOver \/ GatewayReceives
           \/ \E t \in Topics : UnsubscribeTimer(t)
    PROVE  ArrivingOK'
<1>1. CASE Connect
  <2>1. /\ \A w \in Watchers : /\ stream'[w].phase \in {"none", "waiting"}
                               /\ stream'[w].phase = "waiting" => stream'[w].refetch \/ list[w] = Empty
        /\ list' = list
      BY <1>1, ConnectRestarts
  <2> QED
      BY <2>1, NothingRead DEF First, Before, Empty
<1>2. CASE Disconnect
  <2>1. ~socket'.connected
      BY <1>2 DEF Disconnect, TopicIInv, DataOK
  <2> QED
      BY <2>1 DEF ArrivingOK
<1>3. CASE GatewayNotices \/ GraceOver \/ GatewayReceives
  <2>1. UNCHANGED <<stream, socket, list>>
      BY <1>3 DEF GatewayNotices, GraceOver, GatewayReceives
  <2>2. CASE socket.connected
    <3>1. up # <<>>
        BY <1>3, <2>2 DEF GatewayNotices, GraceOver, GatewayReceives, LinkOK
    <3>2. \A w \in Watchers : stream[w].phase \notin {"served", "answered"}
        BY <2>2, <3>1 DEF PhasesOK
    <3>3. \A w \in Watchers, d \in Docs : First(w) => list[w][d] = 0
        BY <2>2, <3>1 DEF ArrivingOK, FilledOK
    <3> QED
        BY <2>1, <3>2, <3>3, NothingRead DEF First
  <2>3. CASE ~socket.connected
      BY <2>1, <2>3 DEF ArrivingOK
  <2> QED
      BY <2>2, <2>3
<1>4. CASE \E t \in Topics : UnsubscribeTimer(t)
  <2>1. /\ up' = up \/ \A w \in Watchers : stream[w].phase = "none"
        /\ socket'.connected = socket.connected /\ UNCHANGED <<serverVars, down, stream, viewVars>>
      BY <1>4, TimerSends
  <2>2. CASE \A w \in Watchers : stream[w].phase = "none"
      BY <2>1, <2>2, NothingRead DEF First, Before
  <2>3. CASE up' = up
    <3>1. (OwedOK' <=> OwedOK) /\ (AnsweredOK' <=> AnsweredOK)
        BY <2>1 DEF OwedOK, AnsweredOK, Claims, Owed, Since, Base, Becomes, There, Sent
    <3>2. (WaitsOK' <=> WaitsOK) /\ (FilledOK' <=> FilledOK)
        BY <2>1, <2>3 DEF WaitsOK, Waits, Between, FilledOK, First, Sent
    <3> QED
        BY <2>1, <3>1, <3>2 DEF ArrivingOK
  <2> QED
      BY <2>1, <2>2, <2>3
<1> QED
    BY <1>1, <1>2, <1>3, <1>4

-----------------------------------------------------------------------------
(* What is owed: what a write adds, what an arrival takes *)

\* A change is made of what there is.
LEMMA BecomesMore ==
    ASSUME NEW C \in SUBSET Change, NEW base, NEW now, NEW c \in Change, \A b \in C : b.at < c.at, Becomes(C, base, now),
           C = {} => base = now \/ now = 0, c.type = "added" <=> now = 0
    PROVE  Becomes(C \cup {c}, base, Leaves(c))
<1>1. \A b \in C \cup {c} : b.at \in Nat
    BY DEF Change
<1>2. Leaves(c) = Leaves(c) /\ \A b \in C \cup {c} : b.at <= c.at
    BY <1>1
<1>3. ASSUME NEW m \in C, m.type = "modified" PROVE There(C \cup {c}, base, m.at)
  <2>1. There(C, base, m.at) /\ m.at < c.at
      BY <1>3 DEF Becomes
  <2>2. \A n \in C \cup {c} : n.at < m.at => n \in C
      BY <1>1, <2>1
  <2> QED
      BY <2>1, <2>2 DEF There
<1>4. ASSUME c.type = "modified" PROVE There(C \cup {c}, base, c.at)
  <2>1. now # 0
      BY <1>4
  <2>2. CASE C = {}
    <3>1. base # 0 /\ \A n \in C \cup {c} : ~(n.at < c.at)
        BY <1>1, <2>1, <2>2
    <3> QED
        BY <3>1 DEF There
  <2>3. CASE C # {}
    <3>1. PICK l \in C : now = Leaves(l) /\ \A b \in C : b.at <= l.at
        BY <2>3 DEF Becomes
    <3>2. l.type # "removed" /\ l.at < c.at
        BY <2>1, <3>1 DEF Leaves
    <3>3. \A n \in C \cup {c} : ~(l.at < n.at /\ n.at < c.at)
        BY <1>1, <3>1
    <3> QED
        BY <3>2, <3>3 DEF There
  <2> QED
      BY <2>2, <2>3
<1> QED
    BY <1>2, <1>3, <1>4 DEF Becomes

\* What the first change leaves is what the others change.
LEMMA BecomesLess ==
    ASSUME NEW C \in SUBSET Change, NEW base, NEW now, NEW c \in C, c.at # 0, \A b \in C \ {c} : c.at < b.at,
           Becomes(C, base, now), NEW next,
           next = IF c.type = "removed" THEN 0 ELSE IF c.type = "modified" /\ base = 0 THEN base ELSE c.at
    PROVE  Becomes(C \ {c}, next, now) /\ (C \ {c} = {} => next = now)
<1>1. \A b \in C : b.at \in Nat /\ c.at <= b.at
    BY DEF Change
<1>2. c.type = "modified" => base # 0
  <2>1. SUFFICES ASSUME c.type = "modified" PROVE base # 0
      OBVIOUS
  <2>2. There(C, base, c.at)
      BY <2>1 DEF Becomes
  <2> QED
      BY <1>1, <2>2 DEF There
<1>3. next = Leaves(c)
    BY <1>2 DEF Leaves
<1>4. PICK l \in C : now = Leaves(l) /\ \A b \in C : b.at <= l.at
    BY DEF Becomes
<1>5. l # c => l \in C \ {c}
    OBVIOUS
<1>6. l = c => C \ {c} = {}
    BY <1>1, <1>4
<1>7. ASSUME NEW m \in C \ {c}, m.type = "modified" PROVE There(C \ {c}, next, m.at)
  <2>1. There(C, base, m.at) /\ c.at < m.at
      BY <1>7 DEF Becomes
  <2>2. CASE base # 0 /\ \A n \in C : n.at < m.at => n.type # "removed"
    <3>1. next # 0
        BY <1>3, <2>1, <2>2 DEF Leaves
    <3> QED
        BY <2>2, <3>1 DEF There
  <2>3. ASSUME NEW b \in C, b.at < m.at, b.type # "removed",
               \A n \in C : b.at < n.at /\ n.at < m.at => n.type # "removed"
        PROVE  There(C \ {c}, next, m.at)
    <3>1. CASE b = c
      <4>1. next # 0 /\ \A n \in C \ {c} : n.at < m.at => n.type # "removed"
          BY <1>3, <2>3, <3>1 DEF Leaves
      <4> QED
          BY <4>1 DEF There
    <3>2. CASE b # c
        BY <2>3, <3>2 DEF There
    <3> QED
        BY <3>1, <3>2
  <2> QED
      BY <2>1, <2>2, <2>3 DEF There
<1> QED
    BY <1>3, <1>4, <1>5, <1>6, <1>7 DEF Becomes

\* A list that has more than its answer will show the same.
LEMMA BecomesFrom ==
    ASSUME NEW C, NEW base, NEW now, NEW other, base # 0 => other # 0, Becomes(C, base, now)
    PROVE  Becomes(C, other, now)
BY DEF Becomes, There

LEMMA SinceType ==
    ASSUME Compares, NEW w \in Watchers, NEW d \in Docs
    PROVE  /\ Since(w, d) \in SUBSET Change /\ Since(w, d) \subseteq Sent
           /\ \A c \in Since(w, d) : c.at \in Nat /\ c.doc = d /\ c.at > stream[w].asOf
BY DEF Since, Compares

LEMMA ReadArriving ==
    ASSUME TopicIInv, Compares, AgesOK, ArrivingOK, Orderly, NEW w \in Watchers, Read(w)
    PROVE  ArrivingOK'
<1>1. /\ stream[w].phase = "registered" /\ stream'[w].phase = "served"
      /\ stream'[w].answer = db /\ stream'[w].asOf = written
      /\ stream'[w].emitted = stream[w].emitted /\ stream'[w].refetch = stream[w].refetch
      /\ \A v \in Watchers : v # w => stream'[v] = stream[v]
      /\ UNCHANGED <<serverVars, up, down, socket, viewVars>>
    BY ReadReads
<1> SUFFICES ASSUME socket.connected
             PROVE  OwedOK' /\ AnsweredOK' /\ WaitsOK' /\ FilledOK'
    BY <1>1 DEF ArrivingOK
<1>2. OwedOK /\ AnsweredOK /\ WaitsOK /\ FilledOK /\ Sent' = Sent
    BY <1>1 DEF ArrivingOK, Sent
<1>3. written \in Nat /\ \A c \in Sent : c.at \in Nat /\ c.doc \in Docs /\ c.at <= written
    BY DEF Compares, AgesOK
<1>4. ASSUME NEW v \in Watchers, NEW d \in Docs, Claims(v)' PROVE Owed(v, d)'
  <2>1. CASE v = w
    <3>1. Since(v, d)' = {} /\ Base(v)' = db
        BY <1>1, <1>2, <1>3, <2>1 DEF Since, Base
    <3> QED
        BY <1>1, <3>1 DEF Owed, Becomes
  <2>2. CASE v # w
    <3>1. stream'[v] = stream[v] /\ Owed(v, d)
        BY <1>1, <1>2, <1>4, <2>2 DEF OwedOK, Claims
    <3>2. Since(v, d)' = Since(v, d) /\ Base(v)' = Base(v)
        BY <1>1, <1>2, <3>1 DEF Since, Base
    <3> QED
        BY <1>1, <3>1, <3>2 DEF Owed, Becomes, There
  <2> QED
      BY <2>1, <2>2
<1>5. AnsweredOK'
  <2>1. \A v \in Watchers : stream'[v].phase = "answered" => stream'[v] = stream[v]
      BY <1>1
  <2> QED
      BY <1>2, <2>1 DEF AnsweredOK
\* Whoever waits has, where nothing is to come, what was read now.
<1>6. ASSUME NEW v \in Watchers, stream[v].phase = "served", NEW d \in Docs, stream[v].answer[d] # db[d]
      PROVE  \E c \in Sent : stream[v].asOf < c.at /\ c.at <= written
  <2>1. Owed(v, d) /\ Base(v) = stream[v].answer
      BY <1>2, <1>6 DEF OwedOK, Claims, Base
  <2>2. Since(v, d) # {}
      BY <1>6, <2>1 DEF Owed
  <2> QED
      BY <1>3, <2>2, SinceType
<1>7. ASSUME NEW u \in Watchers, NEW v \in Watchers, NEW d \in Docs, stream'[u].phase = "served",
             stream'[v].phase = "served", stream'[u].asOf <= stream'[v].asOf
      PROVE  Between(u, v, d)'
  <2>1. CASE u = v
    <3>1. stream'[u].answer[d] \in Nat
        BY <1>1 DEF Compares
    <3> QED
        BY <2>1, <3>1 DEF Between
  <2>2. CASE u # w /\ v # w
    <3>1. Between(u, v, d) /\ stream'[u] = stream[u] /\ stream'[v] = stream[v]
        BY <1>1, <1>2, <1>7, <2>2 DEF WaitsOK, Waits
    <3> QED
        BY <1>2, <3>1 DEF Between
  <2>3. CASE u # w /\ v = w
    <3>1. stream'[u] = stream[u] /\ stream[u].phase = "served" /\ stream'[v].answer[d] = db[d] /\ stream'[v].asOf = written
        BY <1>1, <1>7, <2>3
    <3>2. db[d] # 0 => stream[u].answer[d] <= db[d]
        BY DEF AgesOK
    <3>3. stream[u].answer[d] # db[d] => \E c \in Sent : stream[u].asOf < c.at /\ c.at <= written
        BY <1>6, <3>1
    <3> QED
        BY <1>2, <3>1, <3>2, <3>3 DEF Between
  <2>4. CASE u = w /\ v # w
    <3>1. /\ stream'[v] = stream[v] /\ stream[v].phase = "served"
          /\ stream'[u].answer[d] = db[d] /\ written <= stream[v].asOf /\ stream[v].asOf \in Nat
        BY <1>1, <1>7, <2>4 DEF Compares
    <3>2. stream[v].answer[d] = db[d]
        BY <1>3, <1>6, <3>1
    <3>3. db[d] \in Nat
        BY DEF Compares
    <3> QED
        BY <3>1, <3>2, <3>3 DEF Between
  <2> QED
      BY <2>1, <2>2, <2>3, <2>4
<1>8. ASSUME NEW v \in Watchers, stream'[v].phase = "served" PROVE Waits(v)'
  <2>1. CASE v = w
    <3>1. \A d \in Docs : stream'[v].answer[d] # 0 => stored'[d] <= stream'[v].answer[d]
        BY <1>1, <2>1 DEF AgesOK
    <3>2. \A c \in Sent' : stream'[v].answer[c.doc] # 0 => c.at <= stream'[v].answer[c.doc]
        BY <1>1, <1>2, <2>1 DEF AgesOK
    <3> QED
        BY <1>7, <1>8, <3>1, <3>2 DEF Waits
  <2>2. CASE v # w
    <3>1. stream'[v] = stream[v] /\ Waits(v)
        BY <1>1, <1>2, <1>8, <2>2 DEF WaitsOK
    <3> QED
        BY <1>1, <1>2, <1>7, <1>8, <3>1 DEF Waits
  <2> QED
      BY <2>1, <2>2
<1>9. FilledOK'
  <2> SUFFICES ASSUME NEW v \in Watchers, NEW d \in Docs, First(v)', list'[v][d] # 0
               PROVE  /\ gateway'.subscribed /\ up' = <<>>
                      /\ stream'[v].phase # "served" /\ db'[d] = 0 => Sent' # {}
                      /\ stream'[v].phase = "served" /\ stream'[v].answer[d] = 0 =>
                            \E c \in Sent' : c.at <= stream'[v].asOf
      BY DEF FilledOK
  <2>1. First(v)
      BY <1>1 DEF First, Before
  <2>2. /\ gateway.subscribed /\ up = <<>>
        /\ stream[v].phase # "served" /\ db[d] = 0 => Sent # {}
        /\ stream[v].phase = "served" /\ stream[v].answer[d] = 0 => \E c \in Sent : c.at <= stream[v].asOf
      BY <1>1, <1>2, <2>1 DEF FilledOK
  <2>3. CASE v = w
      BY <1>1, <1>2, <1>3, <2>2, <2>3
  <2>4. CASE v # w
      BY <1>1, <1>2, <2>2, <2>4
  <2> QED
      BY <2>3, <2>4
<1> QED
    BY <1>4, <1>5, <1>8, <1>9 DEF OwedOK, WaitsOK

LEMMA WriteArriving ==
    ASSUME TopicIInv, TopicIInv', Compares, AgesOK, LinkOK, PhasesOK, ArrivingOK,
           NEW d \in Docs, NEW type \in {"added", "modified", "removed"}, Write(d, type)
    PROVE  ArrivingOK'
<1> DEFINE c == Published(d, type)
<1>1. /\ c \in Change /\ db' = [db EXCEPT ![d] = Leaves(c)]
      /\ UNCHANGED <<up, socket, stream, stored, list>> /\ gateway'.subscribed = gateway.subscribed
      /\ Sent' = IF gateway.subscribed /\ gateway.link = "up" THEN Sent \cup {c} ELSE Sent
    BY WriteSends
<1>2. c.at = written + 1 /\ c.doc = d /\ c.type = type /\ (c.type = "added" <=> db[d] = 0)
    BY DEF Published, Write
<1> HIDE DEF c
<1> SUFFICES ASSUME socket.connected
             PROVE  OwedOK' /\ AnsweredOK' /\ WaitsOK' /\ FilledOK'
    BY <1>1 DEF ArrivingOK
<1>3. OwedOK /\ AnsweredOK /\ WaitsOK /\ FilledOK
    BY DEF ArrivingOK
<1>4. written \in Nat /\ \A b \in Sent : b.at \in Nat /\ b.at <= written /\ b.at < c.at
    BY <1>2 DEF Compares, AgesOK
<1>5. \A e \in Docs : db'[e] = IF e = d THEN Leaves(c) ELSE db[e]
    BY <1>1 DEF TopicIInv, DataOK, Contents
<1>6. gateway.subscribed /\ up = <<>> => Sent' = Sent \cup {c}
    BY <1>1 DEF LinkOK
<1>7. ASSUME NEW w \in Watchers, Claims(w) PROVE Sent' = Sent \cup {c} /\ c.at > stream[w].asOf
  <2>1. gateway.subscribed /\ up = <<>>
      BY <1>7 DEF Claims, PhasesOK
  <2>2. stream[w].asOf \in Nat /\ stream[w].asOf <= written
      BY DEF Compares, AgesOK
  <2> QED
      BY <1>2, <1>4, <1>6, <2>1, <2>2
<1>8. ASSUME NEW w \in Watchers, NEW e \in Docs, Claims(w)' PROVE Owed(w, e)'
  <2>1. Claims(w) /\ Owed(w, e) /\ Base(w)' = Base(w)
      BY <1>1, <1>3, <1>8 DEF OwedOK, Claims, Base
  <2>2. Since(w, e)' = {b \in Sent \cup {c} : b.doc = e /\ b.at > stream[w].asOf}
      BY <1>1, <1>7, <2>1 DEF Since
  <2>3. CASE e # d
    <3>1. Since(w, e)' = Since(w, e)
        BY <1>2, <2>2, <2>3 DEF Since
    <3>2. db'[e] = db[e]
        BY <1>5, <2>3
    <3> QED
        BY <1>1, <2>1, <3>1, <3>2 DEF Owed, Becomes, There
  <2>4. CASE e = d
    <3>1. Since(w, e)' = Since(w, e) \cup {c}
        BY <1>2, <1>7, <2>1, <2>2, <2>4 DEF Since
    <3>2. /\ Since(w, e) \in SUBSET Change /\ \A b \in Since(w, e) : b.at < c.at
          /\ Becomes(Since(w, e), Base(w)[e], db[e])
          /\ Since(w, e) = {} => Base(w)[e] = db[e] \/ db[e] = 0
        BY <1>4, <2>1, SinceType DEF Owed
    <3>3. Becomes(Since(w, e) \cup {c}, Base(w)[e], Leaves(c))
        BY <1>1, <1>2, <2>4, <3>2, BecomesMore
    <3>4. \A b \in Since(w, e)' : stored'[e] < b.at
      <4>1. stored[e] < c.at
          BY <1>2, <1>4 DEF AgesOK, Compares
      <4> QED
          BY <1>1, <2>1, <3>1, <4>1 DEF Owed
    <3>5. Becomes(Since(w, e)', Base(w)'[e], db'[e])
      <4>1. db'[e] = Leaves(c)
          BY <1>5, <2>4
      <4> QED
          BY <2>1, <3>1, <3>3, <4>1
    <3>6. Becomes(Since(w, e), Base(w)[e], db[e])' /\ Since(w, e)' # {}
        BY <3>1, <3>5 DEF Becomes, There
    <3> QED
        BY <3>4, <3>6 DEF Owed
  <2> QED
      BY <2>3, <2>4
<1>9. ASSUME NEW w \in Watchers, stream'[w].phase = "answered", NEW b \in Sent' PROVE b.at > stream'[w].asOf
    BY <1>1, <1>3, <1>7, <1>9 DEF AnsweredOK, Claims
<1>10. ASSUME NEW w \in Watchers, stream'[w].phase = "served" PROVE Waits(w)'
  <2>1. Claims(w) /\ Waits(w)
      BY <1>1, <1>3, <1>10 DEF WaitsOK, Claims
  <2>2. Sent' = Sent \cup {c} /\ ~(c.at <= stream[w].asOf)
      BY <1>4, <1>7, <2>1, <1>2 DEF Compares
  <2>3. \A v \in Watchers, e \in Docs : Between(v, w, e) => Between(v, w, e)'
      BY <1>1, <2>2 DEF Between
  <2> QED
      BY <1>1, <2>1, <2>2, <2>3 DEF Waits
<1>11. FilledOK'
  <2> SUFFICES ASSUME NEW v \in Watchers, NEW e \in Docs, First(v)', list'[v][e] # 0
               PROVE  /\ gateway'.subscribed /\ up' = <<>>
                      /\ stream'[v].phase # "served" /\ db'[e] = 0 => Sent' # {}
                      /\ stream'[v].phase = "served" /\ stream'[v].answer[e] = 0 =>
                            \E b \in Sent' : b.at <= stream'[v].asOf
      BY DEF FilledOK
  <2>1. First(v) /\ list[v][e] # 0
      BY <1>1 DEF First
  <2>2. gateway.subscribed /\ up = <<>> /\ Sent' = Sent \cup {c}
      BY <1>3, <1>6, <2>1 DEF FilledOK
  <2> QED
      BY <1>1, <1>3, <2>1, <2>2 DEF FilledOK
<1> QED
    BY <1>8, <1>9, <1>10, <1>11 DEF OwedOK, AnsweredOK, WaitsOK

LEMMA ReceiveArriving ==
    ASSUME TopicIInv, TopicIInv', Compares, AgesOK, LinkOK, PhasesOK, ArrivingOK, Orderly, Receive
    PROVE  ArrivingOK'
<1> DEFINE c == Head(down)
<1>1. /\ c \in Change /\ c \in Sent /\ Sent' = Sent \ {c} /\ \A b \in Sent' : c.at < b.at
      /\ \A w \in Watchers : stream[w].phase = "served" => c.at <= stream[w].asOf
      /\ UNCHANGED <<serverVars, up, socket>>
      /\ \A w \in Watchers :
            /\ stream'[w].phase = stream[w].phase /\ stream'[w].refetch = stream[w].refetch
            /\ stream'[w].answer = stream[w].answer /\ stream'[w].asOf = stream[w].asOf
            /\ IF Open(w) /\ ~stream[w].emitted THEN stream'[w].emitted /\ stream'[w].early
               ELSE stream'[w].emitted = stream[w].emitted /\ stream'[w].early = stream[w].early
      /\ \A d \in Docs : d # c.doc => stored'[d] = stored[d]
      /\ stored'[c.doc] \in {stored[c.doc], 0, c.at}
      /\ \A w \in Watchers : Open(w) /\ stream[w].emitted /\ ~Older(c.doc, c.at) => list'[w] = Applied(list[w], c)
  <2> HIDE DEF c
  <2> QED
      BY ReceiveBrings DEF c
<1> HIDE DEF c
<1>2. socket.connected
    BY DEF Receive, LinkOK
<1>3. OwedOK /\ AnsweredOK /\ WaitsOK /\ FilledOK
    BY <1>2 DEF ArrivingOK
<1>4. c.at \in Nat /\ c.at # 0 /\ c.doc \in Docs /\ \A b \in Sent : b.at \in Nat
    BY <1>1 DEF Compares, AgesOK
<1>5. ASSUME NEW w \in Watchers, NEW d \in Docs, Claims(w), NEW b \in Since(w, d), b # c PROVE stored'[d] < b.at
  <2>1. stored[d] < b.at /\ b \in Sent' /\ b.doc = d
      BY <1>1, <1>3, <1>5, SinceType DEF OwedOK, Owed
  <2> QED
      BY <1>1, <1>4, <2>1
<1>6. ASSUME NEW w \in Watchers, stream[w].phase = "served", NEW d \in Docs PROVE Owed(w, d)'
  <2>1. Claims(w) /\ Owed(w, d) /\ Base(w)' = Base(w) /\ ~(c.at > stream[w].asOf)
      BY <1>1, <1>3, <1>4, <1>6 DEF OwedOK, Claims, Base, Compares
  <2>2. Since(w, d)' = Since(w, d) /\ c \notin Since(w, d)
      BY <1>1, <2>1 DEF Since
  <2>3. \A b \in Since(w, d) : stored'[d] < b.at
      BY <1>5, <2>1, <2>2
  <2> QED
      BY <1>1, <1>6, <2>1, <2>2, <2>3 DEF Owed, Becomes, There
<1>7. ASSUME NEW w \in Watchers, stream[w].phase = "answered", NEW d \in Docs PROVE Owed(w, d)'
  <2>1. Claims(w) /\ Owed(w, d) /\ Owed(w, c.doc) /\ Base(w) = list[w] /\ Base(w)' = list'[w]
      BY <1>1, <1>3, <1>4, <1>7 DEF OwedOK, Claims, Base
  <2>2. Open(w) /\ stream[w].emitted /\ stream'[w].early = stream[w].early
      BY <1>1, <1>7 DEF Open, PhasesOK
  <2>3. c \in Since(w, c.doc)
      BY <1>1, <1>3, <1>7 DEF AnsweredOK, Since
  <2>4. ~Older(c.doc, c.at)
    <3>1. stored[c.doc] < c.at /\ stored[c.doc] \in Nat
        BY <1>4, <2>1, <2>3 DEF Owed, Compares
    <3> QED
        BY <1>4, <3>1 DEF Older
  <2>5. list'[w] = Applied(list[w], c) /\ list[w] \in Contents
      BY <1>1, <2>2, <2>4 DEF TopicIInv, ViewOK
  <2>6. Since(w, d)' = Since(w, d) \ {c}
      BY <1>1 DEF Since
  <2>7. \A b \in Since(w, d)' : stored'[d] < b.at
      BY <1>5, <2>1, <2>6
  <2>8. CASE d # c.doc
    <3>1. list'[w][d] = list[w][d] /\ Since(w, d)' = Since(w, d)
        BY <1>4, <2>5, <2>6, <2>8, SinceType DEF Applied, Contents, Since
    <3> QED
        BY <1>1, <1>7, <2>1, <2>2, <2>7, <3>1 DEF Owed, Becomes, There
  <2>9. CASE d = c.doc
    <3>1. list'[w][d] = IF c.type = "removed" THEN 0
                        ELSE IF c.type = "modified" /\ list[w][d] = 0 THEN list[w][d] ELSE c.at
        BY <1>4, <2>5, <2>9 DEF Applied, Contents
    <3>2. \A b \in Since(w, d) \ {c} : c.at < b.at
        BY <1>1, SinceType
    <3>3. Since(w, d) \in SUBSET Change /\ c \in Since(w, d) /\ Becomes(Since(w, d), list[w][d], db[d])
        BY <2>1, <2>3, <2>9, SinceType DEF Owed
    <3>4. /\ Becomes(Since(w, d) \ {c}, list'[w][d], db[d])
          /\ Since(w, d) \ {c} = {} => list'[w][d] = db[d]
      <4> DEFINE C == Since(w, d)
                 base == list[w][d]
                 now == db[d]
                 next == list'[w][d]
      <4> HIDE DEF C, base, now, next
      <4>1. C \in SUBSET Change /\ c \in C
          BY <3>3 DEF C
      <4>2. c.at # 0
          BY <1>4
      <4>3. \A b \in C \ {c} : c.at < b.at
          BY <3>2 DEF C
      <4>4. Becomes(C, base, now)
          BY <3>3 DEF C, base, now
      <4>5. next = IF c.type = "removed" THEN 0 ELSE IF c.type = "modified" /\ base = 0 THEN base ELSE c.at
          BY <3>1 DEF base, next
      <4>6. Becomes(C \ {c}, next, now) /\ (C \ {c} = {} => next = now)
          BY ONLY <4>1, <4>2, <4>3, <4>4, <4>5, BecomesLess
      <4> QED
          BY <4>6 DEF C, now, next
    <3>5. Becomes(Since(w, d), Base(w)[d], db[d])'
        BY <1>1, <2>1, <2>6, <3>4 DEF Becomes, There
    <3> QED
        BY <1>1, <2>1, <2>6, <2>7, <3>4, <3>5 DEF Owed
  <2> QED
      BY <2>8, <2>9
<1>8. OwedOK'
  <2>1. \A w \in Watchers : Claims(w)' => stream[w].phase \in {"served", "answered"}
      BY <1>1 DEF Claims
  <2> QED
      BY <1>6, <1>7, <2>1 DEF OwedOK
<1>9. AnsweredOK'
    BY <1>1, <1>3 DEF AnsweredOK
<1>10. ASSUME NEW w \in Watchers, stream'[w].phase = "served" PROVE Waits(w)'
  <2>1. stream[w].phase = "served" /\ Waits(w) /\ c.at <= stream[w].asOf
        /\ stream'[w].answer = stream[w].answer /\ stream'[w].asOf = stream[w].asOf
      BY <1>1, <1>3, <1>10 DEF WaitsOK
  <2>2. ASSUME NEW d \in Docs, stream[w].answer[d] # 0 PROVE stored'[d] <= stream[w].answer[d]
    <3>1. stored[d] <= stream[w].answer[d] /\ stream[w].answer[d] \in Nat
        BY <2>1, <2>2 DEF Waits, Compares
    <3>2. d = c.doc => c.at <= stream[w].answer[d]
        BY <1>1, <2>1, <2>2 DEF Waits
    <3> QED
        BY <1>1, <3>1, <3>2
  <2>3. ASSUME NEW v \in Watchers, NEW d \in Docs, stream[v].phase = "served", Between(v, w, d) PROVE Between(v, w, d)'
    <3>1. ASSUME NEW b \in Sent, stream[v].asOf < b.at PROVE b \in Sent'
      <4>1. c.at <= stream[v].asOf /\ stream[v].asOf \in Nat /\ b.at \in Nat
          BY <1>1, <1>4, <2>3 DEF Compares
      <4> QED
          BY <1>1, <1>4, <3>1, <4>1
    <3> QED
        BY <1>1, <2>1, <2>3, <3>1 DEF Between
  <2>4. \A v \in Watchers : stream'[v].phase = stream[v].phase /\ stream'[v].asOf = stream[v].asOf
      BY <1>1
  <2>5. \A v \in Watchers, d \in Docs :
            stream'[v].phase = "served" /\ stream'[v].asOf <= stream'[w].asOf => Between(v, w, d)'
      BY <2>1, <2>3, <2>4 DEF Waits
  <2> QED
      BY <1>1, <2>1, <2>2, <2>5 DEF Waits
<1>11. ASSUME NEW w \in Watchers PROVE ~First(w)'
  <2>1. stream'[w].phase \in Before => Open(w)
      BY <1>1 DEF Before, Open
  <2>2. stream'[w].phase \in Before => stream'[w].emitted
      BY <1>1, <2>1
  <2> QED
      BY <2>2 DEF First
<1> QED
    BY <1>8, <1>9, <1>10, <1>11 DEF ArrivingOK, WaitsOK, FilledOK

LEMMA AnswerArriving ==
    ASSUME TopicIInv, TopicIInv', Compares, AgesOK, PhasesOK, ArrivingOK, Orderly, NEW w \in Watchers, Answer(w)
    PROVE  ArrivingOK'
<1> DEFINE a == stream[w].answer
<1>1. /\ stream[w].phase = "served" /\ stream'[w].phase = "answered" /\ stream'[w].emitted
      /\ stream'[w].answer = a /\ stream'[w].asOf = stream[w].asOf /\ stream'[w].early = stream[w].early
      /\ \A v \in Watchers : v # w => stream'[v] = stream[v]
      /\ UNCHANGED <<serverVars, up, down, socket>>
      /\ \A c \in Sent : c.at > stream[w].asOf
    BY AnswerSays
<1> SUFFICES ASSUME socket.connected
             PROVE  OwedOK' /\ AnsweredOK' /\ WaitsOK' /\ FilledOK'
    BY <1>1 DEF ArrivingOK
<1>2. OwedOK /\ AnsweredOK /\ WaitsOK /\ FilledOK /\ Sent' = Sent
    BY <1>1 DEF ArrivingOK, Sent
<1>3. Waits(w) /\ \A d \in Docs : Owed(w, d)
    BY <1>1, <1>2 DEF WaitsOK, OwedOK, Claims
<1>4. stream[w].asOf \in Nat /\ (\A c \in Sent : c.at \in Nat) /\ \A d \in Docs : a[d] \in Nat /\ a[d] <= stream[w].asOf
    BY DEF Compares, AgesOK
<1>5. \A d \in Docs : d \in Fresh(a) <=> a[d] # 0
  <2>1. \A d \in Docs : a[d] # 0 => stored[d] <= a[d] /\ stored[d] \in Nat
      BY <1>3 DEF Waits, Compares
  <2> QED
      BY <1>4, <2>1 DEF Fresh, Older
<1> HIDE DEF a
<1>6. /\ \A d \in Docs : stored'[d] = IF a[d] # 0 THEN a[d] ELSE stored[d]
      /\ \A v \in Watchers, d \in Docs :
            /\ v # w => list'[v][d] = list[v][d] \/ (a[d] # 0 /\ list'[v][d] = a[d])
            /\ v = w => list'[v][d] = IF a[d] # 0 THEN a[d]
                                      ELSE IF stream[w].refetch /\ ~stream[w].emitted THEN 0 ELSE list[v][d]
  <2>1. /\ \A d \in Docs : stored'[d] = IF d \in Fresh(a) THEN a[d] ELSE stored[d]
        /\ \A v \in Watchers, d \in Docs :
              /\ v # w => list'[v][d] = list[v][d] \/ (d \in Fresh(a) /\ list'[v][d] = a[d])
              /\ v = w => list'[v][d] = IF d \in Fresh(a) THEN a[d]
                                        ELSE IF stream[w].refetch /\ ~stream[w].emitted THEN 0 ELSE list[v][d]
      BY AnswerSays DEF a
  <2> QED
      BY <1>5, <2>1
\* Of two answers that wait the one that may come now is the older, or they are alike.
<1>7. ASSUME NEW v \in Watchers, stream[v].phase = "served", NEW d \in Docs, stream[v].answer[d] # a[d]
      PROVE  /\ stream[v].answer[d] # 0 => a[d] <= stream[v].answer[d]
             /\ \E c \in Sent : c.at <= stream[v].asOf
  <2>1. stream[v].asOf \in Nat
      BY DEF Compares
  <2>2. CASE stream[w].asOf <= stream[v].asOf
    <3>1. Between(w, v, d)
        BY <1>1, <1>2, <1>7, <2>2 DEF WaitsOK, Waits
    <3> QED
        BY <1>7, <3>1 DEF Between, a
  <2>3. CASE stream[v].asOf <= stream[w].asOf
    <3>1. Between(v, w, d)
        BY <1>1, <1>3, <1>7, <2>3 DEF Waits
    <3>2. \E c \in Sent : c.at <= stream[w].asOf
        BY <1>7, <3>1 DEF Between, a
    <3> QED
        BY <1>1, <1>4, <3>2
  <2> QED
      BY <1>4, <2>1, <2>2, <2>3
<1>8. ASSUME NEW v \in Watchers, NEW d \in Docs, Claims(v)' PROVE Owed(v, d)'
  <2>1. Claims(v) /\ Owed(v, d)
      BY <1>1, <1>2, <1>8 DEF OwedOK, Claims
  <2>2. Since(v, d)' = Since(v, d) /\ stream'[v].early = stream[v].early
      BY <1>1, <1>2 DEF Since
  <2>3. \A c \in Since(v, d) : stored'[d] < c.at
    <3>1. \A c \in Since(v, d) : a[d] < c.at
        BY <1>1, <1>4, SinceType
    <3> QED
        BY <1>6, <2>1, <3>1 DEF Owed
  <2>4. CASE stream'[v].phase = "served"
    <3>1. v # w /\ stream'[v] = stream[v] /\ Base(v)' = Base(v)
        BY <1>1, <2>4 DEF Base
    <3> QED
        BY <1>1, <2>1, <2>2, <2>3, <3>1 DEF Owed, Becomes, There
  <2>5. CASE v = w
    <3>1. Base(v) = a /\ Base(v)' = list'[v]
        BY <1>1, <2>5 DEF Base, a
    <3>2. a[d] # 0 => list'[v][d] = a[d]
        BY <1>6, <2>5
    <3>3. Becomes(Since(v, d), list'[v][d], db[d])
      <4>1. a[d] # 0 => list'[v][d] # 0
          BY <3>2
      <4>2. Becomes(Since(v, d), a[d], db[d])
          BY <2>1, <3>1 DEF Owed
      <4> QED
          BY <4>1, <4>2, BecomesFrom
    <3>4. ASSUME Since(v, d) = {}, list'[v][d] # db[d] PROVE db[d] = 0 /\ stream[v].early
      <4>1. a[d] = db[d]
          BY <1>1, <2>1, <2>5, <3>1, <3>4 DEF Owed
      <4>2. a[d] = 0 /\ db[d] = 0
          BY <3>2, <3>4, <4>1
      <4>3. list'[v][d] = list[v][d] /\ list[v][d] # 0 /\ ~(stream[w].refetch /\ ~stream[w].emitted)
          BY <1>6, <2>5, <3>4, <4>2
      <4>4. CASE stream[w].emitted
          BY <1>1, <2>5, <4>2, <4>4 DEF PhasesOK, Before
      <4>5. CASE ~stream[w].emitted
        <5>1. First(w)
            BY <1>1, <4>3, <4>5 DEF First, Before
        <5>2. \E c \in Sent : c.at <= stream[w].asOf
            BY <1>1, <1>2, <2>5, <4>2, <4>3, <5>1 DEF FilledOK, a
        <5> QED
            BY <1>1, <1>4, <5>2
      <4> QED
          BY <4>4, <4>5
    <3>5. Becomes(Since(v, d), Base(v)[d], db[d])'
        BY <1>1, <2>2, <3>1, <3>3 DEF Becomes, There
    <3> QED
        BY <1>1, <2>2, <2>3, <2>5, <3>1, <3>4, <3>5 DEF Owed
  <2>6. CASE v # w /\ stream'[v].phase = "answered"
    <3>1. stream'[v] = stream[v] /\ Base(v) = list[v] /\ Base(v)' = list'[v]
        BY <1>1, <2>6 DEF Base
    <3>2. Since(v, d) = Since(w, d)
        BY <1>1, <1>2, <2>6, <3>1 DEF AnsweredOK, Since
    <3>3. list'[v][d] = list[v][d] \/ (a[d] # 0 /\ list'[v][d] = a[d])
        BY <1>6, <2>6
    <3>4. Becomes(Since(v, d), list'[v][d], db[d])
      <4>1. list[v][d] # 0 => list'[v][d] # 0
          BY <3>3
      <4>2. Becomes(Since(v, d), list[v][d], db[d])
          BY <2>1, <3>1 DEF Owed
      <4> QED
          BY <4>1, <4>2, BecomesFrom
    <3>5. Since(v, d) = {} => a[d] = db[d]
      <4>1. Base(w) = a /\ stream[w].phase # "answered"
          BY <1>1 DEF Base, a
      <4> QED
          BY <1>3, <3>2, <4>1 DEF Owed
    <3>6. Since(v, d) = {} => list'[v][d] = db[d] \/ (db[d] = 0 /\ stream[v].early)
        BY <2>1, <3>1, <3>3, <3>5 DEF Owed
    <3>7. Becomes(Since(v, d), Base(v)[d], db[d])'
        BY <1>1, <2>2, <3>1, <3>4 DEF Becomes, There
    <3> QED
        BY <1>1, <2>2, <2>3, <2>6, <3>1, <3>6, <3>7 DEF Owed
  <2> QED
      BY <1>8, <2>4, <2>5, <2>6 DEF Claims
<1>9. AnsweredOK'
    BY <1>1, <1>2 DEF AnsweredOK
<1>10. ASSUME NEW v \in Watchers, stream'[v].phase = "served" PROVE Waits(v)'
  <2>1. v # w /\ stream'[v] = stream[v] /\ Waits(v)
      BY <1>1, <1>2, <1>10 DEF WaitsOK
  <2>2. ASSUME NEW d \in Docs, stream[v].answer[d] # 0 PROVE stored'[d] <= stream[v].answer[d]
    <3>1. stored[d] <= stream[v].answer[d] /\ stream[v].answer[d] \in Nat
        BY <2>1, <2>2 DEF Waits, Compares
    <3>2. a[d] <= stream[v].answer[d]
        BY <1>4, <1>7, <1>10, <2>1, <2>2, <3>1
    <3> QED
        BY <1>6, <3>1, <3>2
  <2>3. ASSUME NEW u \in Watchers, NEW d \in Docs, stream'[u].phase = "served", stream'[u].asOf <= stream'[v].asOf
        PROVE  Between(u, v, d)'
    <3>1. stream'[u] = stream[u]
        BY <1>1, <2>3
    <3>2. Between(u, v, d)
        BY <2>1, <2>3, <3>1 DEF Waits
    <3> QED
        BY <1>2, <2>1, <3>1, <3>2 DEF Between
  <2> QED
      BY <1>2, <2>1, <2>2, <2>3 DEF Waits
<1>11. FilledOK'
  <2> SUFFICES ASSUME NEW v \in Watchers, NEW d \in Docs, First(v)', list'[v][d] # 0
               PROVE  /\ gateway'.subscribed /\ up' = <<>>
                      /\ stream'[v].phase # "served" /\ db'[d] = 0 => Sent' # {}
                      /\ stream'[v].phase = "served" /\ stream'[v].answer[d] = 0 =>
                            \E c \in Sent' : c.at <= stream'[v].asOf
      BY DEF FilledOK
  <2>1. v # w /\ stream'[v] = stream[v] /\ First(v)
      BY <1>1 DEF First, Before
  <2>2. CASE list[v][d] # 0
      BY <1>1, <1>2, <2>1, <2>2 DEF FilledOK
  <2>3. CASE list[v][d] = 0
    <3>1. a[d] # 0
        BY <1>6, <2>1, <2>3
    <3>2. gateway.subscribed /\ up = <<>>
        BY <1>1 DEF PhasesOK
    <3>3. db[d] = 0 => Sent # {}
      <4>1. Owed(w, d) /\ Base(w) = a /\ stream[w].phase # "answered"
          BY <1>1, <1>3 DEF Base, a
      <4>2. db[d] = 0 => Since(w, d) # {}
          BY <3>1, <4>1 DEF Owed
      <4> QED
          BY <4>2, SinceType
    <3>4. stream[v].phase = "served" /\ stream[v].answer[d] = 0 => \E c \in Sent : c.at <= stream[v].asOf
        BY <1>7, <3>1
    <3> QED
        BY <1>1, <1>2, <2>1, <3>2, <3>3, <3>4
  <2> QED
      BY <2>2, <2>3
<1> QED
    BY <1>8, <1>9, <1>10, <1>11 DEF OwedOK, WaitsOK

-----------------------------------------------------------------------------
(* The invariant, and what a list shows when everything has arrived *)

LEMMA CaughtInit ==
    ASSUME LiveInit
    PROVE  CaughtIInv
<1>1. TopicIInv
    BY InvInit
<1>2. /\ \A w \in Watchers : stream[w] = NoStream /\ list[w] = Empty
      /\ \A d \in Docs : db[d] = 0 /\ stored[d] = 0 /\ Empty[d] = 0
      /\ written = 0 /\ gateway.missed = <<>> /\ gateway.link = "none" /\ down = <<>> /\ up = <<>>
      /\ ~socket.connected /\ ~socket.seen /\ socket.queue = <<>>
    BY DEF LiveInit, Empty
<1>3. AgesOK
    BY <1>2, InNothing DEF AgesOK, Sent, NoStream
<1>4. LinkOK
    BY <1>2 DEF LinkOK
<1>5. PhasesOK
    BY <1>2 DEF PhasesOK, NoStream, Before
<1>6. ArrivingOK
    BY <1>2 DEF ArrivingOK
<1> QED
    BY <1>1, <1>3, <1>4, <1>5, <1>6 DEF CaughtIInv

LEMMA CaughtNext ==
    ASSUME Orderly, CaughtIInv, [LiveNext]_liveVars
    PROVE  CaughtIInv'
<1>1. TopicIInv /\ AgesOK /\ LinkOK /\ PhasesOK /\ ArrivingOK
    BY DEF CaughtIInv
<1>2. Compares
    BY <1>1, Compared
<1>3. TopicIInv'
    BY <1>1, InvNext DEF Orderly
<1>4. ASSUME NEW w \in Watchers,
             \/ Mount(w) \/ Unmount(w) \/ QueryAgain(w)
             \/ Ask(w) \/ Register(w) \/ Read(w) \/ Answer(w) \/ AnswerFails(w)
      PROVE  CaughtIInv'
  <2>1. LinkOK' /\ PhasesOK'
      BY <1>1, <1>4, ReadLink, StreamPhases
  <2>2. CASE Read(w)
      BY <1>1, <1>2, <1>3, <2>1, <2>2, ReadAges, ReadArriving DEF CaughtIInv
  <2>3. CASE Answer(w)
      BY <1>1, <1>2, <1>3, <2>1, <2>3, AnswerAges, AnswerArriving DEF CaughtIInv
  <2>4. CASE Mount(w) \/ Unmount(w) \/ QueryAgain(w) \/ Ask(w) \/ Register(w) \/ AnswerFails(w)
      BY <1>1, <1>2, <1>3, <2>1, <2>4, StreamAges, StreamArriving DEF CaughtIInv
  <2> QED
      BY <1>4, <2>2, <2>3, <2>4
<1>5. CASE Receive
    BY <1>1, <1>2, <1>3, <1>5, ReceiveAges, ServerLink, ServerPhases, ReceiveArriving DEF CaughtIInv
<1>6. ASSUME NEW d \in Docs, NEW type \in {"added", "modified", "removed"}, Write(d, type)
      PROVE  CaughtIInv'
  <2>1. AgesOK' /\ ArrivingOK'
      BY <1>1, <1>2, <1>3, <1>6, WriteAges, WriteArriving
  <2>2. LinkOK' /\ PhasesOK'
      BY <1>1, <1>6, ServerLink, ServerPhases
  <2> QED
      BY <1>3, <2>1, <2>2 DEF CaughtIInv
<1>7. CASE \/ Connect \/ Disconnect \/ GatewayNotices \/ GraceOver \/ GatewayReceives
           \/ \E t \in Topics : UnsubscribeTimer(t)
  <2>1. AgesOK' /\ PhasesOK' /\ ArrivingOK'
      BY <1>1, <1>2, <1>7, LinkAges, LinkPhases, LinkArriving
  <2>2. LinkOK'
      BY <1>1, <1>7, ConnectLink, GatewayLink, TimerLink
  <2> QED
      BY <1>3, <2>1, <2>2 DEF CaughtIInv
<1>8. CASE UNCHANGED liveVars
  <2>1. AgesOK' /\ LinkOK' /\ PhasesOK'
      BY <1>1, <1>8 DEF AgesOK, LinkOK, PhasesOK, Sent
  <2>2. ArrivingOK'
      BY <1>1, <1>8 DEF ArrivingOK, OwedOK, AnsweredOK, WaitsOK, FilledOK, Claims, Owed, Since, Base, Becomes,
                        There, Waits, Between, First, Sent
  <2> QED
      BY <1>3, <2>1, <2>2 DEF CaughtIInv
<1> QED
    BY <1>4, <1>5, <1>6, <1>7, <1>8 DEF LiveNext

LEMMA CaughtAgree ==
    ASSUME CaughtIInv
    PROVE  CaughtUp
<1> SUFFICES ASSUME Quiet, NEW w \in Mounted, NEW d \in Docs, stream[w].phase = "answered"
             PROVE  Shows(w, d)
    BY DEF CaughtUp
<1>1. w \in Watchers /\ socket.connected /\ down = <<>>
    BY DEF Mounted, Quiet
<1>2. Claims(w) /\ Base(w) = list[w]
    BY DEF Claims, Base
<1>3. Since(w, d) = {}
    BY <1>1, InNothing DEF Since, Sent
<1>4. Owed(w, d)
    BY <1>1, <1>2 DEF CaughtIInv, ArrivingOK, OwedOK
<1> QED
    BY <1>2, <1>3, <1>4 DEF Owed, Shows

\* In every state of a client whose requests, changes and answers come in order, a list
\* is owed exactly what is on its way: the changes since its read turn what it shows, or
\* the answer that waits for it, into what the server holds.
THEOREM CatchingUpInvariance ==
    ASSUME Orderly
    PROVE  LiveSpec => []CaughtIInv
BY CaughtInit, CaughtNext, PTL DEF LiveSpec

\* "Realtime events sent while the connection was down are gone for good" (Socket.ts), so
\* coming back reads again, and a read subscribes before it reads: once nothing is on its
\* way, every list whose read went well shows what the server holds, whatever was
\* written between reads, drops and reconnects, with or without versions and missed
\* changes. TLC finds a list that stays behind without any one condition of Orderly.
THEOREM ListsCatchUp ==
    ASSUME Orderly
    PROVE  LiveSpec => []CaughtUp
BY CatchingUpInvariance, CaughtAgree, PTL
=============================================================================
