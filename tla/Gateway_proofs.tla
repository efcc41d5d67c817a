--------------------------- MODULE Gateway_proofs ---------------------------
(***************************************************************************)
(* Proofs about Gateway for any number of connections, clients, documents  *)
(* and changes, and for every kind of adapter: the inductive invariant     *)
(* GatewayIInv, and from it that nothing is left subscribed behind a       *)
(* client that is gone.                                                    *)
(***************************************************************************)
EXTENDS Gateway, FiniteSetTheorems, SequenceTheorems, TLAPS

USE DEF gatewayVars, historyVars

-----------------------------------------------------------------------------
(* The types of what a step computes *)

\* What is kept of the missed changes are changes, and not too many.
LEMMA NewestType ==
    ASSUME NEW S, NEW seq \in Seq(S)
    PROVE  Newest(seq) \in Seq(S) /\ Len(Newest(seq)) <= MissedLimit
<1>1. CASE Len(seq) <= MissedLimit
    BY <1>1 DEF Newest
<1>2. CASE ~(Len(seq) <= MissedLimit)
  <2> DEFINE m == Len(seq) - MissedLimit + 1
  <2>1. m \in 1..(Len(seq) + 1) /\ Len(seq) \in 0..Len(seq)
      BY <1>2, GatewayBoundsAssumption, LenProperties
  <2>2. SubSeq(seq, m, Len(seq)) \in Seq(S)
      BY <2>1, GatewayBoundsAssumption, LenProperties, SubSeqProperties
  <2>3. Len(SubSeq(seq, m, Len(seq))) = MissedLimit
      BY <2>1, <1>2, GatewayBoundsAssumption, LenProperties, SubSeqProperties
  <2> QED
      BY <2>2, <2>3, <1>2, GatewayBoundsAssumption DEF Newest
<1> QED
    BY <1>1, <1>2

\* A socket that was never used, and one that is accepted.
LEMMA NoSocketType == NoSocket \in SocketRecord
BY GatewayBoundsAssumption DEF SocketRecord, NoSocket

LEMMA AcceptedType ==
    ASSUME NEW c \in Clients
    PROVE  [NoSocket EXCEPT !.phase = "accepted", !.owner = c, !.wire = "up"] \in SocketRecord
BY NoSocketType DEF SocketRecord

\* Forgetting what a client missed, and taking subscriptions from one.
LEMMA NothingMissedType ==
    ASSUME GatewayTypeOK, NEW c \in Clients
    PROVE  /\ NothingMissed(c) \in [Clients -> Seq(ChangeNumbers)]
           /\ \A d \in Clients : Len(NothingMissed(c)[d]) <= MissedLimit
<1>1. <<>> \in Seq(ChangeNumbers) /\ Len(<<>>) <= MissedLimit
    BY GatewayBoundsAssumption
<1> QED
    BY <1>1 DEF NothingMissed, GatewayTypeOK

LEMMA DetachedType ==
    ASSUME GatewayTypeOK, NEW c, NEW R
    PROVE  Detached(c, R) \in [Refs -> SUBSET Clients]
<1>1. ASSUME NEW r \in Refs
      PROVE  (IF r \in R THEN subs[r] \ {c} ELSE subs[r]) \in SUBSET Clients
    BY DEF GatewayTypeOK
<1> QED
    BY <1>1 DEF Detached

-----------------------------------------------------------------------------
(* Each step keeps the types *)

LEMMA GatewayInitType == GatewayInit => GatewayTypeOK
<1> SUFFICES ASSUME GatewayInit PROVE GatewayTypeOK
    OBVIOUS
<1>1. <<>> \in Seq(ChangeNumbers) /\ <<>> \in Seq(Documents) /\ Len(<<>>) = 0
    OBVIOUS
<1> QED
    BY <1>1, NoSocketType, GatewayBoundsAssumption
    DEF GatewayInit, GatewayTypeOK, NoGrace, ChangeNumbers

\* What a client listens to are refs.
LEMMA RefsOfType == \A c : RefsOf(c) \in SUBSET Refs
BY DEF RefsOf

\* What a socket record says of its fields; who owns a socket that is in use.
LEMMA SocketFields ==
    ASSUME GatewayTypeOK, NEW s \in Sockets
    PROVE  /\ sock[s] \in SocketRecord
           /\ sock[s].owner \in Clients \cup {None} /\ sock[s].id \in Clients \cup {None}
           /\ sock[s].refs \in SUBSET Refs /\ sock[s].closes \in Nat
           /\ sock[s].phase # "unused" => sock[s].owner \in Clients
           /\ sock[s].wire # "none" => sock[s].owner \in Clients
<1>1. sock[s] \in SocketRecord
    BY DEF GatewayTypeOK
<1>2. sock[s].owner = None => sock[s].phase = "unused" /\ sock[s].wire = "none"
    BY DEF GatewayTypeOK, NoSocket
<1> QED
    BY <1>1, <1>2, GatewayBoundsAssumption DEF SocketRecord

\* A step that only touches sockets keeps the types if it keeps the records
\* and no socket in use loses its owner.
LEMMA SockOnlyType ==
    ASSUME GatewayTypeOK, UNCHANGED <<connections, subs, grace, missed, posted, changes, got, away>>,
           sock' \in [Sockets -> SocketRecord],
           \A s \in Sockets : sock'[s].owner # None \/ sock'[s] = NoSocket
    PROVE  GatewayTypeOK'
BY DEF GatewayTypeOK

LEMMA AcceptType ==
    ASSUME GatewayTypeOK, NEW s \in Sockets, NEW c \in Clients, Accept(s, c)
    PROVE  GatewayTypeOK'
<1>1. ASSUME NEW t \in Sockets
      PROVE  sock'[t] \in SocketRecord /\ (sock'[t].owner # None \/ sock'[t] = NoSocket)
  <2>1. sock[t] \in SocketRecord
      BY SocketFields
  <2>2. CASE t = s
      BY <2>2, AcceptedType, NoneAssumption DEF Accept, NoSocket
  <2>3. CASE t # s /\ sock[t].owner = c /\ sock[t].wire = "up"
    <3>1. sock'[t] = [sock[t] EXCEPT !.wire = "cut"]
        BY <2>3 DEF Accept
    <3>2. sock'[t] \in SocketRecord /\ sock'[t].owner = c
        BY <3>1, <2>1, <2>3 DEF SocketRecord
    <3> QED
        BY <3>2, NoneAssumption
  <2>4. CASE t # s /\ ~(sock[t].owner = c /\ sock[t].wire = "up")
      BY <2>4, <2>1 DEF Accept, GatewayTypeOK
  <2> QED
      BY <2>2, <2>3, <2>4
<1>2. sock' \in [Sockets -> SocketRecord]
    BY <1>1 DEF Accept
<1> QED
    BY <1>1, <1>2, SockOnlyType DEF Accept

LEMMA WireType ==
    ASSUME GatewayTypeOK, NEW s \in Sockets, PeerGone(s) \/ Noticed(s)
    PROVE  GatewayTypeOK'
<1> PICK w \in {"cut", "down"} : sock' = [sock EXCEPT ![s].wire = w]
    BY DEF PeerGone, Noticed
<1>1. sock[s] \in SocketRecord /\ sock[s].owner \in Clients
    BY SocketFields DEF PeerGone, Noticed
<1>2. [sock[s] EXCEPT !.wire = w] \in SocketRecord /\ [sock[s] EXCEPT !.wire = w].owner # None
    BY <1>1, NoneAssumption DEF SocketRecord
<1>3. sock' \in [Sockets -> SocketRecord]
    BY <1>2 DEF GatewayTypeOK
<1>4. ASSUME NEW t \in Sockets
      PROVE  sock'[t].owner # None \/ sock'[t] = NoSocket
    BY <1>2, SocketFields DEF GatewayTypeOK
<1> QED
    BY <1>3, <1>4, SockOnlyType DEF PeerGone, Noticed

LEMMA StartType ==
    ASSUME GatewayTypeOK, ConnectionStarted, NEW s \in Sockets, StartSocket(s)
    PROVE  GatewayTypeOK'
<1> DEFINE c == sock[s].owner
<1>0. c \in Clients /\ \A t \in Sockets : sock[t] \in SocketRecord
    BY SocketFields DEF StartSocket
<1>1. connections[c] \in Sockets \cup {None}
    BY <1>0 DEF GatewayTypeOK
<1>2. Resumed(c) \in SUBSET Refs
    BY <1>0, <1>1, RefsOfType, SocketFields DEF Resumed
<1>3. ASSUME NEW t \in Sockets
      PROVE  sock'[t] \in SocketRecord /\ (sock'[t].owner # None \/ sock'[t] = NoSocket)
  <2>1. CASE t = s
    <3>1. sock'[t] = [sock[s] EXCEPT !.phase = "started", !.id = c, !.refs = Resumed(c)]
        BY <2>1 DEF StartSocket
    <3>2. sock'[t] \in SocketRecord /\ sock'[t].owner = c
        BY <3>1, <1>0, <1>2 DEF SocketRecord
    <3> QED
        BY <3>2, <1>0, NoneAssumption
  <2>2. CASE t # s /\ t = connections[c]
    <3>1. sock'[t] = [sock[t] EXCEPT !.id = None, !.wire = "down"]
        BY <2>2 DEF StartSocket
    <3>2. sock'[t] \in SocketRecord /\ sock'[t].owner = sock[t].owner
        BY <3>1, <1>0 DEF SocketRecord
    <3>3. sock[t].owner # None
      <4>1. sock[t].id = c
          BY <2>2, <1>0, NoneAssumption DEF ConnectionStarted
      <4> QED
          BY <4>1, <1>0, NoneAssumption DEF GatewayTypeOK, NoSocket
    <3> QED
        BY <3>2, <3>3
  <2>3. CASE t # s /\ t # connections[c]
      BY <2>3, <1>0 DEF StartSocket, GatewayTypeOK
  <2> QED
      BY <2>1, <2>2, <2>3
<1>4. sock' \in [Sockets -> SocketRecord]
    BY <1>3 DEF StartSocket
<1>5. connections' \in [Clients -> Sockets \cup {None}]
    BY <1>0 DEF GatewayTypeOK, StartSocket
<1>6. grace' \in [Clients -> [on : BOOLEAN, refs : SUBSET Refs]]
    BY DEF GatewayTypeOK, StartSocket, NoGrace
<1>7. missed' \in [Clients -> Seq(ChangeNumbers)] /\ \A d \in Clients : Len(missed'[d]) <= MissedLimit
    BY <1>0, NothingMissedType DEF StartSocket
<1>8. got' \in [Clients -> Seq(ChangeNumbers)]
  <2>1. got[c] \in Seq(ChangeNumbers) /\ missed[c] \in Seq(ChangeNumbers)
      BY <1>0 DEF GatewayTypeOK
  <2>2. got[c] \o missed[c] \in Seq(ChangeNumbers)
      BY <2>1, ConcatProperties
  <2> QED
      BY <2>2 DEF GatewayTypeOK, StartSocket
<1>9. away' \in [Clients -> SUBSET ChangeNumbers]
    BY DEF GatewayTypeOK, StartSocket
<1> QED
    BY <1>3, <1>4, <1>5, <1>6, <1>7, <1>8, <1>9 DEF GatewayTypeOK, StartSocket

LEMMA CloseType ==
    ASSUME GatewayTypeOK, NEW s \in Sockets, OnClose(s)
    PROVE  GatewayTypeOK'
<1>0. sock[s] \in SocketRecord /\ sock[s].owner \in Clients /\ sock[s].id \in Clients \cup {None}
      /\ sock[s].refs \in SUBSET Refs /\ sock[s].closes \in Nat
    BY SocketFields DEF OnClose
<1>1. sock'[s] \in SocketRecord /\ sock'[s].owner = sock[s].owner
  <2>1. sock'[s] = [sock[s] EXCEPT !.phase = "closed", !.closes = sock[s].closes + 1]
      BY DEF OnClose, GatewayTypeOK
  <2>2. sock[s].closes + 1 \in 0..MaxCloses
      BY <1>0, GatewayBoundsAssumption DEF OnClose
  <2> QED
      BY <2>1, <2>2, <1>0 DEF SocketRecord
<1>2. \A t \in Sockets : t # s => sock'[t] = sock[t]
    BY DEF OnClose, GatewayTypeOK
<1>3. sock' \in [Sockets -> SocketRecord]
      /\ \A t \in Sockets : sock'[t].owner = None => sock'[t] = NoSocket
  <2>1. \A t \in Sockets : sock'[t] \in SocketRecord /\ (sock'[t].owner = None => sock'[t] = NoSocket)
      BY <1>0, <1>1, <1>2, NoneAssumption DEF GatewayTypeOK
  <2>2. sock' = [sock EXCEPT ![s] = sock'[s]]
      BY DEF OnClose, GatewayTypeOK
  <2> QED
      BY <2>1, <2>2 DEF GatewayTypeOK
<1>4. connections' \in [Clients -> Sockets \cup {None}]
    BY DEF GatewayTypeOK, OnClose
<1>5. grace' \in [Clients -> [on : BOOLEAN, refs : SUBSET Refs]]
  <2>1. [on |-> TRUE, refs |-> sock[s].refs] \in [on : BOOLEAN, refs : SUBSET Refs]
      BY <1>0
  <2>2. \/ grace' = grace
        \/ grace' = [grace EXCEPT ![sock[s].id] = [on |-> TRUE, refs |-> sock[s].refs]]
      BY DEF OnClose
  <2> QED
      BY <2>1, <2>2 DEF GatewayTypeOK
<1> QED
    BY <1>3, <1>4, <1>5 DEF GatewayTypeOK, OnClose

LEMMA GraceType ==
    ASSUME GatewayTypeOK, NEW c \in Clients, GraceEnds(c)
    PROVE  GatewayTypeOK'
<1>1. grace' \in [Clients -> [on : BOOLEAN, refs : SUBSET Refs]]
    BY DEF GatewayTypeOK, GraceEnds, NoGrace
<1>2. subs' \in [Refs -> SUBSET Clients]
    BY DetachedType DEF GatewayTypeOK, GraceEnds
<1>3. missed' \in [Clients -> Seq(ChangeNumbers)] /\ \A d \in Clients : Len(missed'[d]) <= MissedLimit
    BY NothingMissedType DEF GatewayTypeOK, GraceEnds
<1>4. away' \in [Clients -> SUBSET ChangeNumbers]
    BY DEF GatewayTypeOK, GraceEnds
<1> QED
    BY <1>1, <1>2, <1>3, <1>4 DEF GatewayTypeOK, GraceEnds

\* Setting the refs of a socket in use.
LEMMA RefsUpdateType ==
    ASSUME GatewayTypeOK, ConnectionStarted, NEW c \in Clients, connections[c] # None,
           NEW R \in SUBSET Refs, sock' = [sock EXCEPT ![connections[c]].refs = R]
    PROVE  /\ sock' \in [Sockets -> SocketRecord]
           /\ \A t \in Sockets : sock'[t].owner = None => sock'[t] = NoSocket
<1> DEFINE s == connections[c]
<1>1. s \in Sockets /\ sock[s] \in SocketRecord
    BY SocketFields DEF GatewayTypeOK
<1>2. sock[s].owner # None
    BY <1>1, NoneAssumption DEF ConnectionStarted, GatewayTypeOK, NoSocket
<1>3. [sock[s] EXCEPT !.refs = R] \in SocketRecord
      /\ [sock[s] EXCEPT !.refs = R].owner = sock[s].owner
    BY <1>1 DEF SocketRecord
<1> QED
    BY <1>1, <1>2, <1>3 DEF GatewayTypeOK

LEMMA ListenType ==
    ASSUME GatewayTypeOK, ConnectionStarted, NEW c \in Clients, NEW r \in Refs, Listen(c, r)
    PROVE  GatewayTypeOK'
<1> DEFINE s == connections[c]
<1>1. s \in Sockets /\ sock[s].refs \cup {r} \in SUBSET Refs
    BY SocketFields DEF GatewayTypeOK, Listen
<1>2. sock' = [sock EXCEPT ![s].refs = sock[s].refs \cup {r}]
    BY DEF Listen
<1>3. sock' \in [Sockets -> SocketRecord]
      /\ \A t \in Sockets : sock'[t].owner = None => sock'[t] = NoSocket
    BY <1>1, <1>2, RefsUpdateType DEF Listen
<1>4. subs' \in [Refs -> SUBSET Clients]
    BY DEF GatewayTypeOK, Listen
<1> QED
    BY <1>3, <1>4 DEF GatewayTypeOK, Listen

LEMMA UnsubscribeType ==
    ASSUME GatewayTypeOK, ConnectionStarted, NEW s \in Sockets, NEW r \in Refs, Unsubscribe(s, r)
    PROVE  GatewayTypeOK'
<1> DEFINE c == sock[s].id
<1>0. c \in Clients
    BY SocketFields DEF Unsubscribe
<1>1. subs' \in [Refs -> SUBSET Clients]
    BY DetachedType DEF Unsubscribe
<1>2. sock' \in [Sockets -> SocketRecord]
      /\ \A t \in Sockets : sock'[t].owner = None => sock'[t] = NoSocket
  <2>1. CASE connections[c] = None
      BY <2>1 DEF GatewayTypeOK, Unsubscribe
  <2>2. CASE connections[c] # None
    <3>1. connections[c] \in Sockets
        BY <2>2, <1>0 DEF GatewayTypeOK
    <3>2. sock[connections[c]].refs \ {r} \in SUBSET Refs
        BY <3>1, SocketFields
    <3>3. sock' = [sock EXCEPT ![connections[c]].refs = sock[connections[c]].refs \ {r}]
        BY <2>2 DEF Unsubscribe
    <3> QED
        BY <3>2, <3>3, <2>2, <1>0, RefsUpdateType
  <2> QED
      BY <2>1, <2>2
<1> QED
    BY <1>1, <1>2 DEF GatewayTypeOK, Unsubscribe

LEMMA PublishType ==
    ASSUME GatewayTypeOK, NEW d \in Documents, Publish(d)
    PROVE  GatewayTypeOK'
<1> DEFINE n == Len(changes) + 1
           copies(c) == IF Hits(c, d) = {Collection, d} THEN <<n, n>> ELSE <<n>>
<1>1. n \in ChangeNumbers
    BY GatewayBoundsAssumption DEF Publish, GatewayTypeOK, ChangeNumbers
<1>2. changes' \in Seq(Documents) /\ Len(changes') <= MaxChanges
    BY GatewayBoundsAssumption DEF Publish, GatewayTypeOK
<1>3. posted' \in [Sockets -> Seq(ChangeNumbers)]
    BY <1>1 DEF Publish, GatewayTypeOK
<1>4. ASSUME NEW c \in Clients
      PROVE  Newest(missed[c] \o copies(c)) \in Seq(ChangeNumbers)
             /\ Len(Newest(missed[c] \o copies(c))) <= MissedLimit
  <2>1. missed[c] \in Seq(ChangeNumbers) /\ copies(c) \in Seq(ChangeNumbers)
      BY <1>1 DEF GatewayTypeOK
  <2>2. missed[c] \o copies(c) \in Seq(ChangeNumbers)
      BY <2>1, ConcatProperties
  <2> QED
      BY <2>2, NewestType
<1>5. missed' \in [Clients -> Seq(ChangeNumbers)] /\ \A c \in Clients : Len(missed'[c]) <= MissedLimit
    BY <1>4 DEF Publish, GatewayTypeOK
<1>6. away' \in [Clients -> SUBSET ChangeNumbers]
    BY <1>1 DEF Publish, GatewayTypeOK
<1> QED
    BY <1>2, <1>3, <1>5, <1>6 DEF GatewayTypeOK, Publish

LEMMA SendType ==
    ASSUME GatewayTypeOK, NEW s \in Sockets, SendPosted(s)
    PROVE  GatewayTypeOK'
<1>1. posted[s] \in Seq(ChangeNumbers) /\ posted[s] # <<>>
    BY DEF GatewayTypeOK, SendPosted
<1>2. Head(posted[s]) \in ChangeNumbers /\ Tail(posted[s]) \in Seq(ChangeNumbers)
    BY <1>1, HeadTailProperties
<1>3. posted' \in [Sockets -> Seq(ChangeNumbers)]
    BY <1>2 DEF GatewayTypeOK, SendPosted
<1>4. got' \in [Clients -> Seq(ChangeNumbers)]
  <2>1. \A c \in Clients : Append(got[c], Head(posted[s])) \in Seq(ChangeNumbers)
      BY <1>2, AppendProperties DEF GatewayTypeOK
  <2> QED
      BY <2>1 DEF GatewayTypeOK, SendPosted
<1> QED
    BY <1>3, <1>4 DEF GatewayTypeOK, SendPosted

-----------------------------------------------------------------------------
(* Each step keeps what connections, subscriptions and timers say together *)

Together == OneConnection /\ ConnectionStarted /\ RefsMatch /\ DroppedInGrace

LEMMA GatewayInitTogether == GatewayInit => Together
BY DEF GatewayInit, Together, OneConnection, ConnectionStarted, RefsMatch, DroppedInGrace,
       NoSocket, RefsOf

\* A step that changes neither who is connected, who subscribes nor a timer, and
\* of the sockets only their wires or an unused one that is accepted.
LEMMA WiresOnly ==
    ASSUME GatewayTypeOK, Together, UNCHANGED <<connections, subs, grace>>,
           \A t \in Sockets :
              \/ /\ sock'[t].phase = sock[t].phase /\ sock'[t].id = sock[t].id
                 /\ sock'[t].refs = sock[t].refs /\ sock'[t].closes = sock[t].closes
              \/ sock[t].phase = "unused" /\ sock'[t].phase = "accepted" /\ sock'[t].id = None
    PROVE  Together'
<1>1. OneConnection'
    BY DEF Together, OneConnection
<1>2. ASSUME NEW c \in Clients, connections[c] # None
      PROVE  /\ sock'[connections[c]].id = c /\ sock'[connections[c]].refs = sock[connections[c]].refs
             /\ sock'[connections[c]].phase = sock[connections[c]].phase
  <2>1. connections[c] \in Sockets
      BY <1>2 DEF GatewayTypeOK
  <2>2. sock[connections[c]].id = c
      BY <1>2 DEF Together, ConnectionStarted
  <2>3. sock[connections[c]].phase # "unused"
      BY <2>1, <2>2, NoneAssumption DEF Together, OneConnection
  <2> QED
      BY <2>1, <2>2, <2>3
<1>3. ConnectionStarted' /\ RefsMatch'
    BY <1>2 DEF Together, ConnectionStarted, RefsMatch, RefsOf
<1>4. DroppedInGrace'
    BY DEF Together, DroppedInGrace, RefsOf
<1> QED
    BY <1>1, <1>3, <1>4 DEF Together

LEMMA AcceptTogether ==
    ASSUME GatewayTypeOK, Together, NEW s \in Sockets, NEW c \in Clients, Accept(s, c)
    PROVE  Together'
<1>1. ASSUME NEW t \in Sockets
      PROVE  \/ /\ sock'[t].phase = sock[t].phase /\ sock'[t].id = sock[t].id
                /\ sock'[t].refs = sock[t].refs /\ sock'[t].closes = sock[t].closes
             \/ sock[t].phase = "unused" /\ sock'[t].phase = "accepted" /\ sock'[t].id = None
    BY SocketFields DEF Accept, NoSocket, SocketRecord
<1> QED
    BY <1>1, WiresOnly DEF Accept

LEMMA WireTogether ==
    ASSUME GatewayTypeOK, Together, NEW s \in Sockets, PeerGone(s) \/ Noticed(s)
    PROVE  Together'
<1>1. ASSUME NEW t \in Sockets
      PROVE  /\ sock'[t].phase = sock[t].phase /\ sock'[t].id = sock[t].id
             /\ sock'[t].refs = sock[t].refs /\ sock'[t].closes = sock[t].closes
  <2>1. PICK w \in {"cut", "down"} : sock' = [sock EXCEPT ![s].wire = w]
      BY DEF PeerGone, Noticed
  <2>2. CASE t = s
      BY <2>1, <2>2, SocketFields DEF SocketRecord, GatewayTypeOK
  <2>3. CASE t # s
      BY <2>1, <2>3 DEF GatewayTypeOK
  <2> QED
      BY <2>2, <2>3
<1> QED
    BY <1>1, WiresOnly DEF PeerGone, Noticed

LEMMA StartTogether ==
    ASSUME GatewayTypeOK, Together, NEW s \in Sockets, StartSocket(s)
    PROVE  Together'
<1> DEFINE c == sock[s].owner
           old == connections[c]
<1>0. c \in Clients /\ sock[s].phase = "accepted" /\ old \in Sockets \cup {None} /\ old # s
  <2>1. c \in Clients /\ sock[s].phase = "accepted"
      BY SocketFields DEF StartSocket
  <2>2. old \in Sockets \cup {None}
      BY <2>1 DEF GatewayTypeOK
  <2>3. old # None => sock[old].id = c
      BY <2>1 DEF Together, ConnectionStarted
  <2>4. sock[s].id = None
      BY <2>1 DEF Together, OneConnection
  <2> QED
      BY <2>1, <2>2, <2>3, <2>4, NoneAssumption
<1>1. /\ sock'[s].phase = "started" /\ sock'[s].id = c /\ sock'[s].refs = Resumed(c)
      /\ connections' = [connections EXCEPT ![c] = s]
      /\ grace' = [grace EXCEPT ![c] = NoGrace] /\ subs' = subs
  <2>1. sock[s] \in SocketRecord
      BY SocketFields
  <2>2. sock'[s] = [sock[s] EXCEPT !.phase = "started", !.id = c, !.refs = Resumed(c)]
      BY DEF StartSocket
  <2>3. /\ connections' = [connections EXCEPT ![c] = s]
        /\ grace' = [grace EXCEPT ![c] = NoGrace] /\ subs' = subs
      BY DEF StartSocket
  <2>4. /\ sock'[s].phase = "started" /\ sock'[s].id = c /\ sock'[s].refs = Resumed(c)
      BY <2>1, <2>2 DEF SocketRecord
  <2> QED
      BY <2>3, <2>4
<1>2. old # None => /\ sock'[old].id = None
                    /\ sock'[old].phase = sock[old].phase /\ sock'[old].closes = sock[old].closes
  <2>1. SUFFICES ASSUME old # None
                 PROVE  /\ sock'[old].id = None /\ sock'[old].phase = sock[old].phase
                        /\ sock'[old].closes = sock[old].closes
      OBVIOUS
  <2>2. old \in Sockets /\ sock[old] \in SocketRecord
      BY <1>0, <2>1, SocketFields
  <2>3. sock'[old] = [sock[old] EXCEPT !.id = None, !.wire = "down"]
      BY <1>0, <2>2 DEF StartSocket
  <2> QED
      BY <2>2, <2>3 DEF SocketRecord
<1>3. \A t \in Sockets : t # s /\ t # old => sock'[t] = sock[t]
    BY <1>0 DEF StartSocket
<1>4. ASSUME NEW d \in Clients, d # c, connections[d] # None
      PROVE  connections'[d] = connections[d] /\ connections[d] # s /\ connections[d] # old
  <2>1. sock[connections[d]].id = d
      BY <1>4 DEF Together, ConnectionStarted
  <2>2. sock[s].id = None
      BY <1>0 DEF Together, OneConnection
  <2>3. old # None => sock[old].id = c
      BY <1>0 DEF Together, ConnectionStarted
  <2> QED
      BY <2>1, <2>2, <2>3, <1>4, <1>0, <1>1, NoneAssumption DEF GatewayTypeOK
<1>5. OneConnection'
  <2>1. ASSUME NEW t \in Sockets, sock'[t].phase = "started", sock'[t].id # None
        PROVE  connections'[sock'[t].id] = t
    <3>1. CASE t = s
        BY <3>1, <1>0, <1>1 DEF GatewayTypeOK
    <3>2. CASE t # s
      <4>1. t # old /\ sock'[t] = sock[t]
          BY <3>2, <2>1, <1>2, <1>3, NoneAssumption
      <4>2. connections[sock[t].id] = t /\ sock[t].id \in Clients
          BY <4>1, <2>1, SocketFields DEF Together, OneConnection
      <4>3. sock[t].id # c
          BY <4>1, <4>2
      <4> QED
          BY <4>1, <4>2, <4>3, <1>1
    <3> QED
        BY <3>1, <3>2
  <2>2. \A t \in Sockets : sock'[t].phase \in {"unused", "accepted"} => sock'[t].id = None
      BY <1>0, <1>1, <1>2, <1>3, NoneAssumption DEF Together, OneConnection
  <2>3. \A t \in Sockets : sock'[t].phase = "closed" => sock'[t].closes >= 1
      BY <1>0, <1>1, <1>2, <1>3, NoneAssumption DEF Together, OneConnection
  <2> QED
      BY <2>1, <2>2, <2>3 DEF OneConnection
<1>6. ConnectionStarted'
  <2>1. ASSUME NEW d \in Clients, connections'[d] # None
        PROVE  /\ sock'[connections'[d]].id = d
               /\ SameObject => sock'[connections'[d]].phase = "started"
    <3>1. CASE d = c
        BY <3>1, <1>0, <1>1 DEF GatewayTypeOK
    <3>2. CASE d # c
        BY <3>2, <2>1, <1>1, <1>3, <1>4 DEF Together, ConnectionStarted, GatewayTypeOK
    <3> QED
        BY <3>1, <3>2
  <2> QED
      BY <2>1 DEF ConnectionStarted
<1>7. RefsMatch'
  <2>1. \A d : RefsOf(d)' = RefsOf(d)
      BY <1>1 DEF RefsOf
  <2>2. MaxCloses = 1 => Resumed(c) = RefsOf(c)
      BY <1>0, NoneAssumption DEF Resumed, Together, RefsMatch, DroppedInGrace, RefsOf
  <2>3. ASSUME MaxCloses = 1, NEW d \in Clients, connections'[d] # None
        PROVE  sock'[connections'[d]].id = d /\ sock'[connections'[d]].refs = RefsOf(d)
    <3>1. CASE d = c
        BY <3>1, <2>2, <2>3, <1>0, <1>1 DEF GatewayTypeOK
    <3>2. CASE d # c
        BY <3>2, <2>3, <1>1, <1>3, <1>4 DEF Together, RefsMatch, GatewayTypeOK
    <3> QED
        BY <3>1, <3>2
  <2> QED
      BY <2>1, <2>3 DEF RefsMatch
<1>8. DroppedInGrace'
    BY <1>0, <1>1, NoneAssumption DEF Together, DroppedInGrace, RefsOf, GatewayTypeOK
<1> QED
    BY <1>5, <1>6, <1>7, <1>8 DEF Together

LEMMA CloseTogether ==
    ASSUME GatewayTypeOK, Together, NEW s \in Sockets, OnClose(s)
    PROVE  Together'
<1> DEFINE c == sock[s].id
<1>0. /\ c \in Clients \cup {None} /\ sock[s].refs \in SUBSET Refs /\ sock[s].closes \in Nat
      /\ subs' = subs
    BY SocketFields DEF OnClose
<1>1. /\ sock'[s].phase = "closed" /\ sock'[s].closes = sock[s].closes + 1
      /\ sock'[s].id = c /\ sock'[s].refs = sock[s].refs
    BY SocketFields DEF OnClose, SocketRecord, GatewayTypeOK
<1>2. \A t \in Sockets : t # s => sock'[t] = sock[t]
    BY DEF OnClose, GatewayTypeOK
<1>3. \A t \in Sockets : sock'[t].id = sock[t].id /\ sock'[t].refs = sock[t].refs
    BY <1>1, <1>2
<1>4. \A d \in Clients : \/ connections'[d] = connections[d]
                         \/ d = c /\ connections[d] = s /\ connections'[d] = None
    BY DEF OnClose, GatewayTypeOK
<1>5. OneConnection'
  <2>1. ASSUME NEW t \in Sockets, sock'[t].phase = "started", sock'[t].id # None
        PROVE  connections'[sock'[t].id] = t
    <3>1. t # s /\ sock'[t] = sock[t] /\ sock[t].id \in Clients
        BY <2>1, <1>1, <1>2, SocketFields
    <3>2. connections[sock[t].id] = t
        BY <3>1, <2>1 DEF Together, OneConnection
    <3> QED
        BY <3>1, <3>2, <1>4
  <2>2. \A t \in Sockets : sock'[t].phase \in {"unused", "accepted"} => sock'[t].id = None
      BY <1>1, <1>2 DEF Together, OneConnection
  <2>3. \A t \in Sockets : sock'[t].phase = "closed" => sock'[t].closes >= 1
      BY <1>0, <1>1, <1>2 DEF Together, OneConnection
  <2> QED
      BY <2>1, <2>2, <2>3 DEF OneConnection
<1>6. ASSUME NEW d \in Clients, connections'[d] # None
      PROVE  /\ connections'[d] = connections[d] /\ connections[d] \in Sockets
             /\ sock'[connections[d]].id = d
             /\ sock'[connections[d]].refs = sock[connections[d]].refs
             /\ SameObject => connections[d] # s
  <2>1. connections'[d] = connections[d] /\ connections[d] \in Sockets
      BY <1>6, <1>4 DEF GatewayTypeOK
  <2>2. sock[connections[d]].id = d
      BY <2>1, <1>6 DEF Together, ConnectionStarted
  <2>3. SameObject /\ connections[d] = s => FALSE
    <3>1. HAVE SameObject /\ connections[d] = s
    <3>2. connections' = [connections EXCEPT ![c] = None] /\ c = d
        BY <3>1, <2>2, NoneAssumption DEF OnClose
    <3> QED
        BY <3>2, <1>6 DEF GatewayTypeOK
  <2> QED
      BY <2>1, <2>2, <2>3, <1>3
<1>7. ConnectionStarted'
  <2>1. ASSUME NEW d \in Clients, connections'[d] # None, SameObject
        PROVE  sock'[connections'[d]].phase = "started"
    <3>1. connections[d] # s /\ connections'[d] = connections[d] /\ connections[d] \in Sockets
        BY <2>1, <1>6
    <3>2. sock'[connections[d]] = sock[connections[d]]
        BY <3>1, <1>2
    <3> QED
        BY <3>1, <3>2, <2>1 DEF Together, ConnectionStarted
  <2> QED
      BY <2>1, <1>6 DEF ConnectionStarted
<1>8. RefsMatch'
  <2>1. \A d : RefsOf(d)' = RefsOf(d)
      BY <1>0 DEF RefsOf
  <2> QED
      BY <2>1, <1>6 DEF Together, RefsMatch
<1>9. DroppedInGrace'
  <2>1. SUFFICES ASSUME MaxCloses = 1, NEW d \in Clients, connections'[d] = None,
                        NEW r \in RefsOf(d)
                 PROVE  grace'[d].on /\ r \in grace'[d].refs
      BY <1>0 DEF DroppedInGrace, RefsOf
  <2>2. CASE c = None \/ d # c
    <3>1. connections[d] = None
        BY <2>1, <2>2, <1>4, NoneAssumption
    <3>2. grace'[d] = grace[d]
        BY <2>2, <1>0 DEF OnClose, GatewayTypeOK
    <3> QED
        BY <2>1, <3>1, <3>2 DEF Together, DroppedInGrace
  <2>3. CASE c # None /\ d = c
    <3>1. sock[s].phase = "started" /\ connections[d] = s
      <4>1. sock[s].phase # "closed"
          BY <2>1, <1>0 DEF OnClose, Together, OneConnection
      <4>2. sock[s].phase = "started"
          BY <4>1, <2>3, SocketFields DEF OnClose, Together, OneConnection, SocketRecord
      <4> QED
          BY <4>2, <2>3 DEF Together, OneConnection
    <3>2. sock[s].refs = RefsOf(d)
        BY <2>1, <3>1, NoneAssumption DEF Together, RefsMatch
    <3>3. grace' = [grace EXCEPT ![c] = [on |-> TRUE, refs |-> sock[s].refs]]
        BY <2>1, <2>3, <3>2 DEF OnClose
    <3> QED
        BY <2>1, <2>3, <3>2, <3>3 DEF GatewayTypeOK
  <2> QED
      BY <2>2, <2>3
<1> QED
    BY <1>5, <1>7, <1>8, <1>9 DEF Together

\* Taking refs from a client takes them from nobody else.
LEMMA DetachedRefs ==
    ASSUME NEW c, NEW R, subs' = Detached(c, R)
    PROVE  /\ RefsOf(c)' = RefsOf(c) \ R
           /\ \A d : d # c => RefsOf(d)' = RefsOf(d)
BY DEF Detached, RefsOf

LEMMA GraceTogether ==
    ASSUME GatewayTypeOK, Together, NEW c \in Clients, GraceEnds(c)
    PROVE  Together'
<1>1. /\ sock' = sock /\ connections' = connections
      /\ \A d \in Clients : d # c => grace'[d] = grace[d]
    BY DEF GraceEnds, GatewayTypeOK
<1>2. OneConnection' /\ ConnectionStarted'
    BY <1>1 DEF Together, OneConnection, ConnectionStarted
<1>3. \A d : d # c \/ connections[c] # None => RefsOf(d)' = RefsOf(d)
    BY DetachedRefs DEF GraceEnds, RefsOf
<1>4. RefsMatch'
    BY <1>1, <1>3 DEF Together, RefsMatch
<1>5. DroppedInGrace'
  <2>1. connections[c] = None /\ MaxCloses = 1 => RefsOf(c)' = {}
    <3>1. HAVE connections[c] = None /\ MaxCloses = 1
    <3>2. RefsOf(c)' = RefsOf(c) \ grace[c].refs
        BY <3>1, DetachedRefs DEF GraceEnds
    <3>3. \A r \in RefsOf(c) : r \in grace[c].refs
        BY <3>1 DEF Together, DroppedInGrace
    <3> QED
        BY <3>2, <3>3
  <2> QED
      BY <2>1, <1>1, <1>3 DEF Together, DroppedInGrace
<1> QED
    BY <1>2, <1>4, <1>5 DEF Together

\* Changing the refs of the connection of a client along with its subscriptions.
LEMMA RefsUpdateTogether ==
    ASSUME GatewayTypeOK, Together, UNCHANGED <<connections, grace>>,
           NEW c \in Clients, connections[c] # None, NEW R \in SUBSET Refs,
           sock' = [sock EXCEPT ![connections[c]].refs = R],
           MaxCloses = 1 => RefsOf(c)' = R,
           \A d : d # c => RefsOf(d)' = RefsOf(d)
    PROVE  Together'
<1> DEFINE s == connections[c]
<1>1. s \in Sockets /\ sock[s].id = c
    BY DEF GatewayTypeOK, Together, ConnectionStarted
<1>2. /\ sock'[s].phase = sock[s].phase /\ sock'[s].id = c /\ sock'[s].refs = R
      /\ sock'[s].closes = sock[s].closes
    BY <1>1, SocketFields DEF SocketRecord, GatewayTypeOK
<1>3. \A t \in Sockets : t # s => sock'[t] = sock[t]
    BY DEF GatewayTypeOK
<1>4. \A d \in Clients : d # c /\ connections[d] # None =>
          connections[d] \in Sockets /\ connections[d] # s
    BY <1>1 DEF GatewayTypeOK, Together, ConnectionStarted
<1>5. OneConnection'
    BY <1>1, <1>2, <1>3 DEF Together, OneConnection
<1>6. ConnectionStarted'
  <2>1. ASSUME NEW d \in Clients, connections'[d] # None
        PROVE  /\ sock'[connections'[d]].id = d
               /\ SameObject => sock'[connections'[d]].phase = "started"
    <3>1. CASE d = c
        BY <3>1, <1>2 DEF Together, ConnectionStarted
    <3>2. CASE d # c
        BY <3>2, <2>1, <1>3, <1>4 DEF Together, ConnectionStarted
    <3> QED
        BY <3>1, <3>2
  <2> QED
      BY <2>1 DEF ConnectionStarted
<1>7. RefsMatch'
  <2>1. ASSUME MaxCloses = 1, NEW d \in Clients, connections'[d] # None
        PROVE  sock'[connections'[d]].id = d /\ sock'[connections'[d]].refs = RefsOf(d)'
    <3>1. CASE d = c
        BY <3>1, <2>1, <1>2
    <3>2. CASE d # c
        BY <3>2, <2>1, <1>3, <1>4 DEF Together, RefsMatch
    <3> QED
        BY <3>1, <3>2
  <2> QED
      BY <2>1 DEF RefsMatch
<1>8. DroppedInGrace'
    BY DEF Together, DroppedInGrace
<1> QED
    BY <1>5, <1>6, <1>7, <1>8 DEF Together

LEMMA ListenTogether ==
    ASSUME GatewayTypeOK, Together, NEW c \in Clients, NEW r \in Refs, Listen(c, r)
    PROVE  Together'
<1> DEFINE R == sock[connections[c]].refs \cup {r}
<1>1. connections[c] \in Sockets /\ connections[c] # None
    BY DEF GatewayTypeOK, Listen
<1>2. R \in SUBSET Refs /\ sock' = [sock EXCEPT ![connections[c]].refs = R]
    BY <1>1, SocketFields DEF Listen
<1>3. subs' = [subs EXCEPT ![r] = subs[r] \cup {c}]
    BY DEF Listen
<1>4. RefsOf(c)' = RefsOf(c) \cup {r}
    BY <1>3 DEF RefsOf, GatewayTypeOK
<1>5. MaxCloses = 1 => RefsOf(c)' = R
    BY <1>1, <1>4 DEF Together, RefsMatch
<1>6. \A d : d # c => RefsOf(d)' = RefsOf(d)
    BY <1>3 DEF RefsOf, GatewayTypeOK
<1> QED
    BY <1>1, <1>2, <1>5, <1>6, RefsUpdateTogether DEF Listen

LEMMA UnsubscribeTogether ==
    ASSUME GatewayTypeOK, Together, NEW s \in Sockets, NEW r \in Refs, Unsubscribe(s, r)
    PROVE  Together'
<1> PICK c \in Clients : c = sock[s].id
    BY SocketFields DEF Unsubscribe
<1>1. connections[c] = s /\ s # None
    BY SocketFields, NoneAssumption DEF Unsubscribe, Together, OneConnection
<1>2. subs' = Detached(c, {r})
    BY DEF Unsubscribe
<1>3. sock' = [sock EXCEPT ![connections[c]].refs = sock[s].refs \ {r}]
    BY <1>1 DEF Unsubscribe
<1>4. RefsOf(c)' = RefsOf(c) \ {r} /\ \A d : d # c => RefsOf(d)' = RefsOf(d)
    BY <1>2, DetachedRefs
<1>5. MaxCloses = 1 => RefsOf(c)' = sock[s].refs \ {r}
    BY <1>1, <1>4 DEF Together, RefsMatch
<1>6. sock[s].refs \ {r} \in SUBSET Refs
    BY SocketFields
<1> QED
    BY <1>1, <1>3, <1>4, <1>5, <1>6, RefsUpdateTogether DEF Unsubscribe

-----------------------------------------------------------------------------
(* The invariant, and what follows from it *)

\* One step of the gateway, whichever handler runs.
LEMMA GatewayStep ==
    ASSUME GatewayTypeOK, Together, [GatewayNext]_gwVars
    PROVE  GatewayTypeOK' /\ Together'
<1>0. ConnectionStarted
    BY DEF Together
<1>1. ASSUME NEW s \in Sockets, NEW c \in Clients, Accept(s, c)
      PROVE  GatewayTypeOK' /\ Together'
    BY <1>1, AcceptType, AcceptTogether
<1>2. ASSUME NEW s \in Sockets, PeerGone(s) \/ Noticed(s)
      PROVE  GatewayTypeOK' /\ Together'
    BY <1>2, WireType, WireTogether
<1>3. ASSUME NEW s \in Sockets, StartSocket(s)
      PROVE  GatewayTypeOK' /\ Together'
    BY <1>0, <1>3, StartType, StartTogether
<1>4. ASSUME NEW s \in Sockets, OnClose(s)
      PROVE  GatewayTypeOK' /\ Together'
    BY <1>4, CloseType, CloseTogether
<1>5. ASSUME NEW s \in Sockets, SendPosted(s)
      PROVE  GatewayTypeOK' /\ Together'
  <2>1. UNCHANGED <<sock, connections, subs, grace>>
      BY <1>5 DEF SendPosted
  <2> QED
      BY <2>1, <1>5, SendType, WiresOnly
<1>6. ASSUME NEW s \in Sockets, NEW r \in Refs, Unsubscribe(s, r)
      PROVE  GatewayTypeOK' /\ Together'
    BY <1>0, <1>6, UnsubscribeType, UnsubscribeTogether
<1>7. ASSUME NEW c \in Clients, NEW r \in Refs, Listen(c, r)
      PROVE  GatewayTypeOK' /\ Together'
    BY <1>0, <1>7, ListenType, ListenTogether
<1>8. ASSUME NEW c \in Clients, GraceEnds(c)
      PROVE  GatewayTypeOK' /\ Together'
    BY <1>8, GraceType, GraceTogether
<1>9. ASSUME NEW d \in Documents, Publish(d)
      PROVE  GatewayTypeOK' /\ Together'
  <2>1. UNCHANGED <<sock, connections, subs, grace>>
      BY <1>9 DEF Publish
  <2> QED
      BY <2>1, <1>9, PublishType, WiresOnly
<1>10. CASE UNCHANGED gwVars
  <2>1. GatewayTypeOK'
      BY <1>10 DEF gwVars, GatewayTypeOK
  <2> QED
      BY <2>1, <1>10, WiresOnly DEF gwVars
<1> QED
    BY <1>1, <1>2, <1>3, <1>4, <1>5, <1>6, <1>7, <1>8, <1>9, <1>10 DEF GatewayNext

\* The inductive invariant: a client has one connection at most, that connection
\* knows the client's subscriptions, and those of a client that has none are in
\* the hands of its grace timer.
THEOREM GatewayInvariance == GatewaySpec => []GatewayIInv
<1>1. GatewayInit => GatewayIInv
    BY GatewayInitType, GatewayInitTogether DEF GatewayIInv, Together
<1>2. GatewayIInv /\ [GatewayNext]_gwVars => GatewayIInv'
    BY GatewayStep DEF GatewayIInv, Together
<1> QED
    BY <1>1, <1>2, PTL DEF GatewaySpec

\* Type correctness: among others, no client's list of missed changes passes
\* MISSED_LIMIT, whatever happens (_keepMissed).
THEOREM GatewayTypeCorrect == GatewaySpec => []GatewayTypeOK
<1>1. GatewayIInv => GatewayTypeOK
    BY DEF GatewayIInv
<1> QED
    BY <1>1, GatewayInvariance, PTL

\* With an adapter that reports each close once, a connection's own refs are
\* exactly the subscriptions of its client (the rebuilt set of _onStart).
THEOREM RefsAgree == GatewaySpec => []RefsMatch
<1>1. GatewayIInv => RefsMatch
    BY DEF GatewayIInv
<1> QED
    BY <1>1, GatewayInvariance, PTL

\* With an adapter that also keeps a socket's identity, no subscription outlives
\* its client: an open connection or a running timer will remove it.
THEOREM NothingLeaks == GatewaySpec => []NoLeak
<1>1. GatewayIInv => NoLeak
  <2>1. SUFFICES ASSUME GatewayIInv, SameObject, MaxCloses = 1, NEW c \in Clients,
                        NEW r \in RefsOf(c)
                 PROVE  r \in Held(c)
      BY DEF NoLeak, GoneIsDetached
  <2>2. r \in Refs
      BY <2>1 DEF RefsOf
  <2>3. CASE connections[c] = None
      BY <2>1, <2>2, <2>3 DEF GatewayIInv, DroppedInGrace, Held
  <2>4. CASE connections[c] # None
      BY <2>1, <2>2, <2>4 DEF GatewayIInv, ConnectionStarted, Held
  <2> QED
      BY <2>3, <2>4
<1> QED
    BY <1>1, GatewayInvariance, PTL

\* For every adapter, a connected client loses a subscription only by its own
\* `unsubscribe`: no late close, takeover or timer takes it (_scheduleDetach).
THEOREM NewestWins == GatewaySpec => ConnectedKeepsRefs
<1> DEFINE Kept ==
        \A c \in Clients : \A r \in RefsOf(c) :
            c \notin subs'[r] =>
                \/ connections[c] = None
                \/ \E s \in Sockets : sock[s].id = c /\ Unsubscribe(s, r)
<1>1. ASSUME GatewayIInv, [GatewayNext]_gwVars
      PROVE  Kept
  <2>1. SUFFICES ASSUME NEW c \in Clients, NEW r \in RefsOf(c), c \notin subs'[r],
                        connections[c] # None
                 PROVE  \E s \in Sockets : sock[s].id = c /\ Unsubscribe(s, r)
      OBVIOUS
  <2>2. r \in Refs /\ c \in subs[r]
      BY DEF RefsOf
  <2>3. subs' # subs
      BY <2>1, <2>2
  <2>4. ASSUME NEW d \in Clients, NEW q \in Refs, Listen(d, q)
        PROVE  FALSE
      BY <2>1, <2>2, <2>4 DEF Listen, GatewayIInv, GatewayTypeOK
  <2>5. ASSUME NEW d \in Clients, GraceEnds(d)
        PROVE  FALSE
    <3>1. connections[d] = None /\ subs' = Detached(d, grace[d].refs)
        BY <2>3, <2>5 DEF GraceEnds
    <3>2. c # d
        BY <2>1, <3>1
    <3> QED
        BY <2>1, <2>2, <3>1, <3>2 DEF Detached
  <2>6. ASSUME NEW s \in Sockets, NEW q \in Refs, Unsubscribe(s, q)
        PROVE  sock[s].id = c /\ q = r
    <3>1. subs' = Detached(sock[s].id, {q})
        BY <2>6 DEF Unsubscribe
    <3> QED
        BY <2>1, <2>2, <3>1 DEF Detached
  <2>7. \/ \E d \in Clients, q \in Refs : Listen(d, q)
        \/ \E d \in Clients : GraceEnds(d)
        \/ \E s \in Sockets, q \in Refs : Unsubscribe(s, q)
      BY <1>1, <2>3 DEF GatewayNext, gwVars, Accept, PeerGone, Noticed, StartSocket, OnClose,
                        SendPosted, Publish
  <2> QED
      BY <2>4, <2>5, <2>6, <2>7
<1>2. GatewayIInv /\ [GatewayNext]_gwVars => [Kept]_gwVars
    BY <1>1
<1> QED
    BY <1>2, GatewayInvariance, PTL DEF GatewaySpec, ConnectedKeepsRefs

-----------------------------------------------------------------------------
(* Refinement: the gateway implements Subscriptions *)

\* A step that leaves the map of subscriptions alone leaves everyone's.
LEMMA SameSubs ==
    ASSUME NEW c \in Clients, subs' = subs
    PROVE  Subs!ComesOrLeaves(c)
BY DEF Subs!ComesOrLeaves, RefsOf

\* listen() subscribes a client that is connected, and nobody else.
LEMMA ListenSubs ==
    ASSUME GatewayIInv, NEW d \in Clients, NEW q \in Refs, Listen(d, q), NEW c \in Clients
    PROVE  Subs!ComesOrLeaves(c) \/ Subs!Subscribes(c)
<1>1. /\ subs \in [Refs -> SUBSET Clients]
      /\ subs' = [subs EXCEPT ![q] = @ \cup {d}]
      /\ connections[d] # None
    BY DEF Listen, GatewayIInv, GatewayTypeOK
<1>2. CASE c = d
  <2>1. RefsOf(c)' = RefsOf(c) \cup {q}
      BY <1>1, <1>2 DEF RefsOf
  <2> QED
      BY <1>1, <1>2, <2>1 DEF Subs!Subscribes
<1>3. CASE c # d
  <2>1. RefsOf(c)' = RefsOf(c)
      BY <1>1, <1>3 DEF RefsOf
  <2> QED
      BY <2>1 DEF Subs!ComesOrLeaves
<1> QED
    BY <1>2, <1>3

\* detach() of some refs of a client leaves the others theirs.
LEMMA DetachedSubs ==
    ASSUME GatewayIInv, NEW d, NEW refs, subs' = Detached(d, refs), NEW c \in Clients
    PROVE  RefsOf(c)' = IF c = d THEN RefsOf(c) \ refs ELSE RefsOf(c)
BY DEF Detached, RefsOf, GatewayIInv, GatewayTypeOK

\* An `unsubscribe` frame drops one ref of the client of that socket, which is
\* connected (OneConnection).
LEMMA UnsubscribeSubs ==
    ASSUME GatewayIInv, NEW s \in Sockets, NEW q \in Refs, Unsubscribe(s, q), NEW c \in Clients
    PROVE  Subs!ComesOrLeaves(c) \/ Subs!Drops(c)
<1>1. /\ subs' = Detached(sock[s].id, {q})
      /\ connections[sock[s].id] = s
      /\ sock[s].id \in subs[q]
    BY DEF Unsubscribe, GatewayIInv, OneConnection
<1>2. s # None
    BY NoneAssumption
<1>3. CASE c = sock[s].id
  <2>1. RefsOf(c)' = RefsOf(c) \ {q}
      BY <1>1, <1>3, DetachedSubs
  <2>2. q \in RefsOf(c)
      BY <1>1, <1>3 DEF RefsOf
  <2> QED
      BY <1>1, <1>2, <1>3, <2>1, <2>2 DEF Subs!Drops
<1>4. CASE c # sock[s].id
  <2>1. RefsOf(c)' = RefsOf(c)
      BY <1>1, <1>4, DetachedSubs
  <2> QED
      BY <2>1 DEF Subs!ComesOrLeaves
<1> QED
    BY <1>3, <1>4

\* The end of a grace window forgets a client only if it is not connected.
LEMMA GraceSubs ==
    ASSUME GatewayIInv, NEW d \in Clients, GraceEnds(d), NEW c \in Clients
    PROVE  Subs!ComesOrLeaves(c) \/ Subs!Forgets(c)
<1>1. CASE connections[d] # None
    BY <1>1, SameSubs DEF GraceEnds
<1>2. CASE connections[d] = None
  <2>1. subs' = Detached(d, grace[d].refs) /\ connections' = connections
      BY <1>2 DEF GraceEnds
  <2>2. RefsOf(c)' = IF c = d THEN RefsOf(c) \ grace[d].refs ELSE RefsOf(c)
      BY <2>1, DetachedSubs
  <2> QED
      BY <1>2, <2>1, <2>2 DEF Subs!Forgets, Subs!ComesOrLeaves
<1> QED
    BY <1>1, <1>2

\* "A reconnect with the same client_id within this window resumes realtime without
\* re-querying" (WebsocketGatewayOptions): the gateway implements Subscriptions.
THEOREM GatewayImplementsSubscriptions == GatewaySpec => GatewayKeepsSubscriptions
<1>1. GatewayInit => Subs!SubsInit
    BY DEF GatewayInit, Subs!SubsInit, RefsOf
<1>2. ASSUME GatewayIInv, [GatewayNext]_gwVars
      PROVE  [Subs!SubsNext]_Subs!subsVars
  <2>1. ASSUME NEW c \in Clients
        PROVE  \/ Subs!ComesOrLeaves(c) \/ Subs!Subscribes(c)
               \/ Subs!Drops(c) \/ Subs!Forgets(c)
    <3>1. \/ subs' = subs
          \/ \E d \in Clients, q \in Refs : Listen(d, q)
          \/ \E d \in Clients : GraceEnds(d)
          \/ \E s \in Sockets, q \in Refs : Unsubscribe(s, q)
        BY <1>2 DEF GatewayNext, gwVars, gatewayVars, Accept, PeerGone, Noticed, StartSocket,
                    OnClose, SendPosted, Publish
    <3> QED
        BY <1>2, <3>1, SameSubs, ListenSubs, GraceSubs, UnsubscribeSubs
  <2>2. [c \in Clients |-> connections[c] # None]' \in [Clients -> BOOLEAN]
      OBVIOUS
  <2>3. [c \in Clients |-> RefsOf(c)]' \in [Clients -> SUBSET Refs]
      BY DEF RefsOf
  <2> QED
      BY <2>1, <2>2, <2>3 DEF Subs!SubsNext
<1>3. GatewayIInv /\ [GatewayNext]_gwVars => [Subs!SubsNext]_Subs!subsVars
    BY <1>2
<1> QED
    BY <1>1, <1>3, GatewayInvariance, PTL DEF GatewaySpec, GatewayKeepsSubscriptions, Subs!SubsSpec

-----------------------------------------------------------------------------
(* Sequences of changes *)

\* What is kept of the missed changes are the last of them, all if they fit.
LEMMA NewestIsLast ==
    ASSUME NEW seq \in Seq(Nat)
    PROVE  \E k \in 0..Len(seq) :
              /\ Newest(seq) \in Seq(Nat) /\ Len(Newest(seq)) = Len(seq) - k
              /\ \A i \in 1..(Len(seq) - k) : Newest(seq)[i] = seq[i + k]
              /\ k = 0 \/ Len(Newest(seq)) = MissedLimit
<1>0. Len(seq) \in Nat /\ MissedLimit \in Nat
    BY LenProperties, GatewayBoundsAssumption
<1>1. CASE Len(seq) <= MissedLimit
  <2>1. Newest(seq) = seq
      BY <1>1 DEF Newest
  <2>2. 0 \in 0..Len(seq) /\ \A i \in 1..(Len(seq) - 0) : seq[i] = seq[i + 0]
      BY <1>0
  <2> QED
      BY <1>0, <2>1, <2>2
<1>2. CASE ~(Len(seq) <= MissedLimit)
  <2> DEFINE k == Len(seq) - MissedLimit
  <2>1. k \in 0..Len(seq) /\ k + 1 \in 1..(Len(seq) + 1) /\ Len(seq) \in k..Len(seq)
      BY <1>0, <1>2
  <2>2. Newest(seq) = SubSeq(seq, k + 1, Len(seq))
      BY <1>2 DEF Newest
  <2>3. /\ SubSeq(seq, k + 1, Len(seq)) \in Seq(Nat)
        /\ Len(SubSeq(seq, k + 1, Len(seq))) = Len(seq) - (k + 1) + 1
        /\ \A i \in 1..(Len(seq) - (k + 1) + 1) :
               SubSeq(seq, k + 1, Len(seq))[i] = seq[(k + 1) + i - 1]
      BY <1>0, <2>1, SubSeqProperties
  <2>4. Len(seq) - (k + 1) + 1 = MissedLimit /\ Len(seq) - k = MissedLimit
      BY <1>0
  <2>5. \A i \in 1..MissedLimit : (k + 1) + i - 1 = i + k
      BY <1>0, <2>1
  <2>6. Newest(seq) \in Seq(Nat) /\ Len(Newest(seq)) = MissedLimit
      BY <2>2, <2>3, <2>4
  <2>7. \A i \in 1..MissedLimit : Newest(seq)[i] = seq[i + k]
      BY <2>2, <2>3, <2>4, <2>5
  <2> QED
      BY <2>1, <2>4, <2>6, <2>7
<1> QED
    BY <1>1, <1>2

\* Two sequences joined are in order if each is and the second is not before the first.
LEMMA InOrderJoin ==
    ASSUME NEW s \in Seq(Nat), NEW t \in Seq(Nat), InOrder(s), InOrder(t),
           \A m \in ToSet(s) : \A n \in ToSet(t) : m <= n
    PROVE  InOrder(s \o t)
<1>1. /\ Len(s \o t) = Len(s) + Len(t) /\ Len(s) \in Nat /\ Len(t) \in Nat
      /\ \A i \in 1..(Len(s) + Len(t)) :
             (s \o t)[i] = IF i <= Len(s) THEN s[i] ELSE t[i - Len(s)]
    BY ConcatProperties, LenProperties
<1>2. SUFFICES ASSUME NEW i \in 1..(Len(s) + Len(t)), NEW j \in 1..(Len(s) + Len(t)), i < j
               PROVE  (s \o t)[i] <= (s \o t)[j]
    BY <1>1 DEF InOrder
<1>3. CASE j <= Len(s)
  <2>1. i \in 1..Len(s) /\ j \in 1..Len(s)
      BY <1>1, <1>2, <1>3
  <2>2. (s \o t)[i] = s[i] /\ (s \o t)[j] = s[j]
      BY <1>1, <2>1
  <2> QED
      BY <1>2, <2>1, <2>2 DEF InOrder
<1>4. CASE i <= Len(s) /\ ~(j <= Len(s))
  <2>1. i \in 1..Len(s) /\ j - Len(s) \in 1..Len(t)
      BY <1>1, <1>4
  <2>2. (s \o t)[i] = s[i] /\ (s \o t)[j] = t[j - Len(s)]
      BY <1>1, <1>4
  <2> QED
      BY <2>1, <2>2 DEF ToSet
<1>5. CASE ~(i <= Len(s))
  <2>1. i - Len(s) \in 1..Len(t) /\ j - Len(s) \in 1..Len(t) /\ i - Len(s) < j - Len(s)
        /\ ~(j <= Len(s))
      BY <1>1, <1>2, <1>5
  <2>2. (s \o t)[i] = t[i - Len(s)] /\ (s \o t)[j] = t[j - Len(s)]
      BY <1>1, <1>5, <2>1
  <2> QED
      BY <2>1, <2>2 DEF InOrder
<1> QED
    BY <1>1, <1>3, <1>4, <1>5

\* And only then.
LEMMA InOrderParts ==
    ASSUME NEW s \in Seq(Nat), NEW t \in Seq(Nat), InOrder(s \o t)
    PROVE  /\ InOrder(s) /\ InOrder(t)
           /\ \A m \in ToSet(s) : \A n \in ToSet(t) : m <= n
<1>1. /\ Len(s \o t) = Len(s) + Len(t) /\ Len(s) \in Nat /\ Len(t) \in Nat
      /\ \A i \in 1..(Len(s) + Len(t)) :
             (s \o t)[i] = IF i <= Len(s) THEN s[i] ELSE t[i - Len(s)]
    BY ConcatProperties, LenProperties
<1>2. ASSUME NEW i \in 1..Len(s)
      PROVE  i \in 1..Len(s \o t) /\ (s \o t)[i] = s[i]
    BY <1>1
<1>3. ASSUME NEW j \in 1..Len(t)
      PROVE  j + Len(s) \in 1..Len(s \o t) /\ (s \o t)[j + Len(s)] = t[j]
  <2>1. j + Len(s) \in 1..(Len(s) + Len(t)) /\ ~(j + Len(s) <= Len(s))
        /\ j + Len(s) - Len(s) = j
      BY <1>1
  <2> QED
      BY <1>1, <2>1
<1>4. InOrder(s)
    BY <1>2 DEF InOrder
<1>5. InOrder(t)
  <2>1. ASSUME NEW i \in 1..Len(t), NEW j \in 1..Len(t), i < j
        PROVE  t[i] <= t[j]
    <3>1. i + Len(s) < j + Len(s)
        BY <1>1, <2>1
    <3> QED
        BY <1>3, <3>1 DEF InOrder
  <2> QED
      BY <2>1 DEF InOrder
<1>6. ASSUME NEW i \in 1..Len(s), NEW j \in 1..Len(t)
      PROVE  s[i] <= t[j]
  <2>1. i < j + Len(s)
      BY <1>1
  <2> QED
      BY <1>2, <1>3, <2>1 DEF InOrder
<1> QED
    BY <1>4, <1>5, <1>6 DEF ToSet

\* What two sequences joined hold, and what is left of one that is trimmed.
LEMMA ToSetJoin ==
    ASSUME NEW s \in Seq(Nat), NEW t \in Seq(Nat)
    PROVE  ToSet(s \o t) = ToSet(s) \cup ToSet(t)
<1>1. /\ Len(s \o t) = Len(s) + Len(t) /\ Len(s) \in Nat /\ Len(t) \in Nat
      /\ \A i \in 1..(Len(s) + Len(t)) :
             (s \o t)[i] = IF i <= Len(s) THEN s[i] ELSE t[i - Len(s)]
    BY ConcatProperties, LenProperties
<1>2. ASSUME NEW i \in 1..Len(s)
      PROVE  i \in 1..Len(s \o t) /\ (s \o t)[i] = s[i]
    BY <1>1
<1>3. ASSUME NEW j \in 1..Len(t)
      PROVE  j + Len(s) \in 1..Len(s \o t) /\ (s \o t)[j + Len(s)] = t[j]
  <2>1. j + Len(s) \in 1..(Len(s) + Len(t)) /\ ~(j + Len(s) <= Len(s))
        /\ j + Len(s) - Len(s) = j
      BY <1>1
  <2> QED
      BY <1>1, <2>1
<1>4. ASSUME NEW i \in 1..Len(s \o t)
      PROVE  (s \o t)[i] \in ToSet(s) \cup ToSet(t)
  <2>1. CASE i <= Len(s)
      BY <1>1, <2>1 DEF ToSet
  <2>2. CASE ~(i <= Len(s))
    <3>1. i - Len(s) \in 1..Len(t) /\ (s \o t)[i] = t[i - Len(s)]
        BY <1>1, <2>2
    <3> QED
        BY <3>1 DEF ToSet
  <2> QED
      BY <2>1, <2>2
<1>5. ToSet(s) \subseteq ToSet(s \o t)
    BY <1>2 DEF ToSet
<1>6. ToSet(t) \subseteq ToSet(s \o t)
  <2>1. ASSUME NEW j \in 1..Len(t)
        PROVE  \E i \in 1..Len(s \o t) : t[j] = (s \o t)[i]
      BY <1>3
  <2> QED
      BY <2>1 DEF ToSet
<1>7. ToSet(s \o t) \subseteq ToSet(s) \cup ToSet(t)
  <2>1. ASSUME NEW x \in ToSet(s \o t)
        PROVE  x \in ToSet(s) \cup ToSet(t)
    <3>1. PICK i \in 1..Len(s \o t) : x = (s \o t)[i]
        BY DEF ToSet
    <3> QED
        BY <3>1, <1>4
  <2> QED
      BY <2>1
<1> QED
    BY <1>5, <1>6, <1>7

\* Trimming keeps the order; what it drops is older than all it keeps, and then
\* it keeps MISSED_LIMIT. The last is always kept.
LEMMA NewestKeeps ==
    ASSUME NEW seq \in Seq(Nat), InOrder(seq), AtMostTwice(seq)
    PROVE  /\ Newest(seq) \in Seq(Nat) /\ InOrder(Newest(seq)) /\ AtMostTwice(Newest(seq))
           /\ ToSet(Newest(seq)) \subseteq ToSet(seq)
           /\ Len(seq) # 0 => seq[Len(seq)] \in ToSet(Newest(seq))
           /\ \A m \in ToSet(seq) :
                 \/ m \in ToSet(Newest(seq))
                 \/ /\ Len(Newest(seq)) = MissedLimit
                    /\ \A n \in ToSet(Newest(seq)) : m < n
<1> DEFINE new == Newest(seq)
<1>0. Len(seq) \in Nat /\ (\A i \in 1..Len(seq) : seq[i] \in Nat)
      /\ MissedLimit \in Nat /\ MissedLimit # 0
    BY LenProperties, ElementOfSeq, GatewayBoundsAssumption
<1>1. PICK k \in 0..Len(seq) :
          /\ new \in Seq(Nat) /\ Len(new) = Len(seq) - k
          /\ \A i \in 1..(Len(seq) - k) : new[i] = seq[i + k]
          /\ k = 0 \/ Len(new) = MissedLimit
    BY NewestIsLast
<1>2. ASSUME NEW i \in 1..Len(new)
      PROVE  i + k \in 1..Len(seq) /\ new[i] = seq[i + k]
    BY <1>0, <1>1
<1> HIDE DEF new
<1>3. InOrder(new)
  <2>1. ASSUME NEW i \in 1..Len(new), NEW j \in 1..Len(new), i < j
        PROVE  new[i] <= new[j]
    <3>1. i + k < j + k
        BY <1>0, <1>1, <2>1
    <3> QED
        BY <1>2, <3>1 DEF InOrder
  <2> QED
      BY <2>1 DEF InOrder
<1>4. AtMostTwice(new)
  <2>1. ASSUME NEW i \in 1..Len(new), NEW j \in 1..Len(new), i + 1 < j
        PROVE  new[i] < new[j]
    <3>1. (i + k) + 1 < j + k
        BY <1>0, <1>1, <2>1
    <3> QED
        BY <1>2, <3>1 DEF AtMostTwice
  <2> QED
      BY <2>1 DEF AtMostTwice
<1>5. ToSet(new) \subseteq ToSet(seq)
  <2>1. ASSUME NEW i \in 1..Len(new)
        PROVE  \E j \in 1..Len(seq) : new[i] = seq[j]
      BY <1>2
  <2> QED
      BY <2>1 DEF ToSet
<1>6. ASSUME NEW j \in 1..Len(seq), j > k
      PROVE  seq[j] \in ToSet(new)
  <2>1. j - k \in 1..Len(new) /\ (j - k) + k = j
      BY <1>0, <1>1, <1>6
  <2>2. new[j - k] = seq[j]
      BY <1>2, <2>1
  <2> QED
      BY <2>1, <2>2 DEF ToSet
<1>7. Len(seq) # 0 => seq[Len(seq)] \in ToSet(new)
  <2>1. HAVE Len(seq) # 0
  <2>2. Len(seq) \in 1..Len(seq) /\ Len(seq) > k
      BY <1>0, <1>1, <2>1
  <2> QED
      BY <1>6, <2>2
<1>8. ASSUME NEW m \in ToSet(seq), m \notin ToSet(new)
      PROVE  Len(new) = MissedLimit /\ \A n \in ToSet(new) : m < n
  <2>1. PICK j \in 1..Len(seq) : m = seq[j]
      BY DEF ToSet
  <2>2. ~(j > k)
      BY <1>6, <1>8, <2>1
  <2>3. k # 0
      BY <1>0, <2>2
  <2>4. ASSUME NEW i \in 1..Len(new)
        PROVE  m < new[i]
    <3>1. new[i] \in ToSet(new)
        BY DEF ToSet
    <3>2. i + k \in 1..Len(seq) /\ new[i] = seq[i + k] /\ j < i + k
        BY <1>0, <1>1, <1>2, <2>2
    <3>3. seq[j] <= seq[i + k] /\ seq[j] # seq[i + k] /\ seq[j] \in Nat /\ seq[i + k] \in Nat
        BY <1>0, <1>8, <2>1, <3>1, <3>2 DEF InOrder
    <3> QED
        BY <2>1, <3>2, <3>3
  <2> QED
      BY <1>1, <2>3, <2>4 DEF ToSet
<1> QED
    BY <1>1, <1>3, <1>4, <1>5, <1>7, <1>8 DEF new

\* A sequence in which nothing is more than twice is at most twice as long as
\* what it holds: an entry is told by its change and whether it is the second.
LEMMA TwiceIsEnough ==
    ASSUME NEW seq \in Seq(Nat), AtMostTwice(seq), NEW S, IsFiniteSet(S), ToSet(seq) \subseteq S
    PROVE  Len(seq) <= 2 * Cardinality(S) /\ Cardinality(S) \in Nat
<1> DEFINE I == 1..Len(seq)
           Second(i) == i > 1 /\ seq[i - 1] = seq[i]
           T == S \X (1..2)
           f == [i \in I |-> <<seq[i], IF Second(i) THEN 2 ELSE 1>>]
<1>0. Len(seq) \in Nat /\ (\A i \in I : seq[i] \in Nat) /\ Cardinality(S) \in Nat
    BY LenProperties, ElementOfSeq, FS_CardinalityType
<1>1. f \in [I -> T]
    BY DEF ToSet
<1>2. ASSUME NEW i \in I, NEW j \in I, i < j, f[i] = f[j]
      PROVE  FALSE
  <2>1. seq[i] = seq[j] /\ (Second(i) <=> Second(j))
      BY <1>2
  <2>2. j = i + 1
      BY <1>0, <1>2, <2>1 DEF AtMostTwice
  <2>3. Second(j)
      BY <1>0, <2>1, <2>2
  <2>4. i > 1 /\ seq[i - 1] = seq[i]
      BY <2>1, <2>3
  <2>5. i - 1 \in I /\ (i - 1) + 1 < j
      BY <1>0, <2>2, <2>4
  <2>6. seq[i - 1] < seq[j]
      BY <2>5 DEF AtMostTwice
  <2> QED
      BY <1>0, <2>1, <2>4, <2>6
<1> HIDE DEF f
<1>3. ASSUME NEW i \in I, NEW j \in I, f[i] = f[j]
      PROVE  i = j
  <2>1. i < j \/ j < i \/ i = j
      BY <1>0
  <2> QED
      BY <1>2, <1>3, <2>1
<1>4. f \in Injection(I, T)
    BY <1>1, <1>3 DEF Injection, IsInjective
<1>5. IsFiniteSet(1..2) /\ Cardinality(1..2) = 2
  <2>1. 1 \in Int /\ 2 \in Int
      OBVIOUS
  <2>2. IsFiniteSet(1..2) /\ Cardinality(1..2) = IF 1 > 2 THEN 0 ELSE 2 - 1 + 1
      BY <2>1, FS_Interval, Zenon
  <2> QED
      BY <2>2
<1>6. IsFiniteSet(T) /\ Cardinality(T) = Cardinality(S) * 2
  <2> HIDE DEF I, Second
  <2>1. /\ IsFiniteSet(S \X (1..2))
        /\ Cardinality(S \X (1..2)) = Cardinality(S) * Cardinality(1..2)
      BY <1>5, FS_Product
  <2> QED
      BY <1>5, <2>1
<1>7. Cardinality(I) <= Cardinality(T)
  <2> HIDE DEF I, T
  <2> QED
      BY <1>4, <1>6, FS_Injection
<1>8. Cardinality(I) = Len(seq)
  <2>1. 1 \in Int /\ Len(seq) \in Int
      BY <1>0
  <2>2. Cardinality(1..Len(seq)) = IF 1 > Len(seq) THEN 0 ELSE Len(seq) - 1 + 1
      BY <2>1, FS_Interval, Zenon
  <2> QED
      BY <1>0, <2>2
<1> QED
    BY <1>0, <1>6, <1>7, <1>8

\* _keepMissed: a change newer than all a client was sent or is kept joins what is
\* kept, once or twice, at its end.
LEMMA KeptChange ==
    ASSUME NEW g \in Seq(Nat), NEW q \in Seq(Nat), InOrder(g \o q), AtMostTwice(q), NEW n \in Nat,
           \A m \in ToSet(g) \cup ToSet(q) : m < n, NEW e, e = <<n>> \/ e = <<n, n>>
    PROVE  /\ Newest(q \o e) \in Seq(Nat) /\ InOrder(g \o Newest(q \o e))
           /\ AtMostTwice(Newest(q \o e))
           /\ ToSet(Newest(q \o e)) \subseteq ToSet(q) \cup {n} /\ n \in ToSet(Newest(q \o e))
           /\ \A m \in ToSet(q) :
                 \/ m \in ToSet(Newest(q \o e))
                 \/ /\ Len(Newest(q \o e)) = MissedLimit
                    /\ \A k \in ToSet(Newest(q \o e)) : m < k
<1>a. e \in Seq(Nat) /\ Len(e) \in Nat /\ Len(e) >= 1 /\ \A i \in 1..Len(e) : e[i] = n
  <2>1. CASE e = <<n>>
      BY <2>1
  <2>2. CASE e = <<n, n>>
      BY <2>2
  <2> QED
      BY <2>1, <2>2
<1>b. Len(q) \in Nat /\ \A i \in 1..Len(q) : q[i] \in Nat
    BY LenProperties, ElementOfSeq
<1>c. q \o e \in Seq(Nat)
    BY <1>a, ConcatProperties
<1>0. /\ e \in Seq(Nat) /\ Len(e) \in Nat /\ Len(e) >= 1 /\ Len(q) \in Nat
      /\ q \o e \in Seq(Nat)
      /\ \A i \in 1..Len(e) : e[i] = n
      /\ \A i \in 1..Len(q) : q[i] \in Nat
    BY <1>a, <1>b, <1>c
<1>1. /\ Len(q \o e) = Len(q) + Len(e)
      /\ \A i \in 1..(Len(q) + Len(e)) :
             (q \o e)[i] = IF i <= Len(q) THEN q[i] ELSE e[i - Len(q)]
    BY <1>0, ConcatProperties
<1>2. InOrder(g) /\ InOrder(q) /\ \A m \in ToSet(g) : \A k \in ToSet(q) : m <= k
    BY InOrderParts
<1>3. ToSet(e) = {n} /\ InOrder(e)
  <2>1. 1 \in 1..Len(e) /\ e[1] = n
      BY <1>a
  <2>2. ToSet(e) = {n}
      BY <1>a, <2>1, Zenon DEF ToSet
  <2>3. InOrder(e)
      BY <1>a DEF InOrder
  <2> QED
      BY <2>2, <2>3
<1>4. \A m \in ToSet(g) \cup ToSet(q) : m \in Nat /\ m <= n
  <2>1. \A i \in 1..Len(g) : g[i] \in Nat
      BY LenProperties, ElementOfSeq
  <2>2. ToSet(g) \cup ToSet(q) \subseteq Nat
      BY <1>b, <2>1 DEF ToSet
  <2> QED
      BY <2>2
<1>5. InOrder(q \o e)
    BY <1>0, <1>2, <1>3, <1>4, InOrderJoin
<1>6. ToSet(q \o e) = ToSet(q) \cup {n}
    BY <1>0, <1>3, ToSetJoin
<1>7. \A i \in 1..Len(q \o e) : i > Len(q) => (q \o e)[i] = n
  <2>1. ASSUME NEW i \in 1..Len(q \o e), i > Len(q)
        PROVE  i - Len(q) \in 1..Len(e) /\ ~(i <= Len(q)) /\ i \in 1..(Len(q) + Len(e))
      BY <1>0, <1>1, <2>1
  <2> QED
      BY <1>0, <1>1, <2>1
<1>8. AtMostTwice(q \o e)
  <2>1. ASSUME NEW i \in 1..Len(q \o e), NEW j \in 1..Len(q \o e), i + 1 < j
        PROVE  (q \o e)[i] < (q \o e)[j]
    <3>0. Len(e) <= 2
      <4>1. CASE e = <<n>>
          BY <4>1
      <4>2. CASE e = <<n, n>>
          BY <4>2
      <4> QED
          BY <4>1, <4>2
    <3>1. i \in 1..Len(q) /\ (q \o e)[i] = q[i]
        BY <1>0, <1>1, <2>1, <3>0
    <3>2. CASE j > Len(q)
      <4>1. q[i] < n
          BY <3>1 DEF ToSet
      <4> QED
          BY <1>7, <3>1, <3>2, <4>1
    <3>3. CASE ~(j > Len(q))
      <4>1. j \in 1..Len(q) /\ (q \o e)[j] = q[j]
          BY <1>0, <1>1, <3>3
      <4> QED
          BY <2>1, <3>1, <4>1 DEF AtMostTwice
    <3> QED
        BY <3>2, <3>3
  <2> QED
      BY <2>1 DEF AtMostTwice
<1>9. (q \o e)[Len(q \o e)] = n /\ Len(q \o e) # 0
  <2>1. Len(q \o e) \in 1..Len(q \o e) /\ Len(q \o e) > Len(q)
      BY <1>0, <1>1
  <2> QED
      BY <1>7, <2>1
<1> DEFINE new == Newest(q \o e)
<1>10. /\ new \in Seq(Nat) /\ InOrder(new) /\ AtMostTwice(new)
       /\ ToSet(new) \subseteq ToSet(q \o e)
       /\ (q \o e)[Len(q \o e)] \in ToSet(new)
       /\ \A m \in ToSet(q \o e) :
             \/ m \in ToSet(new)
             \/ Len(new) = MissedLimit /\ \A k \in ToSet(new) : m < k
    BY <1>0, <1>5, <1>8, <1>9, NewestKeeps
<1> HIDE DEF new
<1>11. InOrder(g \o new)
  <2>1. \A m \in ToSet(g) : \A k \in ToSet(new) : m <= k
      BY <1>2, <1>4, <1>6, <1>10
  <2> QED
      BY <1>2, <1>10, <2>1, InOrderJoin
<1> QED
    BY <1>6, <1>9, <1>10, <1>11 DEF new

-----------------------------------------------------------------------------
(* Each step keeps MissedIInv *)

LEMMA NumbersAreNat ==
    ASSUME GatewayTypeOK
    PROVE  /\ \A c \in Clients : got[c] \in Seq(Nat) /\ missed[c] \in Seq(Nat)
           /\ \A s \in Sockets : posted[s] \in Seq(Nat)
<1>1. ChangeNumbers \subseteq Nat
    BY GatewayBoundsAssumption DEF ChangeNumbers
<1>2. Seq(ChangeNumbers) \subseteq Seq(Nat)
    BY <1>1, SeqMonotonic
<1> QED
    BY <1>2 DEF GatewayTypeOK

LEMMA MissedInit == GatewayInit => MissedIInv
<1> SUFFICES ASSUME GatewayInit PROVE MissedIInv
    OBVIOUS
<1>1. <<>> \o <<>> = <<>> /\ InOrder(<<>>) /\ AtMostTwice(<<>>) /\ ToSet(<<>>) = {}
    BY DEF InOrder, AtMostTwice, ToSet
<1>2. OneWire
    BY DEF GatewayInit, OneWire, NoSocket
<1>3. NewerToCome
    BY <1>1 DEF GatewayInit, NewerToCome, NoSocket
<1>4. Published
    BY <1>1 DEF GatewayInit, Published
<1>5. MissedAway
    BY <1>1 DEF GatewayInit, MissedAway
<1>6. AwayIsKept
    BY DEF GatewayInit, AwayIsKept
<1> QED
    BY <1>2, <1>3, <1>4, <1>5, <1>6 DEF MissedIInv

\* A step that moves no change keeps what is said of changes, if a wire that opens
\* has nothing posted to it.
LEMMA NoChangeMoves ==
    ASSUME MissedIInv, GatewayTypeOK, UNCHANGED <<missed, posted, historyVars>>,
           \A s \in Sockets : sock'[s].wire = "up" =>
              /\ sock'[s].owner \in Clients
              /\ (sock[s].wire = "up" /\ sock'[s].owner = sock[s].owner) \/ posted[s] = <<>>
    PROVE  NewerToCome' /\ Published' /\ MissedAway' /\ AwayIsKept'
<1>1. Published' /\ MissedAway' /\ AwayIsKept'
    BY DEF MissedIInv, Published, MissedAway, AwayIsKept
<1>2. NewerToCome'
  <2>1. ASSUME NEW s \in Sockets, sock'[s].wire = "up"
        PROVE  InOrder(got[sock'[s].owner] \o posted[s])
    <3>1. CASE sock[s].wire = "up" /\ sock'[s].owner = sock[s].owner
        BY <3>1 DEF MissedIInv, NewerToCome
    <3>2. CASE posted[s] = <<>>
      <4> DEFINE c == sock'[s].owner
      <4>1. c \in Clients
          BY <2>1
      <4>2. got[c] \in Seq(Nat) /\ missed[c] \in Seq(Nat) /\ InOrder(got[c] \o missed[c])
          BY <4>1, NumbersAreNat DEF MissedIInv, NewerToCome
      <4>3. InOrder(got[c]) /\ got[c] \o posted[s] = got[c]
          BY <4>2, <3>2, InOrderParts, ConcatEmptySeq
      <4> QED
          BY <4>3
    <3> QED
        BY <2>1, <3>1, <3>2
  <2> QED
      BY <2>1 DEF MissedIInv, NewerToCome
<1> QED
    BY <1>1, <1>2

\* A step that opens no wire, gives no socket another client and closes only those
\* that are down keeps OneWire.
LEMMA NoWireOpens ==
    ASSUME OneWire, UNCHANGED <<missed, posted>>,
           \A s \in Sockets :
              /\ sock'[s].id = sock[s].id /\ sock'[s].owner = sock[s].owner
              /\ sock'[s].phase = sock[s].phase \/ (sock'[s].phase = "closed" /\ sock[s].wire = "down")
              /\ sock'[s].wire = sock[s].wire \/ sock'[s].wire \in {"cut", "down"}
              /\ sock[s].wire = "down" => sock'[s].wire = "down"
    PROVE  OneWire'
BY DEF OneWire

LEMMA AcceptMissed ==
    ASSUME MissedIInv, GatewayTypeOK, NEW s \in Sockets, NEW c \in Clients, Accept(s, c)
    PROVE  MissedIInv'
<1>0. /\ sock[s].phase = "unused" /\ posted[s] = <<>>
      /\ UNCHANGED <<missed, posted, historyVars>>
    BY DEF Accept, MissedIInv, OneWire
<1>1. /\ sock'[s].phase = "accepted" /\ sock'[s].id = None /\ sock'[s].owner = c
      /\ sock'[s].wire = "up"
    BY DEF Accept, NoSocket
<1>2. ASSUME NEW t \in Sockets, t # s
      PROVE  /\ sock'[t].phase = sock[t].phase /\ sock'[t].id = sock[t].id
             /\ sock'[t].owner = sock[t].owner
             /\ sock'[t].wire = IF sock[t].owner = c /\ sock[t].wire = "up"
                                THEN "cut" ELSE sock[t].wire
  <2>1. CASE sock[t].owner = c /\ sock[t].wire = "up"
    <3>1. sock'[t] = [sock[t] EXCEPT !.wire = "cut"]
        BY <1>2, <2>1 DEF Accept
    <3>2. sock[t] \in SocketRecord
        BY SocketFields
    <3> QED
        BY <2>1, <3>1, <3>2 DEF SocketRecord
  <2>2. CASE ~(sock[t].owner = c /\ sock[t].wire = "up")
    <3>1. sock'[t] = sock[t]
        BY <1>2, <2>2 DEF Accept
    <3> QED
        BY <2>2, <3>1
  <2> QED
      BY <2>1, <2>2
<1>3. OneWire'
    BY <1>0, <1>1, <1>2 DEF MissedIInv, OneWire
<1>4. \A t \in Sockets : sock'[t].wire = "up" =>
          /\ sock'[t].owner \in Clients
          /\ (sock[t].wire = "up" /\ sock'[t].owner = sock[t].owner) \/ posted[t] = <<>>
    BY <1>0, <1>1, <1>2, SocketFields
<1> QED
    BY <1>0, <1>3, <1>4, NoChangeMoves DEF MissedIInv

\* The steps that only close or lose wires, or change what a socket listens to.
LEMMA QuietMissed ==
    ASSUME MissedIInv, GatewayTypeOK, UNCHANGED <<missed, posted, historyVars>>,
           \A s \in Sockets :
              /\ sock'[s].id = sock[s].id /\ sock'[s].owner = sock[s].owner
              /\ sock'[s].phase = sock[s].phase \/ (sock'[s].phase = "closed" /\ sock[s].wire = "down")
              /\ sock'[s].wire = sock[s].wire \/ sock'[s].wire \in {"cut", "down"}
              /\ sock[s].wire = "down" => sock'[s].wire = "down"
    PROVE  MissedIInv'
<1>1. OneWire'
    BY NoWireOpens DEF MissedIInv
<1>2. \A t \in Sockets : sock'[t].wire = "up" =>
          /\ sock'[t].owner \in Clients
          /\ (sock[t].wire = "up" /\ sock'[t].owner = sock[t].owner) \/ posted[t] = <<>>
    BY SocketFields
<1> QED
    BY <1>1, <1>2, NoChangeMoves DEF MissedIInv

LEMMA WireMissed ==
    ASSUME MissedIInv, GatewayTypeOK, NEW s \in Sockets, PeerGone(s) \/ Noticed(s)
    PROVE  MissedIInv'
<1> PICK w \in {"cut", "down"} : sock' = [sock EXCEPT ![s].wire = w] /\ sock[s].wire # "down"
    BY DEF PeerGone, Noticed
<1>1. ASSUME NEW t \in Sockets
      PROVE  /\ sock'[t].id = sock[t].id /\ sock'[t].owner = sock[t].owner
             /\ sock'[t].phase = sock[t].phase
             /\ sock'[t].wire = IF t = s THEN w ELSE sock[t].wire
  <2>1. sock[t] \in SocketRecord /\ sock'[t] = IF t = s THEN [sock[t] EXCEPT !.wire = w] ELSE sock[t]
      BY SocketFields DEF GatewayTypeOK
  <2> QED
      BY <2>1 DEF SocketRecord
<1>2. UNCHANGED <<missed, posted, historyVars>>
    BY DEF PeerGone, Noticed
<1>3. \A t \in Sockets :
          /\ sock'[t].id = sock[t].id /\ sock'[t].owner = sock[t].owner
          /\ sock'[t].phase = sock[t].phase \/ (sock'[t].phase = "closed" /\ sock[t].wire = "down")
          /\ sock'[t].wire = sock[t].wire \/ sock'[t].wire \in {"cut", "down"}
          /\ sock[t].wire = "down" => sock'[t].wire = "down"
    BY <1>1, <1>2
<1> QED
    BY <1>2, <1>3, QuietMissed

LEMMA CloseMissed ==
    ASSUME MissedIInv, GatewayTypeOK, NEW s \in Sockets, OnClose(s)
    PROVE  MissedIInv'
<1>1. ASSUME NEW t \in Sockets
      PROVE  /\ sock'[t].id = sock[t].id /\ sock'[t].owner = sock[t].owner
             /\ sock'[t].phase = IF t = s THEN "closed" ELSE sock[t].phase
             /\ sock'[t].wire = sock[t].wire
  <2>1. sock[t] \in SocketRecord
        /\ sock'[t] = IF t = s THEN [sock[t] EXCEPT !.phase = "closed", !.closes = sock[t].closes + 1]
                      ELSE sock[t]
      BY SocketFields DEF GatewayTypeOK, OnClose
  <2> QED
      BY <2>1 DEF SocketRecord
<1>2. UNCHANGED <<missed, posted, historyVars>> /\ sock[s].wire = "down"
    BY DEF OnClose
<1>3. \A t \in Sockets :
          /\ sock'[t].id = sock[t].id /\ sock'[t].owner = sock[t].owner
          /\ sock'[t].phase = sock[t].phase \/ (sock'[t].phase = "closed" /\ sock[t].wire = "down")
          /\ sock'[t].wire = sock[t].wire \/ sock'[t].wire \in {"cut", "down"}
          /\ sock[t].wire = "down" => sock'[t].wire = "down"
    BY <1>1, <1>2
<1> QED
    BY <1>2, <1>3, QuietMissed

\* listen() and `unsubscribe`.
LEMMA RefsMissed ==
    ASSUME MissedIInv, GatewayTypeOK, UNCHANGED <<missed, posted, historyVars>>,
           NEW s, NEW R, sock' = [sock EXCEPT ![s].refs = R]
    PROVE  MissedIInv'
<1>1. ASSUME NEW t \in Sockets
      PROVE  /\ sock'[t].id = sock[t].id /\ sock'[t].owner = sock[t].owner
             /\ sock'[t].phase = sock[t].phase /\ sock'[t].wire = sock[t].wire
  <2>1. sock[t] \in SocketRecord /\ sock'[t] = IF t = s THEN [sock[t] EXCEPT !.refs = R] ELSE sock[t]
      BY SocketFields DEF GatewayTypeOK
  <2> QED
      BY <2>1 DEF SocketRecord
<1>2. \A t \in Sockets :
          /\ sock'[t].id = sock[t].id /\ sock'[t].owner = sock[t].owner
          /\ sock'[t].phase = sock[t].phase \/ (sock'[t].phase = "closed" /\ sock[t].wire = "down")
          /\ sock'[t].wire = sock[t].wire \/ sock'[t].wire \in {"cut", "down"}
          /\ sock[t].wire = "down" => sock'[t].wire = "down"
    BY <1>1
<1> QED
    BY <1>2, QuietMissed

LEMMA GraceMissed ==
    ASSUME MissedIInv, GatewayTypeOK, NEW c \in Clients, GraceEnds(c)
    PROVE  MissedIInv'
<1>0. UNCHANGED <<sock, connections, posted, changes, got>>
    BY DEF GraceEnds
<1>1. CASE UNCHANGED <<missed, away>>
    BY <1>0, <1>1 DEF MissedIInv, OneWire, NewerToCome, Published, MissedAway, AwayIsKept
<1>2. CASE missed' = NothingMissed(c) /\ away' = [away EXCEPT ![c] = {}]
  <2>1. /\ missed'[c] = <<>> /\ away'[c] = {}
        /\ \A d \in Clients : d # c => missed'[d] = missed[d] /\ away'[d] = away[d]
      BY <1>2 DEF NothingMissed, GatewayTypeOK
  <2>2. /\ ToSet(<<>>) = {} /\ AtMostTwice(<<>>)
        /\ \A d \in Clients : missed'[d] = missed[d] \/ missed'[d] = <<>>
      BY <2>1 DEF ToSet, AtMostTwice
  <2>3. OneWire'
      BY <1>0, <2>2, SocketFields DEF MissedIInv, OneWire
  <2>4. NewerToCome'
    <3>1. InOrder(got[c] \o missed'[c])
      <4>1. got[c] \in Seq(Nat) /\ missed[c] \in Seq(Nat) /\ InOrder(got[c] \o missed[c])
          BY NumbersAreNat DEF MissedIInv, NewerToCome
      <4> QED
          BY <2>1, <4>1, InOrderParts, ConcatEmptySeq
    <3> QED
        BY <1>0, <2>1, <3>1 DEF MissedIInv, NewerToCome
  <2>5. Published' /\ MissedAway'
      BY <1>0, <2>1, <2>2 DEF MissedIInv, Published, MissedAway
  <2>6. AwayIsKept'
      BY <1>0, <2>1 DEF MissedIInv, AwayIsKept
  <2> QED
      BY <2>3, <2>4, <2>5, <2>6 DEF MissedIInv
<1> QED
    BY <1>1, <1>2 DEF GraceEnds

\* What the `start` of a connection does to sockets, wire by wire.
LEMMA StartWires ==
    ASSUME GatewayTypeOK, NEW s \in Sockets, StartSocket(s), NEW t \in Sockets
    PROVE  /\ sock'[t].owner = sock[t].owner
           /\ t = s => /\ sock'[t].phase = "started" /\ sock'[t].id = sock[s].owner
                       /\ sock'[t].wire = sock[t].wire
           /\ t # s => /\ sock'[t].phase = sock[t].phase
                       /\ \/ sock'[t].id = sock[t].id /\ sock'[t].wire = sock[t].wire
                          \/ sock'[t].id = None /\ sock'[t].wire = "down"
<1> DEFINE c == sock[s].owner
<1>0. sock[t] \in SocketRecord
    BY SocketFields
<1>1. CASE t = s
  <2>1. sock'[t] = [sock[t] EXCEPT !.phase = "started", !.id = c, !.refs = Resumed(c)]
      BY <1>1 DEF StartSocket
  <2> QED
      BY <1>0, <1>1, <2>1 DEF SocketRecord
<1>2. CASE t # s /\ t = connections[c]
  <2>1. sock'[t] = [sock[t] EXCEPT !.id = None, !.wire = "down"]
      BY <1>2 DEF StartSocket
  <2> QED
      BY <1>0, <1>2, <2>1 DEF SocketRecord
<1>3. CASE t # s /\ t # connections[c]
    BY <1>3 DEF StartSocket
<1> QED
    BY <1>1, <1>2, <1>3

LEMMA StartMissed ==
    ASSUME MissedIInv, GatewayTypeOK, NEW s \in Sockets, StartSocket(s)
    PROVE  MissedIInv'
<1> DEFINE c == sock[s].owner
<1>0. /\ c \in Clients /\ sock[s].phase = "accepted" /\ posted[s] = <<>>
      /\ posted' = posted /\ changes' = changes
    BY SocketFields DEF StartSocket, MissedIInv, OneWire
<1>1. missed'[c] = <<>> /\ \A d \in Clients : d # c => missed'[d] = missed[d]
    BY <1>0 DEF StartSocket, NothingMissed, GatewayTypeOK
<1>2. \A t \in Sockets : sock'[t].wire = "up" => sock[t].wire = "up" /\ sock'[t].owner = sock[t].owner
    BY StartWires
<1>3. OneWire'
  <2>1. ASSUME NEW t \in Sockets
        PROVE  /\ sock'[t].id \in {None, sock'[t].owner}
               /\ sock'[t].phase \in {"unused", "accepted"} => posted[t] = <<>>
               /\ sock'[t].phase = "closed" => sock'[t].wire = "down"
               /\ sock'[t].wire = "up" =>
                     (sock'[t].phase = "started" =>
                         sock'[t].id # None /\ missed'[sock'[t].owner] = <<>>)
    <3>1. CASE t = s
        BY <1>0, <1>1, <3>1, StartWires, NoneAssumption
    <3>2. CASE t # s
      <4>1. sock[t].wire = "up" => sock[t].owner \in Clients
          BY SocketFields
      <4> QED
          BY <1>1, <3>2, <4>1, StartWires DEF MissedIInv, OneWire
    <3> QED
        BY <3>1, <3>2
  <2>2. ASSUME NEW t \in Sockets, sock'[t].wire = "up", NEW u \in Sockets \ {t}
        PROVE  ~(sock'[u].wire = "up" /\ sock'[u].owner = sock'[t].owner)
      BY <1>2, <2>2 DEF MissedIInv, OneWire
  <2> QED
      BY <1>0, <2>1, <2>2 DEF OneWire
<1>4. /\ got[c] \in Seq(Nat) /\ missed[c] \in Seq(Nat) /\ InOrder(got[c] \o missed[c])
      /\ InOrder(got[c])
  <2>1. got[c] \in Seq(Nat) /\ missed[c] \in Seq(Nat) /\ InOrder(got[c] \o missed[c])
      BY <1>0, NumbersAreNat DEF MissedIInv, NewerToCome
  <2> QED
      BY <2>1, InOrderParts
<1>5. ToSet(<<>>) = {} /\ AtMostTwice(<<>>)
    BY DEF ToSet, AtMostTwice
<1>6. MissedAway' /\ NewerToCome' /\ Published' /\ AwayIsKept'
  <2>1. CASE sock[s].wire = "up"
    <3>1. /\ got'[c] = got[c] \o missed[c] /\ away' = away
          /\ \A d \in Clients : d # c => got'[d] = got[d]
        BY <1>0, <2>1 DEF StartSocket, GatewayTypeOK
    <3>2. /\ got'[c] \in Seq(Nat) /\ got'[c] \o <<>> = got'[c] /\ InOrder(got'[c])
        BY <1>4, <3>1, ConcatProperties, ConcatEmptySeq
    <3>3. ToSet(got'[c]) = ToSet(got[c]) \cup ToSet(missed[c])
        BY <1>4, <3>1, ToSetJoin
    <3>4. MissedAway'
        BY <1>1, <1>5, <3>1 DEF MissedIInv, MissedAway
    <3>5. NewerToCome'
      <4>1. \A d \in Clients : InOrder(got'[d] \o missed'[d])
          BY <1>1, <3>1, <3>2 DEF MissedIInv, NewerToCome
      <4>2. ASSUME NEW t \in Sockets, sock'[t].wire = "up"
            PROVE  InOrder(got'[sock'[t].owner] \o posted[t])
        <5>1. /\ sock[t].wire = "up" /\ sock'[t].owner = sock[t].owner /\ sock[t].owner \in Clients
              /\ t # s => sock[t].owner # c
            BY <1>2, <2>1, <4>2, SocketFields DEF MissedIInv, OneWire
        <5>2. CASE t = s
            BY <1>0, <3>2, <5>1, <5>2
        <5>3. CASE t # s
            BY <3>1, <5>1, <5>3 DEF MissedIInv, NewerToCome
        <5> QED
            BY <5>2, <5>3
      <4> QED
          BY <1>0, <4>1, <4>2 DEF NewerToCome
    <3>6. Published'
        BY <1>0, <1>1, <1>5, <3>1, <3>3 DEF MissedIInv, Published
    <3>7. AwayIsKept'
        BY <1>1, <1>5, <3>1, <3>3 DEF MissedIInv, AwayIsKept
    <3> QED
        BY <3>4, <3>5, <3>6, <3>7
  <2>2. CASE sock[s].wire # "up"
    <3>1. /\ got' = got /\ away'[c] = {}
          /\ \A d \in Clients : d # c => away'[d] = away[d]
        BY <1>0, <2>2 DEF StartSocket, GatewayTypeOK
    <3>2. MissedAway'
        BY <1>1, <1>5, <3>1 DEF MissedIInv, MissedAway
    <3>3. NewerToCome'
      <4>1. got[c] \o <<>> = got[c]
          BY <1>4, ConcatEmptySeq
      <4> QED
          BY <1>0, <1>1, <1>2, <1>4, <3>1, <4>1 DEF MissedIInv, NewerToCome
    <3>4. Published'
        BY <1>0, <1>1, <1>5, <3>1 DEF MissedIInv, Published
    <3>5. AwayIsKept'
        BY <1>1, <3>1 DEF MissedIInv, AwayIsKept
    <3> QED
        BY <3>2, <3>3, <3>4, <3>5
  <2> QED
      BY <2>1, <2>2
<1> QED
    BY <1>3, <1>6 DEF MissedIInv

\* Sending the first of what is posted moves it over.
LEMMA SendHead ==
    ASSUME NEW g \in Seq(Nat), NEW p \in Seq(Nat), p # <<>>
    PROVE  /\ Append(g, Head(p)) \in Seq(Nat) /\ Tail(p) \in Seq(Nat)
           /\ Append(g, Head(p)) \o Tail(p) = g \o p
<1>1. /\ Head(p) \in Nat /\ Tail(p) \in Seq(Nat) /\ p = <<Head(p)>> \o Tail(p)
    BY HeadTailProperties, ConcatSimplifications
<1>2. /\ Append(g, Head(p)) = g \o <<Head(p)>> /\ Append(g, Head(p)) \in Seq(Nat)
    BY <1>1, AppendIsConcat, AppendProperties
<1>3. <<Head(p)>> \in Seq(Nat)
    BY <1>1
<1>4. (g \o <<Head(p)>>) \o Tail(p) = g \o (<<Head(p)>> \o Tail(p))
    BY <1>1, <1>3, ConcatAssociative
<1> QED
    BY <1>1, <1>2, <1>4

LEMMA SendMissed ==
    ASSUME MissedIInv, GatewayTypeOK, NEW s \in Sockets, SendPosted(s)
    PROVE  MissedIInv'
<1> DEFINE c == sock[s].owner
           p == posted[s]
<1>0. /\ UNCHANGED <<sock, missed, changes, away>> /\ p # <<>> /\ p \in Seq(Nat)
      /\ posted'[s] = Tail(p) /\ \A t \in Sockets : t # s => posted'[t] = posted[t]
    BY NumbersAreNat DEF SendPosted, GatewayTypeOK
<1>1. Tail(p) \in Seq(Nat) /\ ToSet(Tail(p)) \subseteq ToSet(p)
  <2>1. <<>> \in Seq(Nat) /\ <<>> \o p = p
      BY <1>0, ConcatEmptySeq
  <2>2. Append(<<>>, Head(p)) \in Seq(Nat) /\ Tail(p) \in Seq(Nat)
        /\ Append(<<>>, Head(p)) \o Tail(p) = p
      BY <1>0, <2>1, SendHead
  <2>3. ToSet(p) = ToSet(Append(<<>>, Head(p))) \cup ToSet(Tail(p))
      BY <2>2, ToSetJoin
  <2> QED
      BY <2>2, <2>3
<1>2. OneWire'
    BY <1>0 DEF MissedIInv, OneWire
<1>3. MissedAway'
    BY <1>0 DEF MissedIInv, MissedAway
<1>4. NewerToCome' /\ Published' /\ AwayIsKept'
  <2>1. CASE sock[s].wire = "up"
    <3> DEFINE g == got[c]
    <3>1. c \in Clients /\ sock[s].phase = "started" /\ missed[c] = <<>>
      <4>1. c \in Clients /\ sock[s].phase \in {"unused", "accepted", "started", "closed"}
          BY <2>1, SocketFields DEF SocketRecord
      <4> QED
          BY <1>0, <2>1, <4>1 DEF MissedIInv, OneWire
    <3>2. /\ got'[c] = Append(g, Head(p))
          /\ \A d \in Clients : d # c => got'[d] = got[d]
        BY <2>1, <3>1 DEF SendPosted, GatewayTypeOK
    <3>3. /\ g \in Seq(Nat) /\ InOrder(g \o p)
        BY <2>1, <3>1, NumbersAreNat DEF MissedIInv, NewerToCome
    <3>4. /\ got'[c] \in Seq(Nat) /\ got'[c] \o Tail(p) = g \o p
        BY <1>0, <3>2, <3>3, SendHead
    <3>5. /\ InOrder(got'[c]) /\ got'[c] \o <<>> = got'[c]
          /\ ToSet(got'[c]) \cup ToSet(Tail(p)) = ToSet(g) \cup ToSet(p)
      <4>1. InOrder(got'[c])
          BY <1>1, <3>3, <3>4, InOrderParts
      <4>2. ToSet(got'[c] \o Tail(p)) = ToSet(got'[c]) \cup ToSet(Tail(p))
          BY <1>1, <3>4, ToSetJoin
      <4>3. ToSet(g \o p) = ToSet(g) \cup ToSet(p)
          BY <1>0, <3>3, ToSetJoin
      <4> QED
          BY <3>4, <4>1, <4>2, <4>3, ConcatEmptySeq
    <3>6. ToSet(g) \subseteq ToSet(got'[c])
      <4>0. Head(p) \in Nat
          BY <1>0, HeadTailProperties
      <4>a. <<Head(p)>> \in Seq(Nat)
          BY <4>0
      <4>b. Append(g, Head(p)) = g \o <<Head(p)>>
          BY <3>3, <4>0, AppendIsConcat, Zenon
      <4>1. got'[c] = g \o <<Head(p)>> /\ <<Head(p)>> \in Seq(Nat)
          BY <3>2, <4>a, <4>b
      <4>2. ToSet(got'[c]) = ToSet(g) \cup ToSet(<<Head(p)>>)
          BY <3>3, <4>1, ToSetJoin
      <4> QED
          BY <4>2
    <3>7. NewerToCome'
      <4>1. \A d \in Clients : InOrder(got'[d] \o missed[d])
          BY <3>1, <3>2, <3>5 DEF MissedIInv, NewerToCome
      <4>2. ASSUME NEW t \in Sockets, sock[t].wire = "up"
            PROVE  InOrder(got'[sock[t].owner] \o posted'[t])
        <5>1. CASE t = s
            BY <1>0, <3>3, <3>4, <5>1
        <5>2. CASE t # s
          <6>1. sock[t].owner # c /\ sock[t].owner \in Clients
              BY <2>1, <4>2, <5>2, SocketFields DEF MissedIInv, OneWire
          <6> QED
              BY <1>0, <3>2, <4>2, <5>2, <6>1 DEF MissedIInv, NewerToCome
        <5> QED
            BY <5>1, <5>2
      <4> QED
          BY <1>0, <4>1, <4>2 DEF NewerToCome
    <3>8. Published'
      <4>1. ToSet(g) \cup ToSet(p) \subseteq 1..Len(changes)
          BY <3>1 DEF MissedIInv, Published
      <4>2. ToSet(got'[c]) \subseteq 1..Len(changes) /\ ToSet(Tail(p)) \subseteq 1..Len(changes)
          BY <3>5, <4>1
      <4> QED
          BY <1>0, <3>2, <4>2 DEF MissedIInv, Published
    <3>9. AwayIsKept'
        BY <1>0, <3>2, <3>6 DEF MissedIInv, AwayIsKept
    <3> QED
        BY <3>7, <3>8, <3>9
  <2>2. CASE sock[s].wire # "up"
    <3>1. got' = got
        BY <2>2 DEF SendPosted
    <3>2. NewerToCome'
        BY <1>0, <2>2, <3>1 DEF MissedIInv, NewerToCome
    <3>3. Published'
        BY <1>0, <1>1, <3>1 DEF MissedIInv, Published
    <3>4. AwayIsKept'
        BY <1>0, <3>1 DEF MissedIInv, AwayIsKept
    <3> QED
        BY <3>2, <3>3, <3>4
  <2> QED
      BY <2>1, <2>2
<1> QED
    BY <1>2, <1>3, <1>4 DEF MissedIInv

\* Posting a newer change keeps the order.
LEMMA PostedInOrder ==
    ASSUME NEW g \in Seq(Nat), NEW p \in Seq(Nat), InOrder(g \o p), NEW n \in Nat,
           \A m \in ToSet(g) \cup ToSet(p) : m <= n
    PROVE  /\ Append(p, n) \in Seq(Nat) /\ InOrder(g \o Append(p, n))
           /\ ToSet(Append(p, n)) = ToSet(p) \cup {n}
<1>1. /\ <<n>> \in Seq(Nat) /\ Append(p, n) = p \o <<n>> /\ Append(p, n) \in Seq(Nat)
    BY AppendIsConcat, AppendProperties
<1>2. InOrder(<<n>>) /\ ToSet(<<n>>) = {n}
    BY DEF InOrder, ToSet
<1>3. g \o p \in Seq(Nat) /\ ToSet(g \o p) = ToSet(g) \cup ToSet(p)
    BY ConcatProperties, ToSetJoin
<1>4. InOrder((g \o p) \o <<n>>)
    BY <1>1, <1>2, <1>3, InOrderJoin
<1>5. (g \o p) \o <<n>> = g \o Append(p, n)
    BY <1>1, ConcatAssociative
<1>6. ToSet(p \o <<n>>) = ToSet(p) \cup {n}
    BY <1>1, <1>2, ToSetJoin
<1> QED
    BY <1>1, <1>4, <1>5, <1>6

\* Who misses a change and keeps it, and to whose connection it is posted.
LEMMA PublishMoves ==
    ASSUME GatewayTypeOK, NEW d \in Documents, Publish(d)
    PROVE  LET n == Len(changes) + 1
           IN  /\ UNCHANGED <<sock, got>> /\ n \in Nat /\ Len(changes) \in Nat /\ Len(changes') = n
               /\ \A c \in Clients :
                     /\ \/ /\ missed'[c] = missed[c]
                           /\ ~(Hits(c, d) # {} /\ ~Connected(c) /\ Keeps(c))
                        \/ /\ Hits(c, d) # {} /\ ~Connected(c) /\ Keeps(c)
                           /\ \E e \in {<<n>>, <<n, n>>} : missed'[c] = Newest(missed[c] \o e)
                     /\ away'[c] = IF Hits(c, d) # {} /\ ~Connected(c)
                                   THEN away[c] \cup {n} ELSE away[c]
               /\ \A s \in Sockets :
                     \/ posted'[s] = posted[s]
                     \/ /\ posted'[s] = Append(posted[s], n)
                        /\ \E c \in Clients : connections[c] = s
<1> DEFINE n == Len(changes) + 1
           copies(c) == IF Hits(c, d) = {Collection, d} THEN <<n, n>> ELSE <<n>>
<1>1. /\ UNCHANGED <<sock, got>> /\ Len(changes) \in Nat /\ Len(changes') = n
    BY LenProperties, AppendProperties DEF Publish, GatewayTypeOK
<1>2. ASSUME NEW c \in Clients
      PROVE  /\ ~(Hits(c, d) # {} /\ ~Connected(c) /\ Keeps(c)) => missed'[c] = missed[c]
             /\ Hits(c, d) # {} /\ ~Connected(c) /\ Keeps(c) =>
                    missed'[c] = Newest(missed[c] \o copies(c))
             /\ away'[c] = IF Hits(c, d) # {} /\ ~Connected(c) THEN away[c] \cup {n} ELSE away[c]
    BY DEF Publish
<1>3. \A c : copies(c) \in {<<n>>, <<n, n>>}
    OBVIOUS
<1>4. ASSUME NEW s \in Sockets
      PROVE  \/ posted'[s] = posted[s]
             \/ posted'[s] = Append(posted[s], n) /\ \E c \in Clients : connections[c] = s
    BY DEF Publish
<1> HIDE DEF copies
<1>5. ASSUME NEW c \in Clients, Hits(c, d) # {}, ~Connected(c), Keeps(c)
      PROVE  \E e \in {<<n>>, <<n, n>>} : missed'[c] = Newest(missed[c] \o e)
  <2>1. copies(c) \in {<<n>>, <<n, n>>}
      BY <1>3
  <2>2. missed'[c] = Newest(missed[c] \o copies(c))
      BY <1>2, <1>5
  <2> QED
      BY <2>1, <2>2
<1>6. ASSUME NEW c \in Clients
      PROVE  \/ /\ missed'[c] = missed[c]
                /\ ~(Hits(c, d) # {} /\ ~Connected(c) /\ Keeps(c))
             \/ /\ Hits(c, d) # {} /\ ~Connected(c) /\ Keeps(c)
                /\ \E e \in {<<n>>, <<n, n>>} : missed'[c] = Newest(missed[c] \o e)
    BY <1>2, <1>5
<1>7. n \in Nat
    BY <1>1
<1> QED
    BY <1>1, <1>2, <1>4, <1>6, <1>7

LEMMA PublishMissed ==
    ASSUME MissedIInv, GatewayTypeOK, OneConnection, ConnectionStarted, DroppedInGrace,
           NEW d \in Documents, Publish(d)
    PROVE  MissedIInv'
<1> DEFINE n == Len(changes) + 1
           absent(c) == Hits(c, d) # {} /\ ~Connected(c) /\ Keeps(c)
<1>0. /\ UNCHANGED <<sock, got>> /\ n \in Nat /\ Len(changes) \in Nat /\ Len(changes') = n
      /\ 1..Len(changes) \subseteq 1..n /\ n \in 1..n /\ \A m \in 1..Len(changes) : m \in Nat /\ m < n
    BY PublishMoves
<1>1. \A c \in Clients :
          /\ ~absent(c) => missed'[c] = missed[c]
          /\ absent(c) => \E e \in {<<n>>, <<n, n>>} : missed'[c] = Newest(missed[c] \o e)
          /\ away'[c] = IF Hits(c, d) # {} /\ ~Connected(c) THEN away[c] \cup {n} ELSE away[c]
    BY PublishMoves
<1>2. \A s \in Sockets :
          \/ posted'[s] = posted[s]
          \/ posted'[s] = Append(posted[s], n) /\ \E c \in Clients : connections[c] = s
    BY PublishMoves
<1>3. \A s \in Sockets : posted'[s] # posted[s] => sock[s].id \in Clients
  <2>1. ASSUME NEW s \in Sockets, posted'[s] # posted[s]
        PROVE  sock[s].id \in Clients
    <3>1. PICK c \in Clients : connections[c] = s
        BY <1>2, <2>1
    <3> QED
        BY <3>1, NoneAssumption DEF ConnectionStarted
  <2> QED
      BY <2>1
<1> HIDE DEF n, absent
<1>4. ASSUME NEW c \in Clients, absent(c)
      PROVE  /\ missed'[c] \in Seq(Nat) /\ InOrder(got[c] \o missed'[c])
             /\ AtMostTwice(missed'[c])
             /\ ToSet(missed'[c]) \subseteq ToSet(missed[c]) \cup {n} /\ n \in ToSet(missed'[c])
             /\ \A m \in ToSet(missed[c]) :
                   \/ m \in ToSet(missed'[c])
                   \/ Len(missed'[c]) = MissedLimit /\ \A k \in ToSet(missed'[c]) : m < k
  <2>1. PICK e \in {<<n>>, <<n, n>>} : missed'[c] = Newest(missed[c] \o e)
      BY <1>1, <1>4
  <2> DEFINE g == got[c]
             q == missed[c]
             new == Newest(q \o e)
  <2>2. g \in Seq(Nat) /\ q \in Seq(Nat) /\ InOrder(g \o q) /\ AtMostTwice(q)
      BY NumbersAreNat DEF MissedIInv, NewerToCome, MissedAway
  <2>3. \A m \in ToSet(g) \cup ToSet(q) : m < n
      BY <1>0 DEF MissedIInv, Published
  <2>4. missed'[c] = new
      BY <2>1
  <2>a. e = <<n>> \/ e = <<n, n>>
      OBVIOUS
  <2> HIDE DEF g, q
  <2>5. /\ new \in Seq(Nat) /\ InOrder(g \o new) /\ AtMostTwice(new)
        /\ ToSet(new) \subseteq ToSet(q) \cup {n} /\ n \in ToSet(new)
        /\ \A m \in ToSet(q) :
              \/ m \in ToSet(new)
              \/ /\ Len(new) = MissedLimit
                 /\ \A k \in ToSet(new) : m < k
      BY <1>0, <2>a, <2>2, <2>3, KeptChange
  <2> HIDE DEF new
  <2> QED
      BY <2>4, <2>5 DEF g, q
<1>5. OneWire'
  <2>1. ASSUME NEW s \in Sockets
        PROVE  sock[s].phase \in {"unused", "accepted"} => posted'[s] = <<>>
    <3>1. sock[s].phase \in {"unused", "accepted"} => sock[s].id = None
        BY DEF OneConnection
    <3>2. sock[s].phase \in {"unused", "accepted"} => posted'[s] = posted[s]
        BY <1>3, <3>1, NoneAssumption
    <3> QED
        BY <3>2 DEF MissedIInv, OneWire
  <2>2. ASSUME NEW s \in Sockets, sock[s].wire = "up", sock[s].phase = "started"
        PROVE  missed'[sock[s].owner] = <<>>
    <3> DEFINE c == sock[s].owner
    <3>1. c \in Clients /\ sock[s].id = c /\ missed[c] = <<>> /\ connections[c] = s
        BY <2>2, SocketFields DEF MissedIInv, OneWire, OneConnection
    <3>2. Connected(c)
        BY <2>2, <3>1, NoneAssumption DEF Connected, Alive
    <3> QED
        BY <1>1, <3>1, <3>2 DEF absent
  <2> QED
      BY <1>0, <2>1, <2>2 DEF MissedIInv, OneWire
<1>6. NewerToCome'
  <2>1. \A c \in Clients : InOrder(got[c] \o missed'[c])
      BY <1>1, <1>4 DEF MissedIInv, NewerToCome
  <2>2. ASSUME NEW s \in Sockets, sock[s].wire = "up"
        PROVE  InOrder(got[sock[s].owner] \o posted'[s])
    <3> DEFINE c == sock[s].owner
    <3>1. c \in Clients
        BY <2>2, SocketFields
    <3>2. /\ got[c] \in Seq(Nat) /\ posted[s] \in Seq(Nat) /\ InOrder(got[c] \o posted[s])
        BY <2>2, <3>1, NumbersAreNat DEF MissedIInv, NewerToCome
    <3>3. \A m \in ToSet(got[c]) \cup ToSet(posted[s]) : m <= n
        BY <1>0, <3>1 DEF MissedIInv, Published
    <3>4. InOrder(got[c] \o Append(posted[s], n))
        BY <1>0, <3>2, <3>3, PostedInOrder
    <3> QED
        BY <1>2, <3>2, <3>4
  <2> QED
      BY <1>0, <2>1, <2>2 DEF NewerToCome
<1>7. Published'
  <2>1. ASSUME NEW c \in Clients
        PROVE  ToSet(got[c]) \cup ToSet(missed'[c]) \subseteq 1..n
      BY <1>0, <1>1, <1>4 DEF MissedIInv, Published
  <2>2. ASSUME NEW s \in Sockets
        PROVE  ToSet(posted'[s]) \subseteq 1..n
    <3>1. <<>> \in Seq(Nat) /\ posted[s] \in Seq(Nat) /\ ToSet(posted[s]) \subseteq 1..Len(changes)
        BY NumbersAreNat DEF MissedIInv, Published
    <3>2. <<n>> \in Seq(Nat) /\ ToSet(<<n>>) = {n} /\ Append(posted[s], n) = posted[s] \o <<n>>
        BY <1>0, <3>1, AppendIsConcat DEF ToSet
    <3>3. ToSet(Append(posted[s], n)) = ToSet(posted[s]) \cup {n}
        BY <3>1, <3>2, ToSetJoin
    <3> QED
        BY <1>0, <1>2, <3>1, <3>3
  <2> QED
      BY <1>0, <2>1, <2>2 DEF Published
<1>8. MissedAway'
    BY <1>1, <1>4 DEF MissedIInv, MissedAway, absent
<1>9. AwayIsKept'
  <2>1. SUFFICES ASSUME MaxCloses = 1, NEW c \in Clients, NEW m \in away'[c]
                 PROVE  \/ m \in ToSet(missed'[c]) \cup ToSet(got[c])
                        \/ 2 * Cardinality({k \in away'[c] : k > m}) >= MissedLimit
      BY <1>0 DEF AwayIsKept
  <2> DEFINE After == {k \in away'[c] : k > m}
             Before == {k \in away[c] : k > m}
  <2>2. /\ IsFiniteSet(After) /\ Cardinality(After) \in Nat
        /\ Before \subseteq After /\ Cardinality(Before) <= Cardinality(After)
        /\ Cardinality(Before) \in Nat /\ MissedLimit \in Nat
    <3>1. away'[c] \subseteq 1..MaxChanges
        BY PublishType DEF GatewayTypeOK, ChangeNumbers
    <3>2. IsFiniteSet(1..MaxChanges)
      <4>1. 1 \in Int /\ MaxChanges \in Int
          BY GatewayBoundsAssumption
      <4> QED
          BY <4>1, FS_Interval, Zenon
    <3>3. After \in SUBSET (1..MaxChanges) /\ Before \in SUBSET After
        BY <1>1, <3>1
    <3> HIDE DEF After, Before
    <3>4. IsFiniteSet(After)
        BY <3>2, <3>3, FS_Subset
    <3>5. IsFiniteSet(Before) /\ Cardinality(Before) <= Cardinality(After)
        BY <3>3, <3>4, FS_Subset
    <3> QED
        BY <3>3, <3>4, <3>5, FS_CardinalityType, GatewayBoundsAssumption
  <2>3. CASE m \notin away[c]
    <3>1. m = n /\ Hits(c, d) # {} /\ ~Connected(c)
        BY <1>1, <2>1, <2>3
    <3>2. Keeps(c)
      <4>1. CASE connections[c] = None
        <5>1. PICK r \in Refs : c \in subs[r]
            BY <3>1 DEF Hits, Refs
        <5> QED
            BY <2>1, <4>1, <5>1 DEF DroppedInGrace, RefsOf, Keeps
      <4> QED
          BY <4>1 DEF Keeps
    <3> QED
        BY <1>4, <3>1, <3>2 DEF absent
  <2>4. CASE m \in away[c] /\ m \in ToSet(missed[c])
    <3>1. CASE absent(c) /\ m \notin ToSet(missed'[c])
      <4>1. Len(missed'[c]) = MissedLimit /\ \A k \in ToSet(missed'[c]) : m < k
          BY <1>4, <2>4, <3>1
      <4>2. ToSet(missed'[c]) \subseteq After
        <5>1. ToSet(missed'[c]) \subseteq away'[c]
            BY <1>8 DEF MissedAway
        <5>2. away'[c] \subseteq Nat
            BY PublishType DEF GatewayTypeOK, ChangeNumbers
        <5>3. m \in Nat
            BY <2>1, <5>2
        <5> QED
            BY <4>1, <5>1, <5>2, <5>3
      <4> HIDE DEF After
      <4>3. Len(missed'[c]) <= 2 * Cardinality(After)
          BY <1>4, <2>2, <3>1, <4>2, TwiceIsEnough
      <4> QED
          BY <2>2, <4>1, <4>3 DEF After
    <3> QED
        BY <1>1, <2>4, <3>1
  <2>5. CASE m \in away[c] /\ m \in ToSet(got[c])
      BY <2>5
  <2>6. CASE m \in away[c] /\ m \notin ToSet(missed[c]) \cup ToSet(got[c])
    <3>1. 2 * Cardinality(Before) >= MissedLimit
        BY <2>1, <2>6 DEF MissedIInv, AwayIsKept
    <3> HIDE DEF After, Before
    <3>2. 2 * Cardinality(After) >= MissedLimit
        BY <2>2, <3>1
    <3> QED
        BY <3>2 DEF After
  <2> QED
      BY <2>3, <2>4, <2>5, <2>6
<1> QED
    BY <1>5, <1>6, <1>7, <1>8, <1>9 DEF MissedIInv

\* One step of the gateway, whichever handler runs.
LEMMA MissedStep ==
    ASSUME GatewayIInv, MissedIInv, [GatewayNext]_gwVars
    PROVE  MissedIInv'
<1>0. GatewayTypeOK /\ OneConnection /\ ConnectionStarted /\ DroppedInGrace
    BY DEF GatewayIInv
<1>1. ASSUME NEW s \in Sockets, NEW c \in Clients, Accept(s, c)
      PROVE  MissedIInv'
    BY <1>0, <1>1, AcceptMissed
<1>2. ASSUME NEW s \in Sockets, PeerGone(s) \/ Noticed(s)
      PROVE  MissedIInv'
    BY <1>0, <1>2, WireMissed
<1>3. ASSUME NEW s \in Sockets, StartSocket(s)
      PROVE  MissedIInv'
    BY <1>0, <1>3, StartMissed
<1>4. ASSUME NEW s \in Sockets, OnClose(s)
      PROVE  MissedIInv'
    BY <1>0, <1>4, CloseMissed
<1>5. ASSUME NEW s \in Sockets, SendPosted(s)
      PROVE  MissedIInv'
    BY <1>0, <1>5, SendMissed
<1>6. ASSUME NEW s \in Sockets, NEW r \in Refs, Unsubscribe(s, r)
      PROVE  MissedIInv'
  <2>1. /\ UNCHANGED <<missed, posted, historyVars>>
        /\ \E t, R : sock' = [sock EXCEPT ![t].refs = R]
    <3>1. CASE connections[sock[s].id] = None
      <4>1. sock' = sock
          BY <1>6, <3>1 DEF Unsubscribe
      <4>2. sock[s] \in SocketRecord
          BY <1>0, SocketFields
      <4>3. sock' = [sock EXCEPT ![s].refs = sock[s].refs]
          BY <1>0, <4>1, <4>2 DEF GatewayTypeOK, SocketRecord
      <4> QED
          BY <1>6, <4>3 DEF Unsubscribe
    <3>2. CASE connections[sock[s].id] # None
        BY <1>6, <3>2 DEF Unsubscribe
    <3> QED
        BY <3>1, <3>2
  <2> QED
      BY <1>0, <2>1, RefsMissed
<1>7. ASSUME NEW c \in Clients, NEW r \in Refs, Listen(c, r)
      PROVE  MissedIInv'
  <2>1. /\ UNCHANGED <<missed, posted, historyVars>>
        /\ \E t, R : sock' = [sock EXCEPT ![t].refs = R]
      BY <1>7 DEF Listen
  <2> QED
      BY <1>0, <2>1, RefsMissed
<1>8. ASSUME NEW c \in Clients, GraceEnds(c)
      PROVE  MissedIInv'
    BY <1>0, <1>8, GraceMissed
<1>9. ASSUME NEW d \in Documents, Publish(d)
      PROVE  MissedIInv'
    BY <1>0, <1>9, PublishMissed
<1>10. CASE UNCHANGED gwVars
    BY <1>10 DEF gwVars, MissedIInv, OneWire, NewerToCome, Published, MissedAway, AwayIsKept
<1> QED
    BY <1>1, <1>2, <1>3, <1>4, <1>5, <1>6, <1>7, <1>8, <1>9, <1>10 DEF GatewayNext

\* What may still reach a client is newer than all that did; of what it was away
\* for, only changes are dropped that newer ones have pushed past the limit.
THEOREM MissedInvariance == GatewaySpec => []MissedIInv
<1>1. GatewayInit => MissedIInv
    BY MissedInit
<1>2. GatewayIInv /\ MissedIInv /\ [GatewayNext]_gwVars => MissedIInv'
    BY MissedStep
<1> QED
    BY <1>1, <1>2, GatewayInvariance, PTL DEF GatewaySpec

\* "Changes sent while a client was disconnected but still inside the grace were lost.
\* They are now kept", for any number of clients, connections and changes and for
\* any limit: what a dropped client missed is kept up to the limit, never beyond it,
\* and reaches it in order with the rest, with every kind of adapter (that each close
\* is reported once is needed only for what was published while nobody was connected).
THEOREM MissedChangesArrive == GatewaySpec => []MissedArrives
<1>1. GatewayIInv /\ MissedIInv => MissedArrives
  <2>1. SUFFICES ASSUME GatewayIInv, MissedIInv PROVE MissedArrives
      OBVIOUS
  <2>2. GatewayTypeOK
      BY <2>1 DEF GatewayIInv
  <2>3. ASSUME NEW c \in Clients
        PROVE  InOrder(got[c])
    <3>1. got[c] \in Seq(Nat) /\ missed[c] \in Seq(Nat) /\ InOrder(got[c] \o missed[c])
        BY <2>1, <2>2, NumbersAreNat DEF MissedIInv, NewerToCome
    <3> QED
        BY <3>1, InOrderParts
  <2> QED
      BY <2>1, <2>2, <2>3 DEF MissedArrives, GotInOrder, MissedIInv, GatewayTypeOK
<1> QED
    BY <1>1, GatewayInvariance, MissedInvariance, PTL
=============================================================================
