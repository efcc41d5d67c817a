----------------------------- MODULE Changefeed -----------------------------
(***************************************************************************)
(* From a write in the database to the lists that are followed: the REST   *)
(* requests that write (MongoDatasource, PostgresDatasource, D1Datasource),*)
(* the change stream or NOTIFY channel that reports it (MongodbRealtime,   *)
(* PostgresRealtime) or the middleware that publishes it (d1(),            *)
(* realtimeMiddleware), and the refs each change is told to.               *)
(*                                                                         *)
(* A row has owners and orgs (one each, or arrays) and a value. It is read *)
(* under three routes: posts, users/:owner/posts and                       *)
(* orgs/:org/users/:owner/posts. A list stands for everybody who follows a *)
(* ref; how changes reach a client and its storage is in Live and Gateway. *)
(* Operator bodies, replaceOne, sync routes (in Sync), column allowlists   *)
(* and rows too wide for a NOTIFY are left out.                            *)
(***************************************************************************)
EXTENDS Integers, FiniteSets, Sequences

CONSTANTS
    Ids,         \* ids of rows; the add that a client retries is of NewId
    NewId,
    Starts,      \* what its row may be to begin with
    Owners, Orgs,
    Values,
    Backends,    \* a subset of {"mongo", "postgres", "d1"}
    Scalar,      \* the backends whose owners are one value, not an array
    Taking,      \* the backends that take the client's id (`clientIds`)
    Imaging,     \* whether pre-images are available: a subset of BOOLEAN
    Moving,      \* the backends whose requests may move a row to another parent
    Backing,     \* the backends whose backoff is checked
    Crossing,    \* whether one request may change both parents
    Writers,     \* requests under way at a time
    MaxWrites, MaxDrops, MaxRetries

ASSUME NewIdAssumption == NewId \in Ids /\ IsFiniteSet(Ids)
ASSUME ValuesAssumption == Values \subseteq Nat \ {0} /\ IsFiniteSet(Values)
ASSUME StartsAssumption ==
    Starts \subseteq [owners : SUBSET Owners, orgs : SUBSET Orgs, value : Values]
ASSUME ParentsAssumption == "*" \notin Owners \cup Orgs  \* Star, below
ASSUME BackendsAssumption ==
    /\ Backends \subseteq {"mongo", "postgres", "d1"}
    /\ Scalar \subseteq Backends /\ Taking \subseteq Backends
    /\ Moving \subseteq Backends /\ Backing \subseteq Backends
ASSUME FlagsAssumption == Imaging \subseteq BOOLEAN /\ Crossing \in BOOLEAN
ASSUME ChangefeedBounds == MaxWrites \in Nat /\ MaxDrops \in Nat /\ MaxRetries \in Nat

VARIABLES
    backend,   \* which datasource
    images,    \* Mongo: collMod worked, updates and deletes carry the old row
    db,        \* the rows
    reqs,      \* each writer's request
    log,       \* changes reported and not yet read
    conns,     \* each connection that listens: "none", "asked", "open" or "ended"
    current,   \* the one of the present subscription, 0 while it waits to retry
    watching,  \* nobody has unsubscribed from watch()
    attempts,  \* retry's count, of which the delay is made
    lists,     \* what the followers of each ref hold: the value of each row, or 0
    born,      \* history: the rows the retried add made
    lost,      \* history: rows with a change that nobody was told of
    crossed,   \* history: rows read with both parents changed
    through,   \* history, D1: the refs each row was written through
    fails,     \* history: drops since a change was delivered
    writes, drops, retries

dataVars == <<db, reqs, born, through, writes, retries>>
linkVars == <<conns, current, watching, attempts, fails, drops>>
vars == <<backend, images, log, lists, lost, crossed, dataVars, linkVars>>

Star == "*"  \* a ref without that parent
All == [org |-> Star, owner |-> Star]
OwnerRefs == {[org |-> Star, owner |-> o] : o \in Owners}
DeepRefs  == {[org |-> g, owner |-> o] : g \in Orgs, o \in Owners}
Refs == {All} \cup OwnerRefs \cup DeepRefs

Absent == [owners |-> {}, orgs |-> {}, value |-> 0]
There(row) == row.value # 0

\* The route's keys select the row.
Under(row, ref) ==
    There(row) /\ ref.owner \in row.owners \cup {Star} /\ ref.org \in row.orgs \cup {Star}

-----------------------------------------------------------------------------
(* Refs. A change is [type, id, old, new, fields].                          *)

\* What a change means for one parent.
Change(before, after, parent) ==
    IF parent \in before \cap after THEN "modified" ELSE IF parent \in after THEN "added" ELSE "removed"

\* Mutant of MongoParents: the old parents of an update are not looked at.
MongoParentsAfter(type, before, after) ==
    CASE type = "modified" -> [p \in after |-> "modified"]
      [] type = "added"    -> [p \in after |-> "added"]
      [] type = "removed"  -> [p \in before |-> "removed"]

\* buildRefs: the parents a change is told to, each with what it is there; the ref
\* '-' of a change without a parent is followed by nobody.
MongoParents(type, before, after) ==
    CASE type = "modified" -> [p \in before \cup after |-> Change(before, after, p)]
      [] type = "added"    -> [p \in after |-> "added"]
      [] type = "removed"  -> [p \in before |-> "removed"]

\* Mutant of MongoDeeper: the deeper parent decides.
MongoDeepest(outer, inner) == inner

\* "A deeper parent only refines a ref the document stayed under."
MongoDeeper(outer, inner) == IF outer = "modified" THEN inner ELSE outer

\* buildRefs of Postgres: of a scalar only the value the row has now.
PostgresParents(type, before, after) ==
    LET told == IF backend \in Scalar /\ after # {} THEN after ELSE before \cup after
    IN  [p \in told |-> IF type = "modified" THEN Change(before, after, p) ELSE type]

\* The deeper parent decides, unless the row stayed under it.
PostgresDeeper(outer, inner) == IF inner = "modified" THEN outer ELSE inner

Parents(c, field) ==
    IF backend = "mongo" THEN MongoParents(c.type, c.old[field], c.new[field])
    ELSE PostgresParents(c.type, c.old[field], c.new[field])

Deeper(outer, inner) ==
    IF backend = "mongo" THEN MongoDeeper(outer, inner) ELSE PostgresDeeper(outer, inner)

\* #format: what each ref is told, as a function.
Told(c) ==
    LET owners == Parents(c, "owners")
        orgs   == Parents(c, "orgs")
        refs   == {All} \cup {r \in OwnerRefs : r.owner \in DOMAIN owners}
                  \cup {r \in DeepRefs : r.owner \in DOMAIN owners /\ r.org \in DOMAIN orgs}
    IN  [r \in refs |-> IF r = All THEN c.type
                        ELSE IF r.org = Star THEN owners[r.owner]
                        ELSE Deeper(orgs[r.org], owners[r.owner])]

\* A follower puts what is `added`, merges what is `modified` into a row it holds
\* and drops what is `removed`. A field that `new` lacks is not in the JSON.
Held(held, type, c) ==
    CASE type = "added"    -> c.new.value
      [] type = "modified" -> IF held # 0 /\ "value" \in c.fields /\ There(c.new) THEN c.new.value ELSE held
      [] type = "removed"  -> 0

Tell(c, told) ==
    lists' = [r \in Refs |-> IF r \in DOMAIN told
                             THEN [lists[r] EXCEPT ![c.id] = Held(@, told[r], c)]
                             ELSE lists[r]]

-----------------------------------------------------------------------------
(* Requests *)

Idle == [op |-> "none", id |-> NewId, ref |-> All, row |-> Absent, fields |-> {}, stage |-> "idle"]

Sets(whole) == IF backend \in Scalar THEN {{x} : x \in whole} ELSE SUBSET whole

\* What clients ask for: a POST, PATCH or DELETE on `posts` or on an owner's posts.
Request ==
    LET refs == {All} \cup {r \in OwnerRefs : backend = "postgres" => backend \in Scalar}
        make(op, id, ref, row, fields) ==
            [op |-> op, id |-> id, ref |-> ref, row |-> row, fields |-> fields, stage |-> "written"]
    IN  {make("add", NewId, r, [owners |-> o, orgs |-> {g}, value |-> v], {}) :
             r \in refs, o \in Sets(Owners), g \in Orgs, v \in Values}
        \cup {make("patch", NewId, r, [Absent EXCEPT !.value = v], {"value"}) :
             r \in refs, v \in Values}
        \cup {make("patch", NewId, r, [Absent EXCEPT !.owners = o], {"owners"}) :
             r \in refs, o \in IF backend \in Moving THEN Sets(Owners) ELSE {}}
        \cup {make("patch", NewId, r, [Absent EXCEPT !.orgs = {g}], {"orgs"}) :
             r \in refs, g \in IF backend \in Moving THEN Orgs ELSE {}}
        \cup {make("patch", NewId, r, [owners |-> o, orgs |-> {g}, value |-> 0], {"owners", "orgs"}) :
             r \in refs, o \in Sets(Owners),
             g \in IF Crossing /\ backend \in Moving THEN Orgs ELSE {}}
        \cup {make("delete", NewId, r, Absent, {}) : r \in refs}

\* Mutant of NewIds: the datasource makes up an id for every row.
NewIdsAssigned(r) == {i \in Ids : ~There(db[i])}

\* #post and add(): the client's id if the route takes it, or one of the database's.
NewIds(r) == IF backend \in Taking THEN {r.id} ELSE {i \in Ids : ~There(db[i])}

\* The row a POST makes: the keys of the route, then the body.
NewRow(r) == IF r.ref.owner = Star THEN r.row ELSE [r.row EXCEPT !.owners = {r.ref.owner}]

\* $set or SET of the fields of the body.
Patched(row, r) ==
    [row EXCEPT !.owners = IF "owners" \in r.fields THEN r.row.owners ELSE @,
                !.orgs   = IF "orgs" \in r.fields THEN r.row.orgs ELSE @,
                !.value  = IF "value" \in r.fields THEN r.row.value ELSE @]

Open == current # 0 /\ conns[current] = "open"

\* What the database reports of a commit, if somebody listens.
Report(id, type, fields, old, new) ==
    IF backend = "d1" THEN UNCHANGED <<log, lost>>
    ELSE IF Open
    THEN /\ log' = Append(log, [id |-> id, type |-> type, fields |-> fields, old |-> old, new |-> new])
         /\ lost' = lost
    ELSE lost' = lost \cup {id} /\ UNCHANGED log

Commit(r, id, type, new) ==
    /\ db' = [db EXCEPT ![id] = new]
    /\ through' = IF backend = "d1" THEN [through EXCEPT ![id] = @ \cup {r.ref}] ELSE through
    /\ Report(id, type, r.fields, db[id], new)

Refused == UNCHANGED <<db, through, log, lost>>

\* Only a POST is asked again: a second PATCH or DELETE is another request.
Replied(r) == IF r.op = "add" THEN [r EXCEPT !.stage = "done"] ELSE Idle

\* The answer is 200 whether a row matched or not, and a D1 change is published
\* then; a row that is there already is the 409 ID_ALREADY_EXISTS, and is not.
Reply(w, r, published) ==
    reqs' = [reqs EXCEPT ![w] = IF published /\ backend = "d1" THEN [r EXCEPT !.stage = "written"]
                                ELSE Replied(r)]

Post(w, r) ==
    /\ r.op = "add"
    /\ \E i \in NewIds(r) :
         IF There(db[i])
         THEN Refused /\ UNCHANGED born /\ Reply(w, r, FALSE)
         ELSE /\ Commit(r, i, "added", NewRow(r))
              /\ born' = born \cup {i}
              /\ Reply(w, [r EXCEPT !.id = i, !.row = NewRow(r)], TRUE)

\* #keys, #whereKeys and #buildKeyWhere; an update that sets what is there is not
\* reported.
Matches(r) == Under(db[r.id], r.ref) /\ (r.op = "patch" => Patched(db[r.id], r) # db[r.id])

Patch(w, r) ==
    /\ r.op = "patch"
    /\ IF Matches(r)
       THEN Commit(r, r.id, "modified", Patched(db[r.id], r)) ELSE Refused
    /\ Reply(w, r, TRUE)
    /\ UNCHANGED born

Delete(w, r) ==
    /\ r.op = "delete"
    /\ IF Matches(r) THEN Commit(r, r.id, "removed", Absent) ELSE Refused
    /\ Reply(w, r, TRUE)
    /\ UNCHANGED born

Handle(w, r) == Post(w, r) \/ Patch(w, r) \/ Delete(w, r)

\* A request arrives and is written. One that changes no row does nothing but in
\* D1, and is only asked there.
Write(w) ==
    /\ reqs[w].stage = "idle" /\ writes < MaxWrites /\ (watching \/ backend = "d1")
    /\ \E r \in Request :
         /\ IF r.op = "add" THEN born = {} ELSE backend = "d1" \/ Matches(r)
         /\ Handle(w, r)
    /\ writes' = writes + 1
    /\ UNCHANGED <<backend, images, lists, crossed, linkVars, retries>>

\* realtimeMiddleware publishes the result on the collection ref of the request.
Publish(w) ==
    /\ reqs[w].stage = "written"
    /\ LET r == reqs[w]
           type == CASE r.op = "add" -> "added" [] r.op = "patch" -> "modified" [] r.op = "delete" -> "removed"
       IN  Tell([id |-> r.id, new |-> r.row, fields |-> r.fields], [ref \in {r.ref} |-> type])
    /\ reqs' = [reqs EXCEPT ![w] = Replied(@)]
    /\ UNCHANGED <<backend, images, log, lost, crossed, db, born, through, writes, retries, linkVars>>

\* The answer arrives ...
Answer(w) ==
    /\ reqs[w].stage = "done"
    /\ reqs' = [reqs EXCEPT ![w] = Idle]
    /\ UNCHANGED <<backend, images, log, lists, lost, crossed, db, born, through, writes, retries, linkVars>>

\* ... or is lost, with the process before it published or afterwards ...
Lose(w) ==
    /\ reqs[w].op = "add" /\ reqs[w].stage \in {"written", "done"} /\ retries < MaxRetries
    /\ retries' = retries + 1
    /\ lost' = IF reqs[w].stage = "written" THEN lost \cup {reqs[w].id} ELSE lost
    /\ reqs' = [reqs EXCEPT ![w].stage = "lost"]
    /\ UNCHANGED <<backend, images, log, lists, crossed, db, born, through, writes, linkVars>>

\* ... and the client asks again.
Retry(w) ==
    /\ reqs[w].stage = "lost"
    /\ Handle(w, reqs[w])
    /\ UNCHANGED <<backend, images, lists, crossed, linkVars, writes, retries>>

-----------------------------------------------------------------------------
(* The subscription *)

\* Mutant of Connected: a connection that comes too late is used.
ConnectedAnyway(i) == TRUE

\* `disposed`: the subscription that asked is still the one there is.
Connected(i) == watching /\ i = current

\* collMod has answered and the stream is opened; or the factory has, and LISTEN.
Connect(i) ==
    /\ conns[i] = "asked"
    /\ conns' = [conns EXCEPT ![i] = IF Connected(i) THEN "open" ELSE "ended"]
    /\ UNCHANGED <<backend, images, log, lists, lost, crossed, dataVars,
                   current, watching, attempts, fails, drops>>

\* The stream or the connection fails, or cannot be made: what was not read of it
\* is gone. No resume token is kept, and NOTIFY keeps nothing.
Drop ==
    /\ watching /\ current # 0 /\ conns[current] # "ended" /\ drops < MaxDrops
    /\ conns' = [conns EXCEPT ![current] = "ended"]
    /\ current' = 0
    /\ lost' = lost \cup {log[k].id : k \in DOMAIN log}
    /\ log' = <<>>
    /\ attempts' = attempts + 1 /\ fails' = fails + 1 /\ drops' = drops + 1
    /\ UNCHANGED <<backend, images, lists, crossed, dataVars, watching>>

\* Mutant of MayRetry: the first failure ends the subscription.
NeverRetries == attempts = 0

\* retry({ delay }) has no limit on the attempts.
MayRetry == TRUE

\* The delay is over.
Resubscribe ==
    /\ watching /\ current = 0 /\ MayRetry
    /\ \E i \in DOMAIN conns :
         /\ conns[i] = "none" /\ \A j \in DOMAIN conns : conns[j] = "none" => i <= j
         /\ conns' = [conns EXCEPT ![i] = "asked"]
         /\ current' = i
    /\ UNCHANGED <<backend, images, log, lists, lost, crossed, dataVars, watching, attempts, fails, drops>>

\* The teardown closes what is open; what is asked for is closed when it comes.
Unsubscribe ==
    /\ watching
    /\ watching' = FALSE
    /\ conns' = IF Open THEN [conns EXCEPT ![current] = "ended"] ELSE conns
    /\ lost' = lost \cup {log[k].id : k \in DOMAIN log}
    /\ log' = <<>>
    /\ UNCHANGED <<backend, images, lists, crossed, dataVars, current, attempts, fails, drops>>

\* What a change carries when it is read: Mongo looks the row up now
\* (`updateLookup`) and has the old one only with pre-images.
Seen(c) ==
    IF backend = "mongo"
    THEN [c EXCEPT !.new = IF c.type = "modified" THEN db[c.id] ELSE @,
                   !.old = IF images THEN @ ELSE Absent]
    ELSE c

\* Mutant of AfterDelivery: the backoff goes on from where it was.
NeverReset == attempts

\* `resetOnSuccess`, which only Mongo's retry sets.
AfterDelivery == IF backend = "mongo" THEN 0 ELSE attempts

ReadChange ==
    /\ Open /\ log # <<>>
    /\ LET c == Seen(Head(log))
       IN  /\ Tell(c, Told(c))
           /\ crossed' = IF c.type = "modified" /\ There(c.new)
                            /\ c.old.owners # c.new.owners /\ c.old.orgs # c.new.orgs
                         THEN crossed \cup {c.id} ELSE crossed
    /\ log' = Tail(log)
    /\ attempts' = AfterDelivery /\ fails' = 0
    /\ UNCHANGED <<backend, images, lost, dataVars, conns, current, watching, drops>>

-----------------------------------------------------------------------------
Truth(rows, ref, i) == IF Under(rows[i], ref) THEN rows[i].value ELSE 0

ChangefeedInit ==
    /\ backend \in Backends
    /\ images \in IF backend = "mongo" THEN Imaging ELSE {FALSE}
    /\ \E row \in Starts \cup {Absent} : db = [i \in Ids |-> IF i = NewId THEN row ELSE Absent]
    /\ reqs = [w \in Writers |-> Idle]
    /\ log = <<>>
    /\ watching = (backend # "d1")
    /\ current = IF backend = "d1" THEN 0 ELSE 1
    /\ conns = [i \in 1..(MaxDrops + 1) |-> IF i = current THEN "asked" ELSE "none"]
    /\ attempts = 0 /\ fails = 0
    /\ lists = [r \in Refs |-> [i \in Ids |-> Truth(db, r, i)]]
    /\ born = {} /\ lost = {} /\ crossed = {}
    /\ through = [i \in Ids |-> {}]
    /\ writes = 0 /\ drops = 0 /\ retries = 0

ChangefeedNext ==
    \/ \E w \in Writers : Write(w) \/ Publish(w) \/ Answer(w) \/ Lose(w) \/ Retry(w)
    \/ \E i \in DOMAIN conns : Connect(i)
    \/ Drop \/ Resubscribe \/ Unsubscribe \/ ReadChange

\* A connection that is asked for comes or fails, a timer fires, and the driver
\* delivers what it has.
Fairness ==
    /\ \A i \in 1..(MaxDrops + 1) : WF_vars(Connect(i))
    /\ WF_vars(Resubscribe) /\ WF_vars(ReadChange)

ChangefeedSpec == ChangefeedInit /\ [][ChangefeedNext]_vars /\ Fairness

-----------------------------------------------------------------------------
(* Properties *)

\* Everything committed has been told.
Settled == log = <<>> /\ \A w \in Writers : reqs[w].stage # "written"

Follows(ref, i) == lists[ref][i] = Truth(db, ref, i)

\* Who is told of every change of a row: with pre-images everybody; without them,
\* `posts`; from D1, those who follow the ref that the writes went through.
Reached(ref, i) ==
    CASE backend = "mongo"    -> images \/ ref = All
      [] backend = "postgres" -> TRUE
      [] backend = "d1"       -> through[i] \subseteq {ref}

\* A row that moves between owners leaves the list it was in and joins the other
\* one, whatever is written meanwhile and however late the stream is read: once
\* all is told, the lists hold the rows of the database, with their values.
ListsFollow ==
    Settled => \A i \in Ids \ lost, ref \in {All} \cup OwnerRefs : Reached(ref, i) => Follows(ref, i)

\* So do the lists below two parents, of rows never read with both changed.
DeepListsFollow ==
    Settled /\ backend # "d1" =>
        \A i \in Ids \ (lost \cup crossed), ref \in DeepRefs : Reached(ref, i) => Follows(ref, i)

\* Under one parent and under two.
AllListsFollow == ListsFollow /\ DeepListsFollow

\* The same of every row, whatever its changes were (it does not hold).
DeepListsAlways ==
    Settled /\ backend # "d1" =>
        \A i \in Ids \ lost, ref \in DeepRefs : Reached(ref, i) => Follows(ref, i)

\* "Nothing downstream publishes a change that did not happen" (it does not hold).
PublishesWhatHappened ==
    [][\A w \in Writers : reqs[w].stage # "written" /\ reqs'[w].stage = "written" => db' # db]_vars

\* "A retried add cannot create a second document", wherever the answer was lost.
OneRowPerAdd == backend \in Taking => Cardinality(born) <= 1

\* No connection delivers beside another or after the end of the subscription:
\* one asked for before that is closed when it comes.
OneListener ==
    \A i \in DOMAIN conns : conns[i] = "open" => watching /\ i = current

\* "The delay grows exponentially per consecutive failure": a delivery starts it
\* over.
BackoffStartsOver == backend \in Backing => attempts = fails

\* While somebody watches, a dropped feed comes back and its changes are read; and
\* every connection is given up in the end when nobody does. One connection delivers
\* at a time, and the delay to the next one starts over with a delivery.
Delivers ==
    /\ [](OneListener /\ BackoffStartsOver)
    /\ watching ~> (Open /\ log = <<>>) \/ ~watching
    /\ (~watching) ~> \A i \in DOMAIN conns : conns[i] \in {"none", "ended"}
=============================================================================
