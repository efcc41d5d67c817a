----------------------------- MODULE LocalFirst -----------------------------
(***************************************************************************)
(* The local-first write path of packages/client/src/LivequeryClient.ts on *)
(* top of its write queue (Outbox.tla): add(), update(), delete(), the     *)
(* intents that make them recoverable, #execute, and the ingestion of what *)
(* the server says.                                                        *)
(*                                                                         *)
(* A document has one editable field, whose value names the call that      *)
(* wrote it, so `_prev` is either set or not. There is one transporter and *)
(* one context (no other tab), and the storage never fails. A step is the  *)
(* code between two awaits: what a step read from the storage is kept in   *)
(* the state of the activity and may be stale when a later step uses it.   *)
(*                                                                         *)
(* Every step here is a step of the queue or leaves the queue alone; start,*)
(* crash and the outcome of execute() are no longer free choices. The      *)
(* client is not destroyed and the storage not flushed (Outbox.tla has     *)
(* both); a wake-up by the `online` event is left to the backoff timer.    *)
(***************************************************************************)
EXTENDS Outbox

CONSTANTS
    Recoveries,      \* calls of enqueue() that #recover makes
    ConflictAttempts,
    MaxVersion,      \* server writes of a document
    MaxTheirs,       \* writes of other clients
    MaxIngests,      \* changes the client is told about
    MaxLost,         \* requests or answers that the network loses
    Early,           \* TRUE when mutations may be called before #recover is done
    Refusals         \* TRUE when the server may refuse a write for good

ASSUME DocsAssumption == "none" \notin Docs
ASSUME RecoveriesAssumption == Recoveries \subseteq Calls
ASSUME RefusalsAssumption == Refusals \in BOOLEAN /\ Early \in BOOLEAN
ASSUME ClientBoundsAssumption ==
    /\ ConflictAttempts \in Nat /\ MaxVersion \in Nat \ {0}
    /\ MaxTheirs \in Nat /\ MaxIngests \in Nat /\ MaxLost \in Nat

VARIABLES
    doc,        \* durable: the stored documents
    intents,    \* durable: LIVEQUERY_INTENT_REF
    server,     \* the documents of the server
    draft,      \* per call of add(), update(), delete(): where it is before enqueue()
    work,       \* where #execute is, what it read and what it sent
    recovery,   \* where #recover is
    ingest,     \* where #ingestRemoteChange is
    created,    \* history: documents whose id was chosen
    accepted,   \* history: calls whose value the server stored
    theirs, ingests, losses

clientVars == <<doc, intents, draft, work, recovery, ingest>>
serverVars == <<server, accepted, theirs, losses>>
restVars == <<created, ingests>>
allVars == <<vars, clientVars, serverVars, restVars>>

-----------------------------------------------------------------------------
(* Documents *)

Values == Calls \cup {"theirs", "first", "none"}

NoDoc == [here |-> FALSE, val |-> "none", prev |-> FALSE, adding |-> FALSE,
          deleting |-> FALSE, errors |-> {}, version |-> 0]

Stored(v, n) == [NoDoc EXCEPT !.here = TRUE, !.val = v, !.version = n]

\* storage.update: a document that is gone stays gone.
Patched(old, new) == IF old.here THEN new ELSE old

Missing == [status |-> "absent", val |-> "none", version |-> 0]

\* What #ingestRemoteChange writes for a change, given the document it read.
NoWrite == [do |-> "nothing", val |-> "none", version |-> 0]
IngestWrite(change, local) ==
    LET to(what, v) == [do |-> what, val |-> v, version |-> change.version]
        older == local.here /\ local.version # 0 /\ change.version < local.version
        pending == local.prev \/ local.deleting
    IN  CASE change.kind = "removed" -> to("delete", "none")
          [] change.kind # "removed" /\ older -> NoWrite
          [] change.kind = "tombstone" /\ ~older ->
                 IF local.here THEN to("delete", "none") ELSE NoWrite
          [] change.kind \in {"added", "modified"} /\ ~older /\ ~pending ->
                 to(IF change.kind = "added" THEN "put" ELSE "merge", change.val)
          [] change.kind = "modified" /\ ~older /\ local.deleting -> NoWrite
          [] OTHER -> to("merge", IF local.prev THEN local.val ELSE change.val)

\* The storage call that write is.
Ingested(old, write) ==
    CASE write.do = "nothing" -> old
      [] write.do = "delete" -> NoDoc
      [] write.do = "put" -> Stored(write.val, write.version)
      [] write.do = "merge" ->
            Patched(old, [old EXCEPT !.val = write.val, !.version = write.version])

-----------------------------------------------------------------------------
(* add(), update() and delete() in local-first mode *)

NoDraft == [phase |-> "idle", op |-> "none", doc |-> "none",
            adding |-> FALSE, unsynced |-> FALSE]

\* The mutation is called and its intent stored. An add chooses a fresh id; an
\* application updates and deletes documents it can see.
Intend(c, op, d) ==
    /\ c \notin Recoveries
    /\ Early \/ recovery.phase = "done"
    /\ draft[c].phase = "idle" /\ call[c].phase = "new"
    /\ IF op = "add" THEN d \notin created ELSE doc[d].here /\ ~doc[d].deleting
    /\ created' = created \cup {d}
    /\ draft' = [draft EXCEPT ![c] = [NoDraft EXCEPT !.phase = "intended", !.op = op, !.doc = d]]
    /\ intents' = intents \cup {[id |-> c, op |-> op, doc |-> d]}
    /\ UNCHANGED <<vars, doc, work, recovery, ingest, serverVars, ingests>>

\* Mutant of Written: nothing says that the server never heard of the document.
WrittenAsSynced(c, new) ==
    LET d == draft[c].doc
    IN  /\ doc' = [doc EXCEPT ![d] = new]
        /\ draft' = [draft EXCEPT ![c].phase =
                        IF draft[c].op = "add" \/ doc[d].here THEN "written" ELSE "nothing"]
        /\ UNCHANGED <<vars, intents, work, recovery, ingest, serverVars, restVars>>

\* The document is written; a document that is gone leaves nothing to queue.
Written(c, new) ==
    LET d == draft[c].doc
    IN  /\ doc' = [doc EXCEPT ![d] = new]
        /\ draft' = [draft EXCEPT ![c] = [@ EXCEPT
                        !.phase = IF draft[c].op = "add" \/ doc[d].here THEN "written" ELSE "nothing",
                        !.unsynced = draft[c].op # "add" /\ doc[d].adding]]
        /\ UNCHANGED <<vars, intents, work, recovery, ingest, serverVars, restVars>>

WriteAdd(c) ==
    /\ draft[c].phase = "intended" /\ draft[c].op = "add"
    /\ Written(c, [Stored(c, 0) EXCEPT !.adding = TRUE])

\* `_prev` gets the edited field, whatever update() read before.
WriteUpdate(c) ==
    /\ draft[c].phase = "intended" /\ draft[c].op = "update"
    /\ LET old == doc[draft[c].doc]
       IN  Written(c, Patched(old, [old EXCEPT !.val = c, !.prev = TRUE]))

\* delete() reads whether the document was ever sent ...
ReadForDelete(c) ==
    /\ draft[c].phase = "intended" /\ draft[c].op = "delete"
    /\ draft' = [draft EXCEPT ![c] = [@ EXCEPT !.phase = "got", !.adding = doc[draft[c].doc].adding]]
    /\ UNCHANGED <<vars, doc, intents, work, recovery, ingest, serverVars, restVars>>

\* ... then removes it or marks it.
WriteDelete(c) ==
    /\ draft[c].phase = "got"
    /\ LET old == doc[draft[c].doc]
       IN  Written(c, IF draft[c].adding THEN NoDoc
                      ELSE Patched(old, [old EXCEPT !.deleting = TRUE]))

\* #enqueue: the write goes to the queue.
Send(c) ==
    /\ draft[c].phase = "written"
    /\ Enqueue(c, draft[c].op, draft[c].doc, draft[c].unsynced)
    /\ draft' = [draft EXCEPT ![c].phase = "sent"]
    /\ UNCHANGED <<doc, intents, work, recovery, ingest, serverVars, restVars>>

\* Mutant of DropIntent: the intent goes before the write is recorded.
DropIntentEarly(c) ==
    /\ draft[c].phase = "sent"
    /\ \E i \in intents : i.id = c
    /\ intents' = {i \in intents : i.id # c}
    /\ UNCHANGED <<vars, doc, draft, work, recovery, ingest, serverVars, restVars>>

\* Once the write is recorded its intent goes; delete() passes no intent on.
DropIntent(c) ==
    /\ \/ draft[c].phase = "nothing"
       \/ draft[c].phase = "sent" /\ call[c].phase \in {"reporting", "waiting"}
    /\ draft[c].op # "delete"
    /\ \E i \in intents : i.id = c
    /\ intents' = {i \in intents : i.id # c}
    /\ UNCHANGED <<vars, doc, draft, work, recovery, ingest, serverVars, restVars>>

-----------------------------------------------------------------------------
(* #recover, when a client is created *)

NoIntent == [id |-> "none", op |-> "none", doc |-> "none"]
NoRecovery == [phase |-> "query", todo |-> {}, queued |-> {}, at |-> NoIntent, caller |-> "none"]

RecoverQuery ==
    /\ recovery.phase = "query"
    /\ recovery' = [recovery EXCEPT !.phase = IF intents = {} THEN "start" ELSE "pending",
                                    !.todo = intents]
    /\ UNCHANGED <<vars, doc, intents, draft, work, ingest, serverVars, restVars>>

RecoverPending ==
    /\ recovery.phase = "pending"
    /\ recovery' = [recovery EXCEPT !.phase = "next", !.queued = outbox]
    /\ UNCHANGED <<vars, doc, intents, draft, work, ingest, serverVars, restVars>>

\* Mutant of StillWaits: only adds are recovered.
StillAdding(i) == doc[i.doc].here /\ doc[i.doc].adding

\* The document still waits for what the intent announced.
StillWaits(i) ==
    /\ doc[i.doc].here
    /\ CASE i.op = "add" -> doc[i.doc].adding
         [] i.op = "update" -> doc[i.doc].prev
         [] i.op = "delete" -> doc[i.doc].deleting

Covered(i) ==
    \E e \in recovery.queued :
        /\ e.doc = i.doc
        /\ e.op = i.op \/ (i.op = "update" /\ e.op = "add")

\* One intent: queue what it announced, or find that there is nothing to queue.
RecoverNext ==
    /\ recovery.phase = "next"
    /\ \E i \in recovery.todo :
          \/ /\ StillWaits(i) /\ ~Covered(i)
             /\ \E c \in Recoveries :
                   /\ Enqueue(c, i.op, i.doc, i.op # "add" /\ doc[i.doc].adding)
                   /\ recovery' = [recovery EXCEPT !.phase = "drop", !.at = i, !.caller = c]
             /\ UNCHANGED intents
          \/ /\ ~StillWaits(i) \/ Covered(i)
             /\ intents' = intents \ {i}
             /\ recovery' = [recovery EXCEPT !.todo = @ \ {i}]
             /\ UNCHANGED vars
    /\ UNCHANGED <<doc, draft, work, ingest, serverVars, restVars>>

\* The write it queued is recorded.
RecoverDrop ==
    /\ recovery.phase = "drop"
    /\ call[recovery.caller].phase \in {"reporting", "waiting"}
    /\ intents' = intents \ {recovery.at}
    /\ recovery' = [recovery EXCEPT !.phase = "next", !.todo = @ \ {recovery.at},
                                    !.at = NoIntent, !.caller = "none"]
    /\ UNCHANGED <<vars, doc, draft, work, ingest, serverVars, restVars>>

\* Then the queue starts.
Recovered ==
    /\ recovery.phase = "start" \/ (recovery.phase = "next" /\ recovery.todo = {})
    /\ Start
    /\ recovery' = [NoRecovery EXCEPT !.phase = "done"]
    /\ UNCHANGED <<doc, intents, draft, work, ingest, serverVars, restVars>>

-----------------------------------------------------------------------------
(* #execute *)

NoWork == [phase |-> "idle", kind |-> "none", sent |-> "none", base |-> 0, tries |-> 0,
           answer |-> "none", version |-> 0, unsent |-> FALSE, status |-> "none",
           pulled |-> Missing, write |-> NoWrite]

Executing == loop = "executing"
Target == head.doc

WorkStep(new) ==
    /\ work' = new
    /\ UNCHANGED <<vars, intents, draft, recovery, ingest, restVars>>

\* Mutant of Request: the server is not told which version the edit was based on.
RequestBlindly(kind, base) ==
    [work EXCEPT !.phase = "request", !.kind = kind, !.sent = doc[Target].val, !.base = 0]

\* The document is read and the request built from it.
Request(kind, base) ==
    [work EXCEPT !.phase = "request", !.kind = kind, !.sent = doc[Target].val, !.base = base]

Over(status) == [NoWork EXCEPT !.phase = "over", !.status = status]

ExecRead ==
    /\ Executing
    /\ work.phase \in {"idle", "again"}
    /\ LET local == doc[Target]
       IN  \/ head.op = "add" /\ local.here /\ WorkStep(Request("post", 0))
           \/ head.op = "add" /\ ~local.here /\ WorkStep(Over("done"))
           \/ head.op = "update" /\ local.prev /\ WorkStep(Request("put", local.version))
           \/ head.op = "update" /\ ~local.prev /\ WorkStep(Over("done"))
           \/ head.op = "delete" /\ WorkStep(Request("del", 0))
    /\ UNCHANGED <<doc, serverVars>>

\* What a versioned datasource does with a request, and what it answers.
Applies(kind, base, s) ==
    CASE kind = "post" -> s.status = "absent"
      [] kind = "put" -> s.status = "live" /\ base \in {0, s.version}
      [] kind = "del" -> s.status = "live"
Reply(kind, base, s) ==
    CASE Applies(kind, base, s) -> "ok"
      [] kind = "post" /\ s.status # "absent" -> "exists"
      [] kind = "put" /\ s.status = "live" /\ base \notin {0, s.version} -> "conflict"
      [] OTHER -> "nothing"    \* no document matched: the answer carries no version

\* The request arrives; its answer may be lost on the way back.
ServerHandles(lost) ==
    /\ Executing
    /\ work.phase = "request"
    /\ LET s == server[Target]
           applies == Applies(work.kind, work.base, s)
           v == IF applies THEN s.version + 1 ELSE s.version
       IN  /\ v <= MaxVersion
           /\ server' = [server EXCEPT ![Target] =
                 [status |-> IF ~applies THEN s.status
                             ELSE IF work.kind = "del" THEN "gone" ELSE "live",
                  val |-> IF applies /\ work.kind # "del" THEN work.sent ELSE s.val,
                  version |-> v]]
           /\ accepted' = IF applies /\ work.kind # "del"
                          THEN accepted \cup ({work.sent} \cap Calls) ELSE accepted
           /\ IF lost
              THEN losses < MaxLost /\ losses' = losses + 1
                   /\ WorkStep([work EXCEPT !.phase = "answered", !.answer = "network"])
              ELSE losses' = losses
                   /\ WorkStep([work EXCEPT !.phase = "answered",
                                            !.answer = Reply(work.kind, work.base, s),
                                            !.version = IF applies THEN v ELSE 0])
    /\ UNCHANGED <<doc, theirs>>

\* The request does not arrive, or the server refuses it.
RequestFails(answer) ==
    /\ Executing
    /\ work.phase \in {"request", "pulling"}
    /\ \/ answer = "network" /\ losses < MaxLost /\ losses' = losses + 1
       \/ answer = "refused" /\ Refusals /\ losses' = losses
    /\ WorkStep([work EXCEPT !.phase = "answered", !.answer = answer])
    /\ UNCHANGED <<doc, server, accepted, theirs>>

Retryable == work.answer = "network"

\* An answered add whose id is taken: a retry goes on as an update.
AddAsUpdate ==
    /\ Executing /\ work.phase = "answered"
    /\ work.kind = "post" /\ work.answer = "exists" /\ head.attempts > 0
    /\ WorkStep([work EXCEPT !.phase = "request", !.kind = "put", !.base = 0])
    /\ UNCHANGED <<doc, serverVars>>

\* Mutant of Conflicts: the last attempt is left to the failure branch, which is
\* not reached before the attempts are used up.
ConflictsFewer ==
    /\ Executing /\ work.phase = "answered" /\ work.answer = "conflict"
    /\ work.tries + 1 < ConflictAttempts
    /\ WorkStep([work EXCEPT !.phase = "pulling", !.tries = @ + 1])
    /\ UNCHANGED <<doc, serverVars>>

\* A version conflict: read the document, rebase, send again.
Conflicts ==
    /\ Executing /\ work.phase = "answered" /\ work.answer = "conflict"
    /\ work.tries < ConflictAttempts
    /\ WorkStep([work EXCEPT !.phase = "pulling", !.tries = @ + 1])
    /\ UNCHANGED <<doc, serverVars>>

PullAnswered ==
    /\ Executing /\ work.phase = "pulling"
    /\ WorkStep([work EXCEPT !.phase = "pulled", !.pulled = server[Target]])
    /\ UNCHANGED <<doc, serverVars>>

\* What a read of that document says; a missing one says nothing.
AsChange(s, kind) == [kind |-> kind, val |-> s.val, version |-> s.version]

PullRead ==
    /\ Executing /\ work.phase = "pulled"
    /\ WorkStep([work EXCEPT !.phase = "rebasing", !.write =
          IF work.pulled.status = "live"
          THEN IngestWrite(AsChange(work.pulled, "modified"), doc[Target]) ELSE NoWrite])
    /\ UNCHANGED <<doc, serverVars>>

PullWrite ==
    /\ Executing /\ work.phase = "rebasing"
    /\ doc' = [doc EXCEPT ![Target] = Ingested(@, work.write)]
    /\ WorkStep([work EXCEPT !.phase = "again", !.pulled = Missing, !.write = NoWrite])
    /\ UNCHANGED serverVars

\* Mutant of ExecFails: the write fails without a word on the document.
ExecFailsSilently ==
    /\ Executing /\ work.phase = "answered"
    /\ work.answer = "refused"
    /\ WorkStep(Over("failed"))
    /\ UNCHANGED <<doc, serverVars>>

\* #failed
ExecFails ==
    /\ Executing /\ work.phase = "answered"
    /\ \/ work.answer = "refused"
       \/ work.answer = "exists" /\ head.attempts = 0
       \/ work.answer = "conflict" /\ work.tries = ConflictAttempts
    /\ LET old == doc[Target]
           flagged == [old EXCEPT !.errors = @ \cup {head.op}]
           failed == CASE head.op = "add" -> [flagged EXCEPT !.adding = FALSE]
                       [] head.op = "update" -> [flagged EXCEPT !.prev = FALSE]
                       [] head.op = "delete" -> [flagged EXCEPT !.deleting = FALSE]
       IN  doc' = [doc EXCEPT ![Target] = Patched(old, failed)]
    /\ WorkStep(Over("failed"))
    /\ UNCHANGED serverVars

\* #confirmAdd, #confirmUpdate: which edits came after the payload was read ...
ConfirmRead ==
    /\ Executing /\ work.phase = "answered"
    /\ work.answer \in {"ok", "nothing"}
    /\ head.op # "delete"
    /\ LET edited == doc[Target].prev /\ doc[Target].val # work.sent
       IN  WorkStep([work EXCEPT !.phase = "confirming", !.unsent = edited,
                                 !.sent = IF edited THEN doc[Target].val ELSE @])
    /\ UNCHANGED <<doc, serverVars>>

\* Mutant of ConfirmWrite: the version is overwritten by an answer without one.
ConfirmWriteForgets ==
    /\ Executing /\ work.phase = "confirming"
    /\ LET old == doc[Target]
       IN  doc' = [doc EXCEPT ![Target] = Patched(old, [old EXCEPT
                      !.prev = work.unsent, !.version = work.version, !.adding = FALSE])]
    /\ WorkStep(Over("done"))
    /\ UNCHANGED serverVars

\* ... and the write that keeps those, as they were read, and clears the rest.
ConfirmWrite ==
    /\ Executing /\ work.phase = "confirming"
    /\ LET old == doc[Target]
           \* The retried add does not unwrap the `{ item }` its update is answered with.
           bare == head.op = "add" /\ work.kind = "put"
           version == IF work.version = 0 \/ bare THEN old.version ELSE work.version
           new == [old EXCEPT !.prev = work.unsent, !.version = version,
                              !.errors = @ \ {head.op},
                              !.adding = IF head.op = "add" THEN FALSE ELSE @,
                              !.val = IF head.op = "add" /\ (work.unsent \/ ~bare)
                                      THEN work.sent ELSE @]
       IN  doc' = [doc EXCEPT ![Target] = Patched(old, new)]
    /\ WorkStep(Over("done"))
    /\ UNCHANGED serverVars

\* #confirmDelete
ConfirmDelete ==
    /\ Executing /\ work.phase = "answered"
    /\ work.answer \in {"ok", "nothing"}
    /\ head.op = "delete"
    /\ doc' = [doc EXCEPT ![Target] = NoDoc]
    /\ WorkStep(Over("done"))
    /\ UNCHANGED serverVars

\* execute() returns to the loop.
ExecReturns ==
    /\ work.phase = "over"
    /\ ExecuteEnds(work.status)
    /\ work' = NoWork
    /\ UNCHANGED <<doc, intents, draft, recovery, ingest, serverVars, restVars>>

\* Mutant of ExecRetries: a lost answer ends the entry.
ExecRetriesNever ==
    /\ Executing /\ work.phase = "answered" /\ Retryable
    /\ ExecuteEnds("retry")
    /\ work' = NoWork
    /\ UNCHANGED <<doc, intents, draft, recovery, ingest, serverVars, restVars>>

ExecRetries ==
    /\ Executing /\ work.phase = "answered" /\ Retryable
    /\ ExecuteRetries
    /\ work' = NoWork
    /\ UNCHANGED <<doc, intents, draft, recovery, ingest, serverVars, restVars>>

-----------------------------------------------------------------------------
(* What other clients do, and what this one is told *)

TheirWrite(d, status) ==
    /\ theirs < MaxTheirs
    /\ server[d].status = "live" /\ server[d].version < MaxVersion
    /\ theirs' = theirs + 1
    /\ server' = [server EXCEPT ![d] = [status |-> status, val |-> "theirs",
                                        version |-> @.version + 1]]
    /\ UNCHANGED <<vars, clientVars, accepted, losses, restVars>>

NoIngest == [phase |-> "idle", doc |-> "none",
             change |-> AsChange(Missing, "none"), write |-> NoWrite]

\* A realtime event or a line of a query result; it says what the server holds.
IngestReceive(d, kind) ==
    /\ ingest.phase = "idle"
    /\ ingests < MaxIngests
    /\ CASE server[d].status = "absent" -> FALSE
         [] server[d].status = "live" -> kind \in {"added", "modified"}
         [] server[d].status = "gone" -> kind \in {"removed", "tombstone"}
    /\ ingests' = ingests + 1
    /\ ingest' = [ingest EXCEPT !.phase = "read", !.doc = d, !.change = AsChange(server[d], kind)]
    /\ UNCHANGED <<vars, doc, intents, draft, work, recovery, serverVars, created>>

IngestRead ==
    /\ ingest.phase = "read"
    /\ ingest' = [ingest EXCEPT !.phase = "write",
                                !.write = IngestWrite(ingest.change, doc[ingest.doc])]
    /\ UNCHANGED <<vars, doc, intents, draft, work, recovery, serverVars, restVars>>

IngestStore ==
    /\ ingest.phase = "write"
    /\ doc' = [doc EXCEPT ![ingest.doc] = Ingested(@, ingest.write)]
    /\ ingest' = NoIngest
    /\ UNCHANGED <<vars, intents, draft, work, recovery, serverVars, restVars>>

ClientCrash ==
    /\ Crash
    /\ draft' = [c \in Calls |-> IF draft[c].phase = "idle" THEN NoDraft
                                 ELSE [NoDraft EXCEPT !.phase = "lost"]]
    /\ work' = NoWork
    /\ recovery' = NoRecovery
    /\ ingest' = NoIngest
    /\ UNCHANGED <<doc, intents, serverVars, restVars>>

-----------------------------------------------------------------------------
ClientInit ==
    /\ Init
    /\ \E known \in SUBSET Docs :
          /\ doc = [d \in Docs |-> IF d \in known THEN Stored("first", 1) ELSE NoDoc]
          /\ server = [d \in Docs |-> IF d \in known
                          THEN [status |-> "live", val |-> "first", version |-> 1] ELSE Missing]
          /\ created = known
    /\ intents = {}
    /\ draft = [c \in Calls |-> NoDraft]
    /\ work = NoWork /\ recovery = NoRecovery /\ ingest = NoIngest
    /\ accepted = {} /\ theirs = 0 /\ ingests = 0 /\ losses = 0

Mutations ==
    \/ \E c \in Calls, op \in Ops, d \in Docs : Intend(c, op, d)
    \/ \E c \in Calls : WriteAdd(c) \/ WriteUpdate(c) \/ ReadForDelete(c) \/ WriteDelete(c)
                        \/ Send(c) \/ DropIntent(c)

Recovering == RecoverQuery \/ RecoverPending \/ RecoverNext \/ RecoverDrop \/ Recovered

Execution ==
    \/ ExecRead \/ AddAsUpdate \/ Conflicts \/ PullAnswered \/ PullRead \/ PullWrite
    \/ ExecFails \/ ConfirmRead \/ ConfirmWrite \/ ConfirmDelete
    \/ ExecReturns \/ ExecRetries
    \/ \E lost \in BOOLEAN : ServerHandles(lost)
    \/ \E answer \in {"network", "refused"} : RequestFails(answer)

Remote ==
    \/ \E d \in Docs, status \in {"live", "gone"} : TheirWrite(d, status)
    \/ \E d \in Docs, kind \in {"added", "modified", "removed", "tombstone"} :
           IngestReceive(d, kind)
    \/ IngestRead \/ IngestStore

\* The queue's own steps.
QueueStep ==
    /\ (\E c \in Calls : CallStep(c)) \/ LoopStep \/ TimerFires
    /\ UNCHANGED <<clientVars, serverVars, restVars>>

ClientNext ==
    \/ Mutations \/ Recovering \/ Execution \/ Remote \/ QueueStep \/ ClientCrash

ClientSpec == ClientInit /\ [][ClientNext]_allVars

-----------------------------------------------------------------------------
(* Properties *)

Versions == 0..MaxVersion

LocalDocs ==
    [here : BOOLEAN, val : Values, prev : BOOLEAN, adding : BOOLEAN,
     deleting : BOOLEAN, errors : SUBSET Ops, version : Versions]
ServerDocs == [status : {"absent", "live", "gone"}, val : Values, version : Versions]
Intents == [id : Calls, op : Ops, doc : Docs]
Writes == [do : {"nothing", "delete", "put", "merge"}, val : Values, version : Versions]
Changes == [kind : {"none", "added", "modified", "removed", "tombstone"},
            val : Values, version : Versions]
Drafts ==
    [phase : {"idle", "intended", "got", "written", "sent", "nothing", "lost"},
     op : Ops \cup {"none"}, doc : Docs \cup {"none"}, adding : BOOLEAN, unsynced : BOOLEAN]
Works ==
    [phase : {"idle", "request", "answered", "pulling", "pulled", "rebasing", "again",
              "confirming", "over"},
     kind : {"none", "post", "put", "del"}, sent : Values, base : Versions, tries : 0..ConflictAttempts,
     answer : {"none", "ok", "exists", "conflict", "nothing", "network", "refused"},
     version : Versions, unsent : BOOLEAN, status : {"none", "done", "failed"},
     pulled : ServerDocs, write : Writes]
Recoverings ==
    [phase : {"query", "start", "pending", "next", "drop", "done"},
     todo : SUBSET Intents, queued : SUBSET Entry, at : Intents \cup {NoIntent},
     caller : Calls \cup {"none"}]
Ingests ==
    [phase : {"idle", "read", "write"}, doc : Docs \cup {"none"},
     change : Changes, write : Writes]

ClientTypeOK ==
    /\ doc \in [Docs -> LocalDocs]
    /\ server \in [Docs -> ServerDocs]
    /\ intents \subseteq Intents
    /\ draft \in [Calls -> Drafts]
    /\ work \in Works
    /\ work.phase = "over" => work.status # "none"
    /\ recovery \in Recoverings
    /\ ingest \in Ingests
    /\ accepted \subseteq Calls
    /\ created \subseteq Docs

\* A document is on its way to the server: queued, being queued, or recoverable.
OnItsWay(d) ==
    \/ \E e \in outbox : e.doc = d
    \/ \E c \in Calls : /\ draft[c].doc = d
                        /\ draft[c].phase \in {"intended", "got", "written"}
    \/ \E c \in Calls : /\ call[c].doc = d
                        /\ call[c].phase \in {"queued", "reading", "dropping", "adding"}
    \/ \E i \in intents : i.doc = d

\* A document created offline is not lost: while it is marked `_adding` it is on
\* its way to the server, whatever crashes between the two storage writes, whatever the
\* network loses, and whatever the user does with it meanwhile.
AddingIsQueued == \A d \in Docs : doc[d].adding => OnItsWay(d)

\* "An update must not overtake the add that creates its document": the server
\* is never asked to update a document that it was not given, unless it refused the
\* add and the document says so, or the user deletes it while the request runs.
AddFirst ==
    work.phase = "request" /\ work.kind = "put" =>
        \/ server[Target].status # "absent"
        \/ "add" \in doc[Target].errors
        \/ ~doc[Target].here

\* The version a stored document claims never goes back while only this client's
\* own answers and conflict reads write it.
VersionsGrow ==
    [][\A d \in Docs : doc[d].here /\ doc'[d].here =>
          doc[d].version <= doc'[d].version]_allVars

\* "The server refuses it if another write got in first, instead of silently
\* overwriting that write": an edit replaces another client's value only when it
\* was sent as based on that value.
NoBlindOverwrite ==
    [][\A d \in Docs : server[d].val = "theirs" /\ server'[d].val # "theirs" =>
          Target = d /\ work.base = server[d].version]_allVars

\* "...the error lands on the document" (client/README.md): a mutation that failed
\* for good, and whose value or deletion the document still shows, is flagged there.
FailedIsFlagged ==
    \A c \in Calls :
        draft[c].phase = "sent" /\ outcome[c] = "failed" =>
            LET d == doc[draft[c].doc]
            IN  IF draft[c].op = "delete" THEN d.here => "delete" \in d.errors
                ELSE d.here /\ d.val = c => d.errors # {}

\* A call that folded into an entry while it was confirmed as failed is told so, but
\* its value goes with a later entry, which clears the error.
SentAfterAll(c) ==
    ~call[c].created /\ (c \in accepted \/ server[draft[c].doc].status = "gone")

\* The same but for such calls, while the client is told nothing but the answers to
\* what it sends: a value shown that failed and that nobody sent is flagged.
FailedIsShown ==
    ingests = 0 =>
        \A c \in Calls :
            draft[c].phase = "sent" /\ outcome[c] = "failed" =>
                LET d == doc[draft[c].doc]
                IN  IF draft[c].op = "delete" THEN d.here => "delete" \in d.errors
                    ELSE d.here /\ d.val = c => d.errors # {} \/ SentAfterAll(c)

\* "Resolve when it is confirmed, fails for good, or gets stuck": an update that
\* resolved as done reached the server, will go with the add of its document, or
\* was replaced on the device.
DoneIsAccepted ==
    \A c \in Calls :
        /\ draft[c].phase = "sent" /\ draft[c].op = "update" /\ outcome[c] = "done"
        /\ doc[draft[c].doc].here /\ doc[draft[c].doc].val = c
        => \/ c \in accepted
           \/ doc[draft[c].doc].adding \/ doc[draft[c].doc].deleting

\* "Fields edited again after the add went out are still unsent: keep them and
\* their `_prev`": a value the server never got is marked as unsent or as failed.
UnsentIsMarked ==
    \A d \in Docs, c \in Calls :
        doc[d].here /\ doc[d].val = c /\ c \notin accepted =>
            doc[d].prev \/ doc[d].adding \/ doc[d].errors # {}

\* "The server never heard of it: dropping the add is the whole delete": once
\* every delete is done the server does not hold the document.
DeletesArrive ==
    \A c \in Calls :
        draft[c].phase = "sent" /\ draft[c].op = "delete" /\ outcome[c] = "done" =>
            \/ server[draft[c].doc].status # "live"
            \/ \E b \in Calls : draft[b].op = "delete" /\ outcome[b] # "done"

\* "Written before a local-first write touches its documents, deleted once the
\* write is queued": a mutation that was not queued yet can be recovered.
IntendedIsRecoverable ==
    \A c \in Calls :
        draft[c].phase \in {"intended", "got", "written"} => \E i \in intents : i.id = c

\* "A retried add cannot duplicate. If the first attempt reached the server but
\* its answer was lost, the retry reuses the id": an add that the server took does
\* not end as refused.
AddErrorMeansRefused ==
    \A d \in Docs : "add" \in doc[d].errors => server[d].status = "absent"

\* "On a retry the client reads that as 'already created' and sends what was
\* edited since as an update": a retried add overwrites another client's value
\* only with an edit made since.
RetrySendsEdits ==
    [][\A d \in Docs :
          /\ server[d].val = "theirs" /\ server'[d].val # "theirs"
          /\ Target = d /\ head.op = "add"
          => doc[d].prev]_allVars

\* "Each field in `_prev` keeps its local value until its write is confirmed":
\* only a mutation changes the value of a document that has unsent edits.
EditsKept ==
    [][\A d \in Docs : doc[d].prev /\ doc'[d].prev /\ doc[d].val # doc'[d].val =>
          \E c \in Calls : draft'[c] # draft[c]]_allVars

\* "A crash exactly between them leaves a pending document with no entry, which
\* is never sent": so a mutation lost before it was queued does not arrive.
LostIsNeverSent ==
    \A c \in Calls : draft[c].phase = "lost" /\ call[c].phase = "new" => c \notin accepted

-----------------------------------------------------------------------------
(* What makes ClientTypeOK inductive, and each step one of the queue *)

\* A mutation that was called names an operation and a document.
DraftInputs ==
    \A c \in Calls : draft[c].phase \notin {"idle", "lost"} =>
        draft[c].op \in Ops /\ draft[c].doc \in Docs

\* What is being executed is an entry.
WorkInputs == Executing => head \in Entry

\* A change that is being ingested is about a document.
IngestInputs == ingest.phase # "idle" => ingest.doc \in Docs

ClientIInv ==
    /\ IInv
    /\ ClientTypeOK
    /\ DraftInputs
    /\ WorkInputs
    /\ IngestInputs

-----------------------------------------------------------------------------
(* Liveness. Every activity gets its turn and every request ends.             *)

ClientFairness ==
    /\ \A c \in Calls : WF_allVars(WriteAdd(c) \/ WriteUpdate(c) \/ ReadForDelete(c)
                                   \/ WriteDelete(c) \/ Send(c))
    /\ \A c \in Calls : WF_allVars(CallStep(c) /\ UNCHANGED <<clientVars, serverVars, restVars>>)
    /\ WF_allVars(LoopStep /\ UNCHANGED <<clientVars, serverVars, restVars>>)
    /\ WF_allVars(TimerFires /\ UNCHANGED <<clientVars, serverVars, restVars>>)
    /\ WF_allVars(Recovering)
    /\ WF_allVars(Execution)

FairClientSpec == ClientSpec /\ ClientFairness

\* A mutation resolves: neither a version conflict nor a delete that crosses an
\* update can keep the promise the application awaits from settling.
MutationsResolve ==
    \A c \in Calls : draft[c].phase = "intended" ~>
        outcome[c] # "none" \/ draft[c].phase \in {"nothing", "lost"}

\* Nothing stays pending unseen: what a document is marked with is confirmed in the
\* end or the document shows an error, in this session or, through the queue or
\* the intent that #recover finds, in the one after a crash.
PendingSettles ==
    \A d \in Docs : doc[d].prev \/ doc[d].adding \/ doc[d].deleting ~>
        \/ doc[d].errors # {}
        \/ ~doc[d].prev /\ ~doc[d].adding /\ ~doc[d].deleting

\* Marks are settled, and under a network that returns the queue empties.
EverythingSettles == PendingSettles /\ QueueDrains
=============================================================================
