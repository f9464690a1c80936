---------------------------- MODULE CommandQueue ----------------------------
(***************************************************************************)
(* The command queue of the control server: the per-device queues, the     *)
(* retained RPC results and the durable journal of keyed operations        *)
(* (internal/control/server.go, requests.go, journal.go).                  *)
(*                                                                         *)
(* Every handler is one critical section under Server.mu, and reads the    *)
(* clock BEFORE it takes the lock: `now` may be older than the `now` of a  *)
(* handler that already ran.  An action therefore takes an instant t that  *)
(* is Captured: any instant of the last Lag ticks of this process.         *)
(* A handler that needs two critical sections (receiveResult) is two       *)
(* actions, with what it remembers in between in `replies`.                *)
(*                                                                         *)
(* Time is counted in half seconds: the journal keeps whole seconds, and   *)
(* one instant inside a second is enough to tell its roundings apart.      *)
(* Every payload has size one, so a byte count is a number of entries.     *)
(***************************************************************************)
EXTENDS Integers, FiniteSets

CONSTANTS
    Devices,     \* configured device ids
    Owners,      \* credentials that submit: the administrator, the operators
    Keys,        \* idempotency keys; {} is a server without a journal
    NoKey,       \* a submission without an idempotency key
    Payloads,    \* what a submission's digest, action and payload tell apart
    Statuses,    \* result statuses a device may report
    MaxPending,  \* max_pending_per_device
    MaxQueued,   \* MaxQueueBytes, all devices together
    MaxResults,  \* results retained per device (50)
    MaxStored,   \* maxResultBytes, all devices together
    MaxRecords,  \* journal max_records
    TTL,         \* command_ttl_seconds, in ticks
    Retention,   \* journal retention_seconds, in ticks
    ResultTTL,   \* 60 seconds in the code, in ticks
    Lag,         \* how old a captured `now` can be, in ticks
    MaxReplies,  \* bound: responses in flight at a time
    MaxId,       \* bound: commands admitted in a behaviour
    MaxClock     \* bound: the last instant

ASSUME TimesAssumption ==
    /\ TTL \in Nat \ {0} /\ Retention \in Nat /\ ResultTTL \in Nat \ {0}
    /\ Retention >= TTL          \* Config.validate refuses anything else
    /\ Lag \in Nat /\ MaxClock \in Nat

ASSUME LimitsAssumption ==
    /\ MaxPending \in Nat \ {0} /\ MaxQueued \in Nat \ {0}
    /\ MaxResults \in Nat \ {0} /\ MaxStored \in Nat \ {0}
    /\ MaxRecords \in Nat \ {0} /\ MaxReplies \in Nat /\ MaxId \in Nat

ASSUME KeysAssumption == NoKey \notin Keys

VARIABLES
    clock,      \* the time of day
    since,      \* no running handler read the clock before this instant
    lastTS,     \* Server.lastTS, as the pair <<ticks, bumps>>
    nextId,     \* the next random command id (fresh by construction)
    queue,      \* every entry of every device.queue
    bytes,      \* Server.bytes
    results,    \* every requestResult of every device.results
    stored,     \* Server.resultBytes
    replies,    \* responses validated outside the lock, not yet stored
    journal,    \* commandJournal.records
    disk,       \* the journal file
    accepted,   \* history: entries appended to a queue
    delivered,  \* history: ids a poll returned to their device
    voided      \* history: ids a restart or a revocation dropped

vars == <<clock, since, lastTS, nextId, queue, bytes, results, stored, replies,
          journal, disk, accepted, delivered, voided>>

history == <<accepted, delivered, voided>>

-----------------------------------------------------------------------------
(* Data                                                                    *)

Ids == 1..MaxId
Time == Nat
Intents == Owners \X Keys        \* journalIndex(owner, key)
Kinds == {"command", "rpc"}      \* enqueue, requests

Entries == [id : Ids, device : Devices, kind : Kinds, owner : Owners,
            key : Keys \cup {NoKey}, expires : Time, ts : Time \X Nat]

Results == [id : Ids, device : Devices, owner : Owners, status : Statuses,
            valid : BOOLEAN, expires : Time]

Replies == [id : Ids, device : Devices, status : Statuses, valid : BOOLEAN]

States == {"pending", "responded", "acknowledged", "unknown"}

NoStatus == "none"

\* An operationRecord; both deadlines are whole seconds.
Records == [id : Ids, device : Devices, payload : Payloads, state : States,
            status : Statuses \cup {NoStatus},
            expiresAt : Nat, commandExpiresAt : Nat]

NoRecord == [id |-> 0]

Journals == [Intents -> Records \cup {NoRecord}]

\* time.Time.Unix and ceilUnix, with two ticks to a second.
Unix(t) == t \div 2
\* Mutant: a journal deadline is rounded down.
FloorUnix(t) == t \div 2
CeilUnix(t) == (t + 1) \div 2

\* The instants a running handler may have read before it took the lock.
Captured == {t \in since..clock : t + Lag >= clock}

Intent(e) == <<e.owner, e.key>>

QueueOf(q, d) == {e \in q : e.device = d}
ResultsOf(r, d) == {x \in r : x.device = d}

\* What Server.expire(t) keeps, of every device.
Alive(q, t) == {e \in q : t < e.expires}
Unexpired(r, t) == {x \in r : t < x.expires}

\* copyRecords: the rows still retained at t.
LiveRows(rows, t) ==
    [i \in Intents |-> IF rows[i] # NoRecord /\ rows[i].expiresAt > Unix(t)
                       THEN rows[i] ELSE NoRecord]

Used(rows) == {i \in Intents : rows[i] # NoRecord}

-----------------------------------------------------------------------------
(* Server.expire, which every handler runs first under the lock, followed  *)
(* by what the handler removes (gone) or appends (new).                    *)

\* Mutant: expiry forgets to give the bytes back.
UpdateQueueLeaky(t, gone, new) ==
    /\ queue' = (Alive(queue, t) \ gone) \cup new
    /\ bytes' = bytes - Cardinality(gone) + Cardinality(new)

UpdateQueue(t, gone, new) ==
    LET kept == Alive(queue, t) \ gone
    IN  /\ queue' = kept \cup new
        /\ bytes' = bytes - Cardinality(queue \ kept) + Cardinality(new)

UpdateResults(t, new) ==
    LET kept == Unexpired(results, t)
    IN  /\ results' = kept \cup new
        /\ stored' = stored - Cardinality(results \ kept) + Cardinality(new)

Expire(t) == UpdateQueue(t, {}, {}) /\ UpdateResults(t, {})

-----------------------------------------------------------------------------
(* commandJournal.save: write a temporary file, rename it over the         *)
(* journal, flush the directory.  It reports success only after the flush; *)
(* a failure may come before or after the rename.                          *)

SaveSucceeds(rows) == disk' = rows

SaveFails(rows) == disk' \in {disk, rows}

\* commandJournal.finish, for the ids of one batch.
\* Mutant: the outcome keeps no result status.
FinishedWithoutStatus(ids, state, status, t) ==
    [i \in Intents |->
        LET v == LiveRows(journal, t)[i]
        IN  IF v.id \in ids THEN [v EXCEPT !.state = state] ELSE v]

Finished(ids, state, status, t) ==
    [i \in Intents |->
        LET v == LiveRows(journal, t)[i]
        IN  IF v.id \in ids THEN [v EXCEPT !.state = state, !.status = status]
                            ELSE v]

FinishChanges(ids, t) == \E i \in Intents : LiveRows(journal, t)[i].id \in ids

FinishSucceeds(ids, state, status, t) ==
    IF FinishChanges(ids, t)
    THEN /\ SaveSucceeds(Finished(ids, state, status, t))
         /\ journal' = Finished(ids, state, status, t)
    ELSE UNCHANGED <<journal, disk>>

\* Mutant: the rows are published although the save failed.
FinishFailsPublished(ids, state, status, t) ==
    /\ FinishChanges(ids, t)
    /\ SaveFails(Finished(ids, state, status, t))
    /\ journal' = Finished(ids, state, status, t)

FinishFails(ids, state, status, t) ==
    /\ FinishChanges(ids, t)
    /\ SaveFails(Finished(ids, state, status, t))
    /\ UNCHANGED journal

-----------------------------------------------------------------------------
(* Submission: POST commands (Server.enqueue) and POST /api/requests       *)
(* (Server.requests).                                                      *)

\* Mutant: a duplicate is refused when the queue is full.
HasOperationNever(o, k, t) == FALSE

HasOperation(o, k, t) ==
    /\ k # NoKey
    /\ LiveRows(journal, t)[<<o, k>>] # NoRecord

Full(d, kind, t) ==
    LET q == Alive(queue, t)
        r == Unexpired(results, t)
    IN  \/ Cardinality(QueueOf(q, d)) >= MaxPending
        \/ bytes - Cardinality(queue \ q) + 1 > MaxQueued
        \/ kind = "rpc" /\ Cardinality(ResultsOf(r, d)) >= MaxResults

\* The answer to one submission: 429, a retained duplicate, 409, 503 for a full
\* journal, or admission.  A duplicate consumes no capacity, so it is let past
\* the first check.
Answer(d, kind, o, k, p, t) ==
    LET rows == LiveRows(journal, t)
        prior == IF k = NoKey THEN NoRecord ELSE rows[<<o, k>>]
    IN  IF Full(d, kind, t) /\ ~HasOperation(o, k, t) THEN "busy"
        ELSE IF prior # NoRecord
             THEN IF prior.device = d /\ prior.payload = p THEN "retained"
                                                           ELSE "conflict"
        ELSE IF k # NoKey /\ Cardinality(Used(rows)) >= MaxRecords
             THEN "journal full"
        ELSE "admitted"

\* `ts` never repeats and never goes back: it is bumped past the last one.
\* Mutant: the timestamp is not bumped past the last one.
NextTSPlain(t) == <<t, 0>>

NextTS(t) == IF t > lastTS[1] THEN <<t, 0>> ELSE <<lastTS[1], lastTS[2] + 1>>

NewEntry(d, kind, o, k, t) ==
    [id |-> nextId, device |-> d, kind |-> kind, owner |-> o, key |-> k,
     expires |-> t + TTL, ts |-> IF kind = "command" THEN NextTS(t) ELSE <<0, 0>>]

\* commandJournal.begin writes the operation as pending before it is queued.
Begun(d, o, k, p, t) ==
    [LiveRows(journal, t) EXCEPT ![<<o, k>>] =
        [id |-> nextId, device |-> d, payload |-> p, state |-> "pending",
         status |-> NoStatus, expiresAt |-> CeilUnix(t + Retention),
         commandExpiresAt |-> CeilUnix(t + TTL)]]

Admit(d, kind, o, k, p, t) ==
    /\ nextId \in Ids
    /\ Answer(d, kind, o, k, p, t) = "admitted"
    /\ LET e == NewEntry(d, kind, o, k, t)
       IN  /\ UpdateQueue(t, {}, {e})
           /\ UpdateResults(t, {})
           /\ accepted' = accepted \cup {e}
           /\ lastTS' = IF kind = "command" THEN e.ts ELSE lastTS
    /\ IF k = NoKey THEN UNCHANGED <<journal, disk>>
                    ELSE /\ SaveSucceeds(Begun(d, o, k, p, t))
                         /\ journal' = Begun(d, o, k, p, t)
    /\ nextId' = nextId + 1
    /\ UNCHANGED <<clock, since, replies, delivered, voided>>

\* The journal could not be saved: 503, and the command is not queued.
AdmitFails(d, kind, o, k, p, t) ==
    /\ nextId \in Ids
    /\ k # NoKey
    /\ Answer(d, kind, o, k, p, t) = "admitted"
    /\ SaveFails(Begun(d, o, k, p, t))
    /\ Expire(t)
    /\ nextId' = nextId + 1
    /\ UNCHANGED <<clock, since, lastTS, replies, journal, history>>

Submit(d, kind, o, k, p, t) ==
    Admit(d, kind, o, k, p, t) \/ AdmitFails(d, kind, o, k, p, t)

-----------------------------------------------------------------------------
(* Handlers that only expire: a submission refused or answered from the    *)
(* journal, a receipt read, the device list.                               *)

ReadOnly(t) ==
    /\ Expire(t)
    /\ UNCHANGED <<clock, since, lastTS, nextId, replies, journal, disk,
                   history>>

-----------------------------------------------------------------------------
(* Delivery: GET commands (Server.poll) and POST acknowledgements          *)
(* (Server.ack).                                                           *)

\* Acknowledged delivery returns commands and requests and keeps both.
PollAck(d, t) ==
    /\ Expire(t)
    /\ delivered' = delivered \cup {e.id : e \in QueueOf(Alive(queue, t), d)}
    /\ UNCHANGED <<clock, since, lastTS, nextId, replies, journal, disk,
                   accepted, voided>>

\* Legacy delivery drains the commands it returns and ignores requests.
PollLegacy(d, t) ==
    LET drained == {e \in QueueOf(Alive(queue, t), d) : e.kind = "command"}
    IN  /\ UpdateQueue(t, drained, {})
        /\ UpdateResults(t, {})
        /\ delivered' = delivered \cup {e.id : e \in drained}
        /\ UNCHANGED <<clock, since, lastTS, nextId, replies, journal, disk,
                       accepted, voided>>

\* The queue entries an acknowledgement of `ids` closes.
\* Mutant: an acknowledgement also closes a request.
AcknowledgedAny(d, ids, t) ==
    {e \in QueueOf(Alive(queue, t), d) : e.id \in ids}

\* Mutant: expired entries can still be acknowledged.
AcknowledgedLate(d, ids, t) ==
    {e \in QueueOf(queue, d) : e.kind = "command" /\ e.id \in ids}

Acknowledged(d, ids, t) ==
    {e \in QueueOf(Alive(queue, t), d) : e.kind = "command" /\ e.id \in ids}

IdsOf(es) == {e.id : e \in es}

Ack(d, ids, t) ==
    LET gone == Acknowledged(d, ids, t)
    IN  /\ FinishSucceeds(IdsOf(gone), "acknowledged", NoStatus, t)
        /\ UpdateQueue(t, gone, {})
        /\ UpdateResults(t, {})
        /\ UNCHANGED <<clock, since, lastTS, nextId, replies, history>>

\* The outcome could not be retained: 503, and the batch stays queued.
AckFails(d, ids, t) ==
    /\ FinishFails(IdsOf(Acknowledged(d, ids, t)), "acknowledged", NoStatus, t)
    /\ Expire(t)
    /\ UNCHANGED <<clock, since, lastTS, nextId, replies, history>>

-----------------------------------------------------------------------------
(* POST /api/responses (Server.receiveResult), in two critical sections.   *)

\* First: find what the reply must be validated against, the pending request
\* or, for a repeated reply, the retained result.
\* Mutant: only a retained result is looked up.
BoundToResult(d, id) == \E x \in ResultsOf(results, d) : x.id = id

Bound(d, id) ==
    \/ \E e \in QueueOf(queue, d) : e.kind = "rpc" /\ e.id = id
    \/ \E x \in ResultsOf(results, d) : x.id = id

\* An invalid reply to a bound request is refused (400) and forgotten; a reply
\* nothing is bound to is not validated at all.
BindReply(d, id, status, valid) ==
    /\ Cardinality(replies) < MaxReplies
    /\ Bound(d, id) => valid
    /\ replies' = replies \cup
         {[id |-> id, device |-> d, status |-> status, valid |-> valid]}
    /\ UNCHANGED <<clock, since, lastTS, nextId, queue, bytes, results, stored,
                   journal, disk, history>>

Awaiting(r, t) ==
    {e \in QueueOf(Alive(queue, t), r.device) : e.kind = "rpc" /\ e.id = r.id}

Recorded(r, t) == \E x \in ResultsOf(Unexpired(results, t), r.device) : x.id = r.id

StorageFull(r, t) ==
    LET kept == Unexpired(results, t)
    IN  \/ stored - Cardinality(results \ kept) + 1 > MaxStored
        \/ Cardinality(ResultsOf(kept, r.device)) >= MaxResults

\* Second: the request is still pending, so its result is retained.
\* Mutant: the answered request stays in the queue.
StoreReplyKeepsEntry(r, t) ==
    /\ ~Recorded(r, t) /\ ~StorageFull(r, t)
    /\ \E e \in Awaiting(r, t) :
         /\ FinishSucceeds({r.id}, "responded", r.status, t)
         /\ UpdateResults(t, {[id |-> r.id, device |-> r.device,
                               owner |-> e.owner, status |-> r.status,
                               valid |-> r.valid, expires |-> t + ResultTTL]})
         /\ UpdateQueue(t, {}, {})
    /\ replies' = replies \ {r}
    /\ UNCHANGED <<clock, since, lastTS, nextId, history>>

StoreReply(r, t) ==
    /\ ~Recorded(r, t) /\ ~StorageFull(r, t)
    /\ \E e \in Awaiting(r, t) :
         /\ FinishSucceeds({r.id}, "responded", r.status, t)
         /\ UpdateResults(t, {[id |-> r.id, device |-> r.device,
                               owner |-> e.owner, status |-> r.status,
                               valid |-> r.valid, expires |-> t + ResultTTL]})
         /\ UpdateQueue(t, {e}, {})
    /\ replies' = replies \ {r}
    /\ UNCHANGED <<clock, since, lastTS, nextId, history>>

\* 503: neither the result nor the queue changes, and the device may retry.
StoreReplyFails(r, t) ==
    /\ ~Recorded(r, t) /\ ~StorageFull(r, t)
    /\ Awaiting(r, t) # {}
    /\ FinishFails({r.id}, "responded", r.status, t)
    /\ Expire(t)
    /\ replies' = replies \ {r}
    /\ UNCHANGED <<clock, since, lastTS, nextId, history>>

\* 200 for a duplicate, 429 for full storage, 404 for a request that is gone.
DropReply(r, t) ==
    /\ Recorded(r, t) \/ Awaiting(r, t) = {} \/ StorageFull(r, t)
    /\ Expire(t)
    /\ replies' = replies \ {r}
    /\ UNCHANGED <<clock, since, lastTS, nextId, journal, disk, history>>

-----------------------------------------------------------------------------
(* The registry revokes a device or replaces its credential                *)
(* (Server.publishRegistry): it waits for running requests, then drops the *)
(* device's queue and results without touching the journal.                *)

Revoke(d) ==
    /\ replies = {}          \* registryGate.Lock: no request is running
    /\ since' = clock
    /\ queue' = queue \ QueueOf(queue, d)
    /\ bytes' = bytes - Cardinality(QueueOf(queue, d))
    /\ results' = results \ ResultsOf(results, d)
    /\ stored' = stored - Cardinality(ResultsOf(results, d))
    /\ voided' = voided \cup IdsOf(QueueOf(queue, d))
                        \cup {x.id : x \in ResultsOf(results, d)}
    /\ UNCHANGED <<clock, lastTS, nextId, replies, journal, disk,
                   accepted, delivered>>

-----------------------------------------------------------------------------
(* The process stops at any instant and starts again: nothing but the      *)
(* journal file survives.  newCommandJournal drops expired rows, marks the *)
(* pending ones unknown and saves.  A save that fails is a start that      *)
(* fails, followed by another.                                             *)

\* Mutant: a restart marks every operation unknown, the finished ones too.
RecoveredUnknown ==
    [i \in Intents |->
        LET v == LiveRows(disk, clock)[i]
        IN  IF v # NoRecord THEN [v EXCEPT !.state = "unknown"] ELSE v]

Recovered ==
    [i \in Intents |->
        LET v == LiveRows(disk, clock)[i]
        IN  IF v # NoRecord /\ v.state = "pending"
            THEN [v EXCEPT !.state = "unknown"] ELSE v]

Restart ==
    /\ Cardinality(Used(Recovered)) <= MaxRecords
    /\ journal' = Recovered
    /\ SaveSucceeds(Recovered)
    /\ queue' = {} /\ bytes' = 0
    /\ results' = {} /\ stored' = 0
    /\ replies' = {}
    /\ lastTS' = <<0, 0>>
    /\ since' = clock
    /\ voided' = voided \cup IdsOf(queue) \cup {x.id : x \in results}
    /\ UNCHANGED <<clock, nextId, accepted, delivered>>

Tick ==
    /\ clock < MaxClock
    /\ clock' = clock + 1
    /\ UNCHANGED <<since, lastTS, nextId, queue, bytes, results, stored, replies,
                   journal, disk, history>>

-----------------------------------------------------------------------------
Init ==
    /\ clock = 1 /\ since = 1
    /\ lastTS = <<0, 0>>
    /\ nextId = 1
    /\ queue = {} /\ bytes = 0
    /\ results = {} /\ stored = 0
    /\ replies = {}
    /\ journal = [i \in Intents |-> NoRecord]
    /\ disk = [i \in Intents |-> NoRecord]
    /\ accepted = {} /\ delivered = {} /\ voided = {}

\* A device knows only the ids that a poll returned to it.
Knows(d) == {e.id : e \in {a \in accepted : a.device = d}} \cap delivered

Device(d, t) ==
    \/ PollAck(d, t)
    \/ PollLegacy(d, t)
    \/ \E ids \in SUBSET Knows(d) : Ack(d, ids, t) \/ AckFails(d, ids, t)
    \/ \E id \in Knows(d), status \in Statuses, valid \in BOOLEAN :
          BindReply(d, id, status, valid)

Respond(t) ==
    \E r \in replies : StoreReply(r, t) \/ StoreReplyFails(r, t) \/ DropReply(r, t)

Next ==
    \/ \E t \in Captured :
         \/ \E d \in Devices, kind \in Kinds, o \in Owners,
               k \in Keys \cup {NoKey}, p \in Payloads : Submit(d, kind, o, k, p, t)
         \/ \E d \in Devices : Device(d, t)
         \/ Respond(t)
         \/ ReadOnly(t)
    \/ \E d \in Devices : Revoke(d)
    \/ Restart
    \/ Tick

Spec == Init /\ [][Next]_vars

-----------------------------------------------------------------------------
(* Properties                                                              *)

TypeOK ==
    /\ clock \in Time /\ since \in Time /\ since <= clock
    /\ lastTS \in Time \X Nat
    /\ nextId \in 1..(MaxId + 1)
    /\ queue \subseteq Entries /\ IsFiniteSet(queue) /\ bytes \in Int
    /\ results \subseteq Results /\ IsFiniteSet(results) /\ stored \in Int
    /\ replies \subseteq Replies
    /\ journal \in Journals /\ disk \in Journals
    /\ accepted \subseteq Entries
    /\ delivered \subseteq Ids /\ voided \subseteq Ids

\* The byte counters are what the queues and the results hold: every removal,
\* by expiry, delivery, acknowledgement, answer or revocation, is paid back.
Accounted ==
    /\ bytes = Cardinality(queue)
    /\ stored = Cardinality(results)

\* No queue, result store or journal passes its limit, although a duplicate
\* of a retained operation is let past the capacity check (hasOperation).
WithinLimits ==
    /\ \A d \in Devices : /\ Cardinality(QueueOf(queue, d)) <= MaxPending
                          /\ Cardinality(ResultsOf(results, d)) <= MaxResults
    /\ Cardinality(queue) <= MaxQueued
    /\ Cardinality(results) <= MaxStored
    /\ Cardinality(Used(journal)) <= MaxRecords
    /\ Cardinality(Used(disk)) <= MaxRecords

\* A request is pending or answered, never both, and has one result: a late or
\* repeated response cannot answer it twice.
AnsweredOnce ==
    /\ \A e \in queue, x \in results : e.id # x.id
    /\ \A x, y \in results : x.id = y.id => x = y

\* A keyed command can be delivered only while the journal holds its operation,
\* as pending: the record is not pruned before the entry expires, and no outcome
\* is recorded for a command that stays deliverable.
QueuedIsPending ==
    \A e \in queue : e.key # NoKey =>
        /\ journal[Intent(e)].id = e.id
        /\ journal[Intent(e)].state = "pending"

\* While the operation's retention runs, a submission with its owner and key is
\* answered from the journal, even when every queue is full and across restarts
\* and failed saves: it is never admitted again and never turned away.
RetryAnswered ==
    \A a \in accepted :
        a.key # NoKey /\ Unix(clock) < CeilUnix(a.expires - TTL + Retention) =>
            \A t \in Captured, d \in Devices, kind \in Kinds, p \in Payloads :
                Answer(d, kind, a.owner, a.key, p, t) \in {"retained", "conflict"}

\* A result is retained only if it was validated against its own request.
OnlyValidated == \A x \in results : x.valid

\* The journal and the receipt agree on the outcome of a keyed request.
ReceiptMatchesJournal ==
    \A x \in results, i \in Intents : journal[i].id = x.id =>
        journal[i].state = "responded" /\ journal[i].status = x.status

\* Commands are delivered with timestamps in the order they were accepted, even
\* when handlers take the lock in another order than they read the clock.
TimestampsOrdered ==
    \A e, f \in queue :
        e.kind = "command" /\ f.kind = "command" /\ e.id < f.id =>
            \/ e.ts[1] < f.ts[1]
            \/ e.ts[1] = f.ts[1] /\ e.ts[2] < f.ts[2]

\* An entry leaves a queue for a reason: its deadline, its delivery (a command),
\* its stored answer (a request), or the loss of the device or the process.
LeavesForAReason ==
    [][\A e \in queue \ queue' :
         \/ e.expires <= clock
         \/ e.kind = "command" /\ e.id \in delivered'
         \/ e.kind = "rpc" /\ \E x \in results' : x.id = e.id
         \/ e.id \in voided']_vars

\* An outcome is recorded after a command's deadline only by a handler that read
\* the clock before it: an expired command is not acknowledged or answered.  (A
\* restart may bring back the outcome of a save that failed after its rename, of
\* a command it drops.)
NoLateOutcome ==
    [][\A e \in queue :
         /\ e.key # NoKey /\ e.id \notin voided'
         /\ journal'[Intent(e)].id = e.id
         /\ journal'[Intent(e)].state \in {"acknowledged", "responded"}
         => clock < e.expires + Lag]_vars

\* While an operation is retained no restart forgets it: its record is
\* replaced or dropped only after its retention.
NeverForgotten ==
    [][\A i \in Intents :
         journal[i] # NoRecord /\ journal'[i].id # journal[i].id
         => journal[i].expiresAt <= Unix(clock)]_vars

\* Every entry that is accepted has one end, in its turn: it keeps its place and
\* its byte until it leaves for a reason, and has at most one validated result.
SafeDelivery ==
    /\ []Accounted /\ []AnsweredOnce /\ []OnlyValidated /\ []TimestampsOrdered
    /\ LeavesForAReason

\* What was once accepted under a key stays the answer to that key, within every
\* limit and across restarts and failed saves, and is never settled late.
JournalAnswers ==
    []WithinLimits /\ []RetryAnswered /\ NoLateOutcome /\ NeverForgotten

\* Queue, receipts and journal tell the same story of a keyed operation.
JournalAgrees == QueuedIsPending /\ ReceiptMatchesJournal
-----------------------------------------------------------------------------
(* The queue and its journal implement the ledger of operations.           *)

KeyedIds(entries) == {e.id : e \in {a \in entries : a.key # NoKey}}

Ledger == INSTANCE OperationLedger WITH
    Vacant <- NoRecord,
    ledger <- [i \in Intents |->
                 IF journal[i] = NoRecord THEN NoRecord
                 ELSE [id |-> journal[i].id, state |-> journal[i].state]],
    open <- KeyedIds(queue),
    issued <- KeyedIds(accepted)

\* Every step of the handlers, of a failed save and of a restart is a step that
\* the ledger allows, or none: at most one admission per intent, final outcomes,
\* nothing reopened after a crash.
ImplementsLedger == Ledger!Spec
=============================================================================
