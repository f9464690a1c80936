-------------------------- MODULE FavoritesReplace --------------------------
(***************************************************************************)
(* Replacing the favorites of a player from the command line, and what is  *)
(* known of a replacement whose answer was lost (cli/favorites_remote.py,  *)
(* favorites_commands.py, favorites_operations.py, favorites_protocol.py). *)
(*                                                                         *)
(* A run is one process of the command line.  It stages a document on the  *)
(* player, writes a private recovery record, commits, and after a lost     *)
(* answer only asks for the status.  Later runs read the record again.     *)
(* A request can be lost, and one that was given up can still be executed: *)
(* net holds the requests that the player may yet execute.                 *)
(*                                                                         *)
(* The player is modelled from how the command line uses it: one stage in  *)
(* memory, a persistent ledger of commits, a revision that each request    *)
(* names, and a runtime identity that a restart replaces.  Documents,      *)
(* chunks and digests are left out; a deadline may pass at any wait.       *)
(***************************************************************************)
EXTENDS Naturals, FiniteSets

CONSTANTS
    Run, Op,       \* processes of the command line; operations a player mints
    NoOp,
    MaxRecords,    \* recovery records a directory holds (MAX_RECORDS)
    MaxRuntime,    \* bounds of the model: restarts of the player,
    MaxRevision,   \*   changes of its favorites,
    MaxOutages     \*   power losses of the host

FavoritesAssumption ==
    /\ NoOp \notin Op
    /\ MaxRecords \in Nat \ {0}
    /\ MaxRuntime \in Nat /\ MaxRevision \in Nat /\ MaxOutages \in Nat

VARIABLES
    \* the player
    runtime, revision,
    fate,        \* what the player knows of each operation
    written,     \* how much of the document it stored
    born,        \* the runtime that minted it
    ledger,      \* revision of the ledger of commits
    audit,       \* ledger revision at which it was acknowledged, or 0
    \* requests the player may execute, and its answers
    net, reply,
    \* the runs
    goal, pc, op, rt,
    seen,        \* revision of the snapshot the plan was made from
    plan,        \* ledger revision of the inspected record
    late,        \* the thread that stores the record outlived its wait
    outcome,     \* what the run reports
    \* the host
    confirmed,   \* plans a user has been shown: operation and ledger revision
    file, disk,  \* recovery records: as read now, and after a power loss
    intent, intentDisk,
    outages

player == <<runtime, revision, fate, written, born, ledger, audit>>
runs == <<goal, pc, op, rt, seen, plan, late, outcome>>
records == <<file, disk>>
intents == <<confirmed, intent, intentDisk>>
vars == <<player, net, reply, runs, records, intents, outages>>

Goals == {"none", "replace", "preview", "status", "acknowledge"}
Requests == {"prepare", "begin", "preview", "abort", "commit", "acknowledge"}
Settled == {"verified", "partial", "unknown", "not_applied"}
Open == {"granted", "receiving", "ready"}
Fates == {"none", "lost", "aborted", "expired", "pending"} \cup Open \cup Settled
Controls == {"start", "found", "planned", "save", "reconcile", "complete", "intent",
             "done"} \cup Requests
Outcomes == Settled \cup {"none", "acknowledged"}

\* RecoveryPeer.list: a commit whose effect is not proved.
Unresolved(o) == fate[o] \in {"pending", "partial", "unknown"}
Acknowledgeable(o) == Unresolved(o) /\ audit[o] = 0

TypeOK ==
    /\ runtime \in Nat /\ revision \in Nat /\ ledger \in Nat \ {0}
    /\ fate \in [Op -> Fates] /\ written \in [Op -> {"none", "some", "all"}]
    /\ born \in [Op -> Nat] /\ audit \in [Op -> Nat]
    /\ net \subseteq Run \X Requests
    /\ reply \in [Run -> Outcomes \cup {"ok", "blocked", "rejected"}]
    /\ goal \in [Run -> Goals] /\ pc \in [Run -> Controls]
    /\ op \in [Run -> Op \cup {NoOp}] /\ rt \in [Run -> Nat]
    /\ seen \in [Run -> Nat] /\ plan \in [Run -> Nat]
    /\ late \in [Run -> BOOLEAN] /\ outcome \in [Run -> Outcomes]
    /\ file \in [Op -> {"none", "bare", "proved"}]
    /\ disk \in [Op -> {"none", "bare", "proved"}]
    /\ confirmed \subseteq Op \X Nat /\ intent \subseteq Op \X Nat
    /\ intentDisk \subseteq Op \X Nat /\ outages \in Nat

Init ==
    /\ runtime = 1 /\ revision = 1 /\ ledger = 1
    /\ fate = [o \in Op |-> "none"] /\ written = [o \in Op |-> "none"]
    /\ born = [o \in Op |-> 0] /\ audit = [o \in Op |-> 0]
    /\ net = {} /\ reply = [r \in Run |-> "none"]
    /\ goal = [r \in Run |-> "none"] /\ pc = [r \in Run |-> "start"]
    /\ op = [r \in Run |-> NoOp] /\ rt = [r \in Run |-> 0]
    /\ seen = [r \in Run |-> 0] /\ plan = [r \in Run |-> 0]
    /\ late = [r \in Run |-> FALSE] /\ outcome = [r \in Run |-> "none"]
    /\ confirmed = {} /\ intent = {} /\ intentDisk = {}
    /\ file = [o \in Op |-> "none"] /\ disk = [o \in Op |-> "none"]
    /\ outages = 0

-----------------------------------------------------------------------------
(* Control of a run                                                        *)

Go(r, p) == pc' = [pc EXCEPT ![r] = p]

\* _rpc: one request, enqueued once, whose answer is then awaited.
Post(r, k) ==
    /\ Go(r, k)
    /\ net' = net \cup {<<r, k>>}
    /\ reply' = [reply EXCEPT ![r] = "none"]

\* What a run reports of its operation.  A verified one is marked completed.
Report(r, v) ==
    /\ outcome' = [outcome EXCEPT ![r] = v]
    /\ Go(r, IF v = "verified" THEN "complete" ELSE "done")

\* A stage that ends before its commit: the transaction is aborted when its
\* identity is known, which the answer of begin gives.
NotApplied(r) ==
    /\ outcome' = [outcome EXCEPT ![r] = "not_applied"]
    /\ \/ /\ pc[r] \in {"prepare", "begin"}
          /\ Go(r, "done") /\ UNCHANGED <<net, reply>>
       \/ /\ pc[r] \in {"preview", "save"} \/ (pc[r] = "begin" /\ reply[r] = "ok")
          /\ Post(r, "abort")

-----------------------------------------------------------------------------
(* Before anything is staged                                               *)

\* A process starts; status and acknowledge name an operation, and status needs
\* its record.
Invoke(r, g, o) ==
    /\ goal[r] = "none" /\ pc[r] = "start"
    /\ \/ g \in {"replace", "preview"} /\ o = NoOp
       \/ g = "status" /\ o \in Op /\ file[o] # "none"
       \/ g = "acknowledge" /\ o \in Op /\ fate[o] # "none"
    /\ goal' = [goal EXCEPT ![r] = g]
    /\ op' = [op EXCEPT ![r] = o]
    /\ UNCHANGED <<player, net, reply, pc, rt, seen, plan, late, outcome, records, intents,
                   outages>>

\* read_capabilities, discover.
Discover(r) ==
    /\ goal[r] # "none" /\ pc[r] = "start"
    /\ rt' = [rt EXCEPT ![r] = runtime]
    /\ Go(r, CASE goal[r] = "status"      -> "reconcile"
               [] goal[r] = "acknowledge" -> "intent"
               [] OTHER                   -> "found")
    /\ UNCHANGED <<player, net, reply, goal, op, seen, plan, late, outcome, records, intents,
                   outages>>

\* The snapshot the new document is planned from.
Snapshot(r) ==
    /\ pc[r] = "found" /\ rt[r] = runtime
    /\ seen' = [seen EXCEPT ![r] = revision]
    /\ Go(r, "planned")
    /\ UNCHANGED <<player, net, reply, goal, op, rt, plan, late, outcome, records, intents,
                   outages>>

\* require_recovery: no commit of the player waits for an acknowledgement.
Recovered == \A o \in Op : ~Acknowledgeable(o)

\* _preflight and the first request of _stage.
Stage(r) ==
    /\ pc[r] = "planned" /\ rt[r] = runtime
    /\ Recovered
    /\ Post(r, "prepare")
    /\ UNCHANGED <<player, goal, op, rt, seen, plan, late, outcome, records, intents, outages>>

\* An invalid argument, document or answer, a limit or a lost read, before the
\* first request that changes the player; or nothing to change.
Refuse(r) ==
    /\ goal[r] # "none" /\ pc[r] \in {"start", "found", "planned"}
    /\ Go(r, "done")
    /\ UNCHANGED <<player, net, reply, goal, op, rt, seen, plan, late, outcome, records, intents,
                   outages>>

-----------------------------------------------------------------------------
(* Staging, and the commit                                                 *)

\* The answers of prepare, begin and preview, each followed by the next request.
\* The chunks are part of the preview's request.
Staged(r) ==
    /\ reply[r] = "ok" /\ pc[r] \in {"prepare", "begin"}
    /\ Post(r, IF pc[r] = "prepare" THEN "begin" ELSE "preview")
    /\ UNCHANGED <<player, goal, op, rt, seen, plan, late, outcome, records, intents, outages>>

\* A ready preview of a replacement is committed once its record is stored.
Previewed(r) ==
    /\ reply[r] = "ok" /\ pc[r] = "preview" /\ goal[r] = "replace"
    /\ Go(r, "save")
    /\ UNCHANGED <<player, net, reply, goal, op, rt, seen, plan, late, outcome, records, intents,
                   outages>>

\* An answer that rejects, an invalid one, or none in time; and the end of a
\* preview, blocked or not, that was asked for its own sake.
StageFails(r) ==
    /\ pc[r] \in {"prepare", "begin", "preview"}
    /\ NotApplied(r)
    /\ UNCHANGED <<player, goal, op, rt, seen, plan, late, records, intents, outages>>

\* An abort's answer only says how the clean-up went.
Aborted(r) ==
    /\ pc[r] = "abort"
    /\ Go(r, "done")
    /\ UNCHANGED <<player, net, reply, goal, op, rt, seen, plan, late, outcome, records, intents,
                   outages>>

-----------------------------------------------------------------------------
(* The recovery records: one file per operation, written under a lock      *)

Count(f) == Cardinality({o \in Op : f[o] # "none"})

\* Mutant: an unproved record is evicted.
ReclaimedOldest(o) ==
    {f \in [Op -> {"none", "bare", "proved"}] :
        /\ \A p \in Op : f[p] = file[p] \/ f[p] = "none"
        /\ IF file[o] # "none" \/ Count(file) < MaxRecords
           THEN f = file ELSE Count(f) = MaxRecords - 1}

\* _inventory: the files left when enough completed records, and no others, have
\* been evicted to hold one more.
Reclaimed(o) ==
    {f \in [Op -> {"none", "bare", "proved"}] :
        /\ \A p \in Op : f[p] = file[p] \/ (file[p] = "proved" /\ f[p] = "none")
        /\ IF file[o] # "none" \/ Count(file) < MaxRecords
           THEN f = file ELSE Count(f) = MaxRecords - 1}

\* write_new or replace, then the sync of the directory.
Stored(f) == file' = f /\ disk' = f

\* The record of o: already there, or new.
WithRecord(f, o) == [f EXCEPT ![o] = IF @ = "none" THEN "bare" ELSE @]

\* ContextStore.save fails: before a change, after evicting, or after the write.
SaveError(o) ==
    \/ UNCHANGED records
    \/ \E f \in Reclaimed(o) :
          /\ file' \in {f, WithRecord(f, o)}
          /\ disk' \in {disk, f}

\* _save: the commit is sent when the record is stored, in time.
Save(r) ==
    /\ pc[r] = "save" /\ ~late[r]
    /\ \E f \in Reclaimed(op[r]) : Stored(WithRecord(f, op[r]))
    /\ Post(r, "commit")
    /\ UNCHANGED <<player, goal, op, rt, seen, plan, late, outcome, intents, outages>>

SaveFails(r) ==
    /\ pc[r] = "save" /\ ~late[r]
    /\ SaveError(op[r])
    /\ NotApplied(r)
    /\ UNCHANGED <<player, goal, op, rt, seen, plan, late, intents, outages>>

\* The wait ends before the thread that stores the record does.
SaveTimesOut(r) ==
    /\ pc[r] = "save" /\ ~late[r]
    /\ late' = [late EXCEPT ![r] = TRUE]
    /\ NotApplied(r)
    /\ UNCHANGED <<player, goal, op, rt, seen, plan, records, intents, outages>>

\* It may still store it while the process lasts, and sends nothing.
LateSave(r) ==
    /\ late[r] /\ pc[r] # "done"
    /\ \/ \E f \in Reclaimed(op[r]) : Stored(WithRecord(f, op[r]))
       \/ SaveError(op[r])
    /\ late' = [late EXCEPT ![r] = FALSE]
    /\ UNCHANGED <<player, net, reply, goal, pc, op, rt, seen, plan, outcome, intents, outages>>

\* mark_completed: only the proof of the runtime that the operation belongs to
\* is evidence that lets the record go.  It may fail before or after its rename.
Complete(r) ==
    /\ pc[r] = "complete"
    /\ \/ UNCHANGED records
       \/ /\ file[op[r]] # "none" /\ rt[r] = born[op[r]]
          /\ file' = [file EXCEPT ![op[r]] = "proved"]
          /\ disk' \in {disk, file'}
    /\ Go(r, "done")
    /\ UNCHANGED <<player, net, reply, goal, op, rt, seen, plan, late, outcome, intents, outages>>

-----------------------------------------------------------------------------
(* After the commit was sent                                               *)

\* The answer of the commit; one that says unknown is not believed at once.
Committed(r) ==
    /\ pc[r] = "commit" /\ reply[r] \in Settled \ {"unknown"}
    /\ Report(r, reply[r])
    /\ UNCHANGED <<player, net, reply, goal, op, rt, seen, plan, late, records, intents, outages>>

\* No answer, a rejection or an unknown outcome: only the status is asked.
CommitLost(r) ==
    /\ pc[r] = "commit"
    /\ Go(r, "reconcile")
    /\ UNCHANGED <<player, net, reply, goal, op, rt, seen, plan, late, outcome, records, intents,
                   outages>>

\* What a player can answer to status.  One that restarted knows its ledger; of
\* the stages of an earlier runtime its answer proves nothing.
Answers == [state : {"committed", "closed", "open"}, outcome : Settled]
Answered(s, v) == [state |-> s, outcome |-> v]
StatusAnswers(o) ==
    {a \in Answers :
        \/ fate[o] \in Settled /\ a = Answered("committed", fate[o])
        \/ fate[o] = "pending" /\ a = Answered("committed", "unknown")
        \/ fate[o] \in Open /\ a = Answered("open", "unknown")
        \/ fate[o] \in {"aborted", "expired", "lost"} /\ a = Answered("closed", "not_applied")
        \/ born[o] # runtime /\ fate[o] \notin Settled /\ a = Answered("closed", "not_applied")}

\* Mutant: the answer of another runtime is believed like one's own.
BelievedAlways(r, a, bound) == a.outcome

\* _bind_context: across a restart only a commit in the ledger counts, and only
\* while the binding is the one the operation was staged under.
Believed(r, a, bound) ==
    IF rt[r] = born[op[r]] \/ (bound /\ a.state = "committed") THEN a.outcome ELSE "unknown"

\* reconcile, observe_status.
Reconcile(r) ==
    /\ pc[r] = "reconcile"
    /\ \/ Report(r, "unknown")
       \/ /\ rt[r] = runtime
          /\ \E a \in StatusAnswers(op[r]), bound \in BOOLEAN : Report(r, Believed(r, a, bound))
    /\ UNCHANGED <<player, net, reply, goal, op, rt, seen, plan, late, records, intents, outages>>

-----------------------------------------------------------------------------
(* Acknowledging a commit whose effect stays unknown                       *)

\* A user is shown the plan of an acknowledgement (recovery --mode inspect).
Inspect(o) ==
    /\ Acknowledgeable(o)
    /\ confirmed' = confirmed \cup {<<o, ledger>>}
    /\ UNCHANGED <<player, net, reply, runs, records, intent, intentDisk, outages>>

\* _recover inspects again, and the user's confirmation must name that plan.
CheckPlan(r) ==
    /\ pc[r] = "intent" /\ plan[r] = 0 /\ rt[r] = runtime
    /\ Acknowledgeable(op[r]) /\ <<op[r], ledger>> \in confirmed
    /\ plan' = [plan EXCEPT ![r] = ledger]
    /\ UNCHANGED <<player, net, reply, goal, pc, op, rt, seen, late, outcome, records, intents,
                   outages>>

\* An acknowledgement that an earlier run sent is recognised by its intent.
Recognise(r) ==
    /\ pc[r] = "intent" /\ plan[r] = 0 /\ rt[r] = runtime
    /\ audit[op[r]] # 0
    /\ <<op[r], audit[op[r]]>> \in intent \cap confirmed
    /\ Report(r, "acknowledged")
    /\ UNCHANGED <<player, net, reply, goal, op, rt, seen, plan, late, records, intents, outages>>

\* Nothing to acknowledge, a plan that changed, or an intent that is not stored.
\* The file may exist although its write failed, or come late.
AcknowledgeBlocked(r) ==
    /\ pc[r] = "intent"
    /\ intent' \in {intent} \cup (IF plan[r] = 0 THEN {} ELSE {intent \cup {<<op[r], plan[r]>>}})
    /\ Go(r, "done")
    /\ UNCHANGED <<player, net, reply, goal, op, rt, seen, plan, late, outcome, records, confirmed,
                   intentDisk, outages>>

\* Mutant: an intent found on file is trusted as it is.
SyncIntentOnce(r) ==
    intentDisk' = IF <<op[r], plan[r]>> \in intent THEN intentDisk ELSE intent'

\* AcknowledgementStore._write, _resync_existing: a new intent and one that an
\* earlier run left are synced alike.
SyncIntent(r) == intentDisk' = intent'

Acknowledge(r) ==
    /\ pc[r] = "intent" /\ plan[r] # 0
    /\ intent' = intent \cup {<<op[r], plan[r]>>}
    /\ SyncIntent(r)
    /\ Post(r, "acknowledge")
    /\ UNCHANGED <<player, goal, op, rt, seen, plan, late, outcome, records, confirmed, outages>>

\* Its answer; or, without one, a single read of the record.
Acknowledged(r) ==
    /\ pc[r] = "acknowledge"
    /\ \/ reply[r] = "ok" /\ Report(r, "acknowledged")
       \/ rt[r] = runtime /\ audit[op[r]] = plan[r] /\ Report(r, "acknowledged")
       \/ Report(r, "unknown")
    /\ UNCHANGED <<player, net, reply, goal, op, rt, seen, plan, late, records, intents, outages>>

-----------------------------------------------------------------------------
(* The player, from how the command line uses it                           *)

\* It takes a request from the network and answers it, if the run still waits.
Take(r, k, v) ==
    /\ <<r, k>> \in net
    /\ net' = net \ {<<r, k>>}
    /\ reply' = IF pc[r] = k THEN [reply EXCEPT ![r] = v] ELSE reply

\* A request that expires in the queue, or that the player refuses.
PlayerRejects(r, k) ==
    /\ Take(r, k, "rejected")
    /\ UNCHANGED <<player, runs, records, intents, outages>>

PlayerPrepare(r, o) ==
    /\ Take(r, "prepare", "ok")
    /\ rt[r] = runtime /\ seen[r] = revision /\ fate[o] = "none"
    /\ fate' = [fate EXCEPT ![o] = "granted"]
    /\ born' = [born EXCEPT ![o] = runtime]
    /\ op' = IF pc[r] = "prepare" THEN [op EXCEPT ![r] = o] ELSE op
    /\ UNCHANGED <<runtime, revision, written, ledger, audit, goal, pc, rt, seen, plan, late,
                   outcome, records, intents, outages>>

Stages == {o \in Op : fate[o] \in {"receiving", "ready"}}

\* begin, the chunks with preview, and abort.
PlayerStages(r, k) ==
    /\ <<r, k>> \in net /\ rt[r] = runtime
    /\ \/ /\ k = "begin" /\ fate[op[r]] = "granted" /\ Stages = {} /\ seen[r] = revision
          /\ Take(r, k, "ok")
          /\ fate' = [fate EXCEPT ![op[r]] = "receiving"]
       \/ /\ k = "preview" /\ fate[op[r]] = "receiving" /\ seen[r] = revision
          /\ \/ Take(r, k, "ok") /\ fate' = [fate EXCEPT ![op[r]] = "ready"]
             \/ Take(r, k, "blocked") /\ UNCHANGED fate
       \/ /\ k = "abort" /\ fate[op[r]] \in Open
          /\ Take(r, k, "ok")
          /\ fate' = [fate EXCEPT ![op[r]] = "aborted"]
    /\ UNCHANGED <<runtime, revision, written, born, ledger, audit, runs, records, intents,
                   outages>>

\* A commit of the ready stage over the revision it names; its answer comes with
\* its end, so the run gets none from this step.
PlayerCommits(r) ==
    /\ <<r, "commit">> \in net /\ net' = net \ {<<r, "commit">>}
    /\ rt[r] = runtime /\ fate[op[r]] = "ready" /\ seen[r] = revision
    /\ fate' = [fate EXCEPT ![op[r]] = "pending"]
    /\ \E w \in {"none", "some"} : written' = [written EXCEPT ![op[r]] = w]
    /\ ledger' = ledger + 1
    /\ UNCHANGED <<runtime, revision, born, audit, reply, runs, records, intents, outages>>

\* The commit ends, perhaps after a restart; the ledger keeps what is proved.
PlayerSettles(o, v) ==
    /\ fate[o] = "pending" /\ audit[o] = 0 /\ revision < MaxRevision
    /\ fate' = [fate EXCEPT ![o] = v]
    /\ \/ v = "verified" /\ written' = [written EXCEPT ![o] = "all"]
       \/ v = "partial" /\ written' = [written EXCEPT ![o] = "some"]
       \/ v = "not_applied" /\ written[o] = "none" /\ UNCHANGED written
       \/ v = "unknown" /\ \E w \in {written[o], "all"} : written' = [written EXCEPT ![o] = w]
    /\ revision' = IF v = "not_applied" THEN revision ELSE revision + 1
    /\ ledger' = ledger + 1
    /\ reply' = [r \in Run |->
                    IF op[r] = o /\ pc[r] = "commit" /\ born[o] = runtime THEN v ELSE reply[r]]
    /\ UNCHANGED <<runtime, born, audit, net, runs, records, intents, outages>>

\* A conditional acknowledgement of the inspected record.
PlayerAcknowledges(r) ==
    /\ Take(r, "acknowledge", "ok")
    /\ rt[r] = runtime /\ plan[r] = ledger /\ Acknowledgeable(op[r])
    /\ audit' = [audit EXCEPT ![op[r]] = ledger]
    /\ ledger' = ledger + 1
    /\ UNCHANGED <<runtime, revision, fate, written, born, runs, records, intents, outages>>

\* Grants and stages expire.
PlayerExpires(o) ==
    /\ fate[o] \in Open
    /\ fate' = [fate EXCEPT ![o] = "expired"]
    /\ UNCHANGED <<runtime, revision, written, born, ledger, audit, net, reply, runs, records,
                   intents, outages>>

\* A new runtime: memory is lost, the ledger is not.
PlayerRestarts ==
    /\ runtime < MaxRuntime
    /\ runtime' = runtime + 1
    /\ fate' = [o \in Op |-> IF fate[o] \in Open \cup {"aborted", "expired"} THEN "lost" ELSE fate[o]]
    /\ UNCHANGED <<revision, written, born, ledger, audit, net, reply, runs, records, intents,
                   outages>>

\* Someone else changes the favorites.
PlayerChanges ==
    /\ revision < MaxRevision
    /\ revision' = revision + 1
    /\ UNCHANGED <<runtime, fate, written, born, ledger, audit, net, reply, runs, records, intents,
                   outages>>

-----------------------------------------------------------------------------
(* The host                                                                *)

\* A process is killed, and its threads with it.
Kill(r) ==
    /\ goal[r] # "none" /\ pc[r] # "done"
    /\ Go(r, "done")
    /\ UNCHANGED <<player, net, reply, goal, op, rt, seen, plan, late, outcome, records, intents,
                   outages>>

\* The power fails: what was not synced may be found as it was before.
PowerLoss ==
    /\ outages < MaxOutages
    /\ outages' = outages + 1
    /\ pc' = [r \in Run |-> IF goal[r] = "none" THEN pc[r] ELSE "done"]
    /\ file' \in {f \in [Op -> {"none", "bare", "proved"}] :
                     \A o \in Op : f[o] \in {file[o], disk[o]}}
    /\ disk' = file'
    /\ \E lost \in SUBSET (intent \ intentDisk) : intent' = intent \ lost
    /\ intentDisk' = intent'
    /\ UNCHANGED <<player, net, reply, goal, op, rt, seen, plan, late, outcome, confirmed>>

RunStep(r) ==
    \/ \E g \in Goals \ {"none"}, o \in Op \cup {NoOp} : Invoke(r, g, o)
    \/ Discover(r) \/ Snapshot(r) \/ Stage(r) \/ Refuse(r)
    \/ Staged(r) \/ Previewed(r) \/ StageFails(r) \/ Aborted(r)
    \/ Save(r) \/ SaveFails(r) \/ SaveTimesOut(r) \/ LateSave(r) \/ Complete(r)
    \/ Committed(r) \/ CommitLost(r) \/ Reconcile(r)
    \/ CheckPlan(r) \/ Recognise(r) \/ AcknowledgeBlocked(r) \/ Acknowledge(r)
    \/ Acknowledged(r) \/ Kill(r)

PlayerStep ==
    \/ \E r \in Run, k \in Requests : PlayerRejects(r, k) \/ PlayerStages(r, k)
    \/ \E r \in Run : PlayerCommits(r) \/ PlayerAcknowledges(r)
    \/ \E r \in Run, o \in Op : PlayerPrepare(r, o)
    \/ \E o \in Op : PlayerExpires(o) \/ \E v \in Settled : PlayerSettles(o, v)
    \/ PlayerRestarts \/ PlayerChanges

Next == (\E r \in Run : RunStep(r)) \/ PlayerStep \/ (\E o \in Op : Inspect(o)) \/ PowerLoss

Spec == Init /\ [][Next]_vars

-----------------------------------------------------------------------------
(* What must hold                                                          *)

\* A commit that was sent can be recovered: its record survives a power loss
\* until the player has proved that it was applied, whatever fills the directory
\* and wherever the process stops (ContextStore, _save).
Recoverable ==
    \A o \in Op :
        fate[o] \in {"pending", "partial", "unknown", "not_applied"}
            \/ (\E r \in Run : op[r] = o /\ <<r, "commit">> \in net)
        => disk[o] # "none" /\ file[o] # "none"

\* What a run reports is what happened and stays so: "verified" is said of a
\* document that is stored completely, "not_applied" of one that is not stored
\* and never will be, although a commit may be answered late or not at all and
\* the player may restart (RemoteFavorites.replace, reconcile).
HonestOutcome ==
    \A r \in Run :
        /\ outcome[r] = "verified" => written[op[r]] = "all"
        /\ outcome[r] = "not_applied" /\ op[r] # NoOp => written[op[r]] = "none"

\* A commit is acknowledged only as a user was shown it, at that revision of the
\* ledger, and with an intent that survives a power loss; a run says so only of
\* its own acknowledgement (RecoveryPeer.acknowledge, AcknowledgementStore).
AcknowledgedAsConfirmed ==
    /\ \A o \in Op : audit[o] # 0 => <<o, audit[o]>> \in confirmed \cap intentDisk
    /\ \A r \in Run : outcome[r] = "acknowledged" => audit[op[r]] # 0

\* A commit that was sent can be recovered until the player has proved what became
\* of it, and what a process reports of it is so; one is acknowledged only as a
\* user was shown it (RemoteFavorites, ContextStore, AcknowledgementStore).
SafeReplace == TypeOK /\ Recoverable /\ HonestOutcome /\ AcknowledgedAsConfirmed
=============================================================================
