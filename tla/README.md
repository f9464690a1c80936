# Formal models of the OTT-play control server

This directory holds TLA+ models of the parts of this repository whose
correctness depends on the order of things: several clients and devices at once,
answers that are lost or late, writes that fail half way, processes and tablets
that stop between two steps. TLC checks each model on small instances; TLAPS
proves the most important of its properties for every value of its constants.

Paths below are relative to the repository: `internal/control/` is
`src/internal/control/` for `PROJECT.json`, which lists for every definition the
source lines it stands for (`map`), for every run its properties (`runs`), for
every property a plausible bug that breaks it (`mutants`), what is hard to test in
this code (`hazards`) and which theorems are proved (`theorems`).

    tlc -config CommandQueue.cfg MCCommandQueue       # a run
    tlapm CommandQueueProofs.tla                      # the proofs of a module


## 1. The system

The control server is one Go process on the home network. Players (web
applications in televisions and tablets) and the native Android agent poll it for
commands; operators, a Python command line and Home Assistant submit them.

```
  administrator, operators, CLI, Home Assistant          players, Android agents
        |  submit, read receipts, manage devices              |  poll, acknowledge,
        v                                                     v  answer, pair
  +------------------------------ Server -------------------------------------+
  | registryGate (RWMutex): every handler holds it for reading;               |
  |                         publishing a registry holds it for writing        |
  | Server.mu: queues, results, waiters, journal, pairings, notifications     |
  +------+--------------------+-----------------------+-----------------------+
         | save               | save                  | lookup
   journal file         registry file            DNS discovery
```

On the tablet the agent keeps its own journal of executions, its receipts and the
transaction of a coordinated update, and works on the player and on Android.

The command line (`cli/`, Python) is the largest part: every command is a process
that sends requests to one or several players through the controller, waits for
their receipts until a deadline, and keeps what it may have begun in private files.
The USB manager (`tools/`) keeps a tablet without network reachable. The release
scripts (`scripts/`) drive the forge: a ledger branch, tags, releases, pull requests.

### Components

Status: M modelled, P partly, – not modelled (section 8 says why).

| Component | State it keeps | Operations | |
|---|---|---|---|
| Command queue and result store (`server.go`, `requests.go`) | per device: queue, results; byte counters, last timestamp | submit, poll (with and without acknowledgements), ack, result, receipts, expiry | P |
| Command journal (`journal.go`) | rows of keyed operations, and their file | begin, finish, lookup, recovery, retention | M |
| Receipt waits (`request_wait.go`) | waiters, channel of the next result, registry gate | read with `wait`, result, disconnect, timer, revocation | M |
| Device registry (`device_registry_*.go`) | records, claims, receipts, their file; published identities | create, rotate, revoke, approve, claim, cancel, restart | P |
| Registry pairing requests (`pairing.go`) | pairings with codes, 10 minutes, at most 64 and 2 per device, 5 attempts | create, expire, cancel; approve and claim in static mode | P |
| DNS discovery (`discovery.go`) | a single flight, a result of at most 30 s, errors of 2 s | lookup, refresh | – |
| Notifications and camera media (`notifications.go`, `media_handler.go`) | presence of 15 s, a queue of 4 per device, 32 media entries, 4 MiB | publish, poll, grant, fetch, timer | – |
| Player state (`player_state*.go`) | epoch, sequences, fences, history; its store | report, read, save outside the lock | – |
| Diagnostics (`diagnostics*.go`) | sessions, reserved receipts, repairs, events | start, stop, lease, answer, page | – |
| HTTP front end (`device_transport.go`, `operators.go`, …) | none of its own | routing, authentication, scopes, validation | – |
| Televisions (`internal/television`) | a gate per television, credentials | command, fallback, outcome | – |
| Home Assistant (`internal/homeassistant`) | a session, dedup of events, two camera workers | event, fetch, publish | – |
| Android agent: operations (`native/android-agent/main.go`, `operations.go`) | execution journal, receipts, prepared effects | poll, process, result, claim, act | P |
| Android agent: bundle update (`bundle_update.go`) | installed pair, saved pair, transaction file, fence | prepare, execute, roll back, recover | M |
| Android agent: single updates (`update.go`, `apk_update.go`) | `agent.previous`, `update.pending` | install, supervise | P |
| Android agent: watchdog (`watchdog.go`) | attempts (3), back-off 60·2ⁿ s, stall 120 s, health 5 min | observe, restart | – |
| Android agent: execution, CDP, evidence | none | calls of Android and of the web view | – |
| Configuration, wire patterns, main program | none after startup | validation, listeners | – |
| Android home, USB probe | none | start the player, report an attachment | – |
| Command line: group commands (`ott.py`, `player_groups.py`) | a pool of jobs, rows of the report | resolve, submit, post, poll, interrupt, report | P |
| Command line: channels and media (`ott.py`) | what was read of the player | play, random, category, provider; the commands that negotiate | P |
| Command line: programme search (`programme_search.py`, …) | caches of mappings, histories, results | guide batches, probes, selection, play | P |
| Command line: favorites (`favorites_*.py`, `global_favorites_*.py`) | a directory of recovery records and acknowledgements | replace, recover, acknowledge; list, merge, clear | P |
| Command line: presets (`preset_session.py`) | a checkpoint per session | apply, resume, verify | P |
| Command line: configuration (`preset_favorites.py`, …) | `cli.json`, its backups and locks | favorites, groups, bindings, aliases, addition | P |
| Command line: settings (`player_settings.py`) | what was read | get, set, reset, patch, folders | P |
| Command line: torrents (`torrent_catalog.py`, `torrent_indexer.py`) | identities of operations on disk | catalogue changes with favorites, indexer operations | P |
| Command line: registry operator (`device_registry.py`) | a checkpoint, the alias | mutate, resume, forget, remove | M |
| Command line: power and updates (`device_power.py`, `app_update.py`) | a binding | power off, update | P |
| Command line: workbench, performance (`workbench.py`, `performance.py`, `report_verify.py`) | evidence directories | observe, trial, export, verify | P |
| USB manager (`tools/`) | a lock, a container, the state of each tablet | service pass, recover, reboot | P |
| Release publication (`release_*.py`, `version_plan.py`) | ledger, tags, drafts, releases | plan, reserve, stage, publish, promote | P |
| Release images (`publish_ghcr.py`, `publish_verified.py`, `verified_images.py`) | tags of the image registry, a file of digests | copy to an exact tag, to version and latest, resolve | P |
| Version preparation (`prepare_version.py`) | topic branch, pull request | prepare | M |
| Command line: diagnostics, fleet, status; build and test scripts | none | – | – |

### How they interact

* **Shared state.** `Server.mu` makes each handler's body a critical section, but
  handlers read the clock *before* they take it, validate payloads and look up DNS
  *outside* it, and come back for a second one. `registryGate` is held for reading
  by every request, including a reader asleep for a receipt, and for writing by a
  mutation of the registry; Go's `RWMutex` lets no new reader in once a writer waits.
* **Calls.** A submission with an idempotency key goes through the journal, which
  writes its file before the command is queued; acknowledgement, answer, revocation
  and expiry settle the journal before the entry leaves the queue.
* **Messages.** Devices poll. A command is delivered again until it is acknowledged,
  a request until its result is stored, and so the agent must recognise what it
  already did, across its own restarts.
* **Callbacks.** Timers end a receipt wait; a result closes the channel that waiters
  sleep on; the watchdog and startup recovery act on the player beside operations.
* **Requests of the command line.** Every one goes through a queue of the controller
  and is executed by a player that may have restarted, changed its source, or been
  asked by somebody else in between. The command gives up at its deadline; the
  request does not. So a request names the runtime, the context and the revision it
  was planned for, a mutation is posted once, and what is said of it must hold
  whenever it is executed.
* **Records.** What must survive a kill is on disk before the request it is about:
  recovery records, checkpoints, intents, attempts. Locks (`flock`, the lock of the
  USB manager, the concurrency group of the workflow, the blob of the ledger) cover
  some of the writers only.
* **Failures.** Each state file is written by write-temporary, fsync, rename, fsync
  of the directory: it can fail *before* the rename (nothing happened) or *after*
  (the file is new, and the caller gets an error). Both are modelled everywhere.

### What makes each component correct

* *Queue and journal*: what is queued is pending in the journal; each operation has
  one outcome, which never changes and is never contradicted by a later answer; a
  retry of what is retained is answered from the record, never admitted again;
  nothing leaves the queue without a reason; the byte counters are exact.
* *Receipt waits*: no wake-up is lost, each read ends, slots are given back, and a
  revocation is not held up for ever by the sleepers.
* *Registry*: no token is served that the file does not prove; a retired token never
  authenticates again, whatever the next configuration says; an operation applies
  once; revocation is always possible; an approval or a claim that waited for DNS
  does not act on a state that changed.
* *Agent*: no operation acts twice, none acts before its acceptance is known, no
  answer claims more than what happened, and the agent never gets stuck.
* *Bundle update*: player and helper always match or can be restored; nothing else
  touches the player while they cannot.
* *Commands to a player*: a command has the effect that was asked for, in the runtime,
  source and revision it was planned for, at most once; "nothing was requested" stays
  true, whatever arrives late; success is never claimed from a number or a name that
  may by then mean something else.
* *Recoverable writes*: a record outlives what the player may still do; no step is
  repeated and no later one taken while an earlier one can still be executed; nothing
  that the viewer or another process changed is overwritten unseen.
* *Group commands*: every player gets one row, and the row is true.
* *Observations*: a verdict, an export or a selection is about one and the same thing,
  and the restore of a trial touches only what the trial changed.
* *Releases*: a number is reserved once and built once, what becomes public is what
  was accepted, and never older than what is.


## 2. The modules

| Module | Stands for | Used by |
|---|---|---|
| `CommandQueue` | `Server.enqueue`, `postRequest`, `poll`, `ack`, `receiveResult`, `expire`; `commandJournal`; `publishRegistry` as the queue sees it | `MCCommandQueue`, `CommandQueueProofs` |
| `OperationLedger` | what the journal promises, without clock, queue, file or threads | instance in `CommandQueue` |
| `ReceiptWait` | `readRequestReceipt`, `notifyWaiters`, the registry gate | its own run, `ObservationProofs` |
| `DeviceRegistry` | `device_registry_*.go` and the pairings they use | `MCDeviceRegistry`, `DeviceRegistryProofs` |
| `AgentOperations` | the agent's `poll`, `processRequest`, `postResult`, effects, `operations.go` | `MCAgentOperations`, `AgentOperationsProofs` |
| `BundleUpdate` | `bundle_update.go`, and what `update.go`, `apk_update.go` and `watchdog.go` do beside it | `MCBundleUpdate`, `BundleUpdateProofs` |
| `GroupCommand` | `player_group_command`, `Client.api` and the layer under it | `MCGroupCommand`, `PlayerCommandProofs` |
| `MediaSelection` | play, random, category, provider of `ott.py` | `PlayerCommands`, `PlayerCommandProofs` |
| `BoundCommand` | the commands of `ott.py` that negotiate with one runtime | `PlayerCommands`, `PlayerCommandProofs` |
| `PlayerSettings` | `player_settings.py` | `PlayerCommands`, `PlayerCommandProofs` |
| `TorrentCatalog`, `TorrentIndexer` | `torrent_catalog.py`, `torrent_indexer.py` | `PlayerCommands`, `PlayerCommandProofs` |
| `DevicePower`, `AppUpdate` | `device_power.py`, `app_update.py` | `PlayerCommands`, `PlayerCommandProofs` |
| `RegistryOperator` | `device_registry.py` of the command line | `PlayerCommands`, `PlayerCommandProofs` |
| `FavoritesReplace` | `favorites_*.py` | `RecoverableWrites`, `RecoverableWritesProofs` |
| `GlobalFavorites` | `global_favorites_*.py` | `RecoverableWrites`, `RecoverableWritesProofs` |
| `PresetSession` | `preset_session.py`, `load_preset` | `RecoverableWrites`, `RecoverableWritesProofs` |
| `ConfigStore` | the writers of `cli.json` | `RecoverableWrites`, `RecoverableWritesProofs` |
| `UsbRecovery` | `android_usb_manager.py`, `android_usb_supervisor.py` | `RecoverableWrites`, `RecoverableWritesProofs` |
| `PlayerCommands` | the commands to one player side by side | `MCPlayerCommands`, `PlayerCommandProofs` |
| `RecoverableWrites` | the programs that keep a record on disk side by side | `MCRecoverableWrites`, `RecoverableWritesProofs` |
| `ReleasePublication` | `release_control.py`, `release_state.py`, `release_versioned.py`, `version_plan.py` | `MCReleaseControl`, `ReleasePublicationProofs` |
| `ImagePublication` | `publish_ghcr.py`, `publish_verified.py containers`, `verified_images.py` | `MCReleaseControl`, `ReleasePublicationProofs` |
| `VersionPreparation` | `prepare_version.py` | `MCReleaseControl`, `ReleasePublicationProofs` |
| `Workbench` | observations and the progress test of `workbench.py` | `MCObservation`, `ObservationProofs` |
| `PerformanceTrial`, `PerformanceExport` | `performance.py`, and its verification in `report_verify.py` | `MCObservation`, `ObservationProofs` |
| `ProgrammeSearch` | `_server_programs` of `ott.py`, `programme_search.py` | `MCObservation`, `ObservationProofs` |

The modules are separate because the components meet in few places, and each place is
in both modules: a revocation in `CommandQueue` (it drops queue and results) and in
`ReceiptWait` (it replaces the device with its waiters) is the publication of
`DeviceRegistry`; the controller of `AgentOperations` is the queue of
`CommandQueue` reduced to what a device observes; a bundle update of `BundleUpdate`
is one of the deferred operations of `AgentOperations`.

A process of the command line runs one command, and two commands meet only in the
player or in a file. What they share is therefore in the module of each: the player
(or the tablet, or the forge) as a record that others change at any step, and the
requests on their way to it. Commands that meet in one file or on one player are
several processes of one module (`FavoritesReplace`, `GlobalFavorites`, `ConfigStore`,
`AppUpdate`, `UsbRecovery`, `ReleasePublication`).

`PlayerCommands`, `RecoverableWrites`, `MCReleaseControl` and `MCObservation`
put such modules side by side: the variable `part` says in the first state
which program a behaviour is of, the variables of the others keep one value, and each
property begins with the part it is about. (`MCReleaseControl` extends
`ReleasePublication` for two runs at the same time, and has an instance of it for runs
one after another; `RecoverableWrites` extends `FavoritesReplace`, and bounds its steps
in three ways. So `NumbersUnique` and `SafeReplace` are those modules' own definitions.) The
state space is the sum of those of the parts, not their product, and no part hides another's
behaviours. `PlayerCommands` and `RecoverableWrites` have the constants of all their parts
as their own, with the assumptions of each: `MCPlayerCommands` and `MCRecoverableWrites`
give them small values for TLC, and the theorems hold for all values.

Definitions marked *Mutant* in a module are plausible bugs of the code, used by the
`mutants` of `PROJECT.json`; no specification refers to them. Sets and constants that
only name the values of a variable have no entry of their own in `map`; they are
covered by the lines of the actions that use them.

### CommandQueue

*State.* `queue`, `results` are the union over the devices of `device.queue` and
`device.results`; `bytes` and `stored` are `Server.bytes` and `Server.resultBytes`;
`journal` and `disk` are `commandJournal.records` and its file; `lastTS` is
`Server.lastTS`; `replies` holds the responses between the two critical sections of
`receiveResult`. `accepted`, `delivered`, `voided` are histories for the properties.

*Time.* The clock counts half seconds, since the journal keeps whole seconds and one
instant inside a second tells its roundings apart. A handler has read `now` before
it took the lock, so an action takes any instant `t \in Captured`: up to `Lag`
ticks old, and not older than the last revocation or restart, which no handler survives.

*Actions.* Each handler is one action, or one action for each of its outcomes, and
begins with what `expire(now)` does: `Submit` (admission, retained duplicate,
conflict, full, journal failure), `PollAck`, `PollLegacy`, `Ack`/`AckFails`,
`BindReply` then `StoreReply`/`StoreReplyFails`/`DropReply`, `ReadOnly` (receipt
reads), `Revoke`, `Restart`, `Tick`. A save succeeds, fails before or fails after
the rename. Every payload has size one, so byte budgets are numbers of entries.

### ReceiptWait

*State.* One device: `status` of each request, `changed`/`closed`/`channels` for
`device.resultChanged`, `waiters` for `receiptWaiters`, the position of each
connection inside `readRequestReceipt`, `posting` for the handlers of
submissions and results, `writer` for a revocation that waits for `registryGate`.

*Actions.* `Call`, `EnterGate`, `Sleep`, `Reply`, `Wake`, `Timeout`, `Cancel`,
`Resume` are the steps of a reader, with the channel read under the lock and waited
on outside it. `Post`, `Submit`, `Respond`, `Refuse` are those of a submission or a
result, `Due` a deadline, `LockGate` and `Publish` those of a mutation of the
registry. `GateOpen` is the rule of `sync.RWMutex`: no new reader enters while a
writer waits.

### DeviceRegistry

*State.* `registry` (`deviceRegistry.disk`), `file`, `failed` (fail-closed after a
save that failed), `view` (the published identities), `config` (the running
configuration), `pairings`, `flights` (approvals and claims waiting for DNS),
`minted`, `lapsed`, and histories.

*Data.* A fresh number is a random generation and the token minted with it; a
fingerprint is the static token it fingerprints. A lookup may answer that the
player's address is current, that it changed, or fail: every outcome is taken.

*Actions.* `Mutate(o, m)` is the whole of a lifecycle mutation (replay check, plan,
room, save with its three outcomes, publication, receipt); `Replay` the repeated
operation; `CreatePairing`, `BeginApproval`/`FinishApproval`,
`BeginClaim`/`FinishClaim`, `Abandon`, `GuessedOut`, `Cancel` the pairing handlers
on both sides of the lookup; `LapsePairing`, `LapseOperation` the passing of time;
`Restart(c)` a crash followed by a start with any configuration `New` accepts.

### AgentOperations

*State.* The agent's memory (`journal`, `receipts`, `effects`, `batch`, `pc`, `cur`,
`entry`, `serverTime`), its two files, the controller (`now`, `place`, `ctl`,
`told`), and histories (`acted`, `finished`).

*Actions.* The agent is one goroutine. A step is one write, one message or one
action on the player: `Poll`, `Flush` (accepted operations first), `Skip`, `Redeliver`,
`Begin`, `Start`, `Execute`, `Receipt`, `Store`, `Post`, `Claim`, `Mark`, `Effect`,
`Report`, `Settle`, `Drop`, `EndBatch`. `Crash` may come between any two, `Boot`
restarts. Requests have one of three kinds: direct, deferred, or a capture that
changes nothing.

### BundleUpdate

*State.* `installed` (APK and touch helper), `mount` of `/system`, `saved` (the two
files to restore from), `txn` (`transaction.json`), `running`, `player` (what it
reports, or None), `phase` and `work` of the agent, `fenced`
(`bundleRecoveryFailed`).

*Actions.* `Prepare` and `Execute` (perhaps long after), then one action per step
of `apply`: two saves, begin, stop, helper, APK, seal, start, verify, seal, commit;
the same steps backwards in a rollback and in startup recovery. Every step may fail
without its effect or with it. `Crash` and `PowerLoss` come anywhere, `Startup`
recovers; `InstallAlone`, `RestartApp`, `ByHand` and `PlayerChanges` are everything
else that happens to the tablet.


### GroupCommand

*State.* `words` and `expanded` (what is left of the user's list, and of the names in
it), `targets`, `main` and its `next` job, `future` and `pc` of every slot, the
`tracked` and `reported` players, `thread` and `box` (by player and call: the HTTP
thread of the post, and what became of the request), `outcome` (the row), `room` in the
output. *Actions.* `Resolve` is the loops of `targets`: `Expand` takes a word of the list
or the members of a group, `ResolveName` a name, whose player is a target once (`Seen`);
`Refuse` ends the command at anything that is wrong, and `Dispatch` begins to send.
`Submit` hands jobs to the pool, `Take` and `Job` run one, `Collect` retains its row,
an interrupt turns into `CancelPending`, `Leave` and `Report`. A call posts from a
thread that outlives its caller: a request that was given up is still queued at any
later step, unless it was cancelled before it was sent.

### Commands of `PlayerCommands`

Each has the player's state that it depends on, `flying` or `network` (requests that
may still be executed), the answer to the last one, the position in the command and
what it has read, and one action per request of the code, beside the actions of the
viewer and of other clients.

* `MediaSelection`: the catalogue (a revision of one provider), standby, provider.
  A search pages through a catalogue, a modern player refuses an item of an older one,
  a legacy player is given a number and answers with what it shows.
* `BoundCommand`: the runtime with the version that runs in it, and the version of the
  controller. Fifteen kinds of command differ in what they require, in the fields
  they send and in how a missing answer is reported.
* `PlayerSettings`: values and revisions by source; `Request` sends what was read last;
  a refusal says why, and which refusals prove that nothing was changed.
* `TorrentCatalog`: catalogue and favorites with their revisions, uploads in progress,
  and metadata that this command or an earlier one asked for; the command's record of
  an operation is written before its first request.
* `TorrentIndexer`, `DevicePower`, `AppUpdate`: the companion's source, and requests that
  the player gave up but its companion may still carry out; the connection
  behind a serial, its dialogs and keys; the staged APK and its phase.
* `RegistryOperator`: the identity and its receipts, which expire; the posts of a request,
  each of which the controller may turn away before it looks for a receipt; a
  checkpoint; the alias.

### Programs of `RecoverableWrites`

* `FavoritesReplace`: a run stages, stores a record, commits, asks for the status; the
  player keeps a ledger of commits; records are reclaimed when the directory is full;
  a power loss takes what was not synced.
* `GlobalFavorites`: a snapshot and the plan made of it, the stage and its preview, the
  refreshed fence, a commit, the list in pages, and the acknowledgement of a write whose
  outcome somebody had to look up.
* `PresetSession`: the checkpoint with its pending intent, ticks left until the intent
  is safe, the controller's journal and queue for its key, and the steps of a preset.
* `ConfigStore`: the file, its backups, the two locks; commands read, work and replace at
  the same time, and each remembers who replaced the file since its last look.
* `UsbRecovery`: the tablet (boot, lock, what is in front, its USB node), the
  container, the state file with `observed_boot`, `completed_boot` and `attempts`.

### ReleasePublication, VersionPreparation, ImagePublication

*State.* `ledger` with the reservations and the floor, `tags`, `releases` (drafts and
published, with the assets they hold), the runs with attempt, plan, what they had
`seen` of the ledger, and what they `staged`; for a preparation main, the topic branch,
pull requests and commits (a commit of main is its version and a number for its other
sources, which is all that the comparisons of trees tell apart). *Actions.* one for each call to the forge between which
another actor can come; any step may fail with or without its effect, and a failed
run is started again as a whole or from its failed jobs. `ImagePublication` has the
tags of each image, whose bytes they hold, and the namespaces that exist; the two
publishers and the reader are a program counter each, `List` and `Preflight` are what
`skopeo list-tags` answers (tags, no such repository, anything else), and a copy may
fail before or after its tag was written.

### Programs of `MCObservation`

* `Workbench`: the clock, the media on the page, the plan of stages and lanes, the
  samples; `Window` is what an observation gets of the deadline, and `Share` what a lane
  gets of the observation.
* `PerformanceTrial`: the policy with its revision and its writers, what the trial owns,
  evidence on disk; every step of the cleanup can be interrupted as well.
* `PerformanceExport`: the ring of a session as a sequence, pages, the reasons for a partial result,
  the directory, and the judgement of `report verify`.
* `ProgrammeSearch`: guide generations by service, caches with their age, probes, and
  the recheck of time after them.


## 3. The runs

Each property of a passing run has a mutant: one definition replaced by a plausible
bug of the code, with which TLC finds the property violated under the same bounds.
A property of a run is often the conjunction of several that are defined, and
commented, one by one above it; the table names its parts. The type invariants of the
first five modules are not in the runs, because section 5 proves them for every
value of the constants; those of the others are part of an invariant.

| Run | Properties | Parts |
|---|---|---|
| `command_queue` | `SafeDelivery` | `Accounted` `AnsweredOnce` `OnlyValidated` `TimestampsOrdered` `LeavesForAReason` |
| | `JournalAnswers` | `WithinLimits` `RetryAnswered` `NoLateOutcome` `NeverForgotten` |
| | `JournalAgrees` | `QueuedIsPending` `ReceiptMatchesJournal` |
| | `ImplementsLedger` | refinement of `OperationLedger` |
| `receipt_wait` | `SafeWait` `EveryReadEnds` `RevocationCompletes` | `NoLostWakeup` `WaitersCounted` `SleepsOnce`; liveness |
| `registry_mutations` | `CredentialsSound` `MutationsSound` | `ProvenOnly` `NeverRevived`; `Revocable` `AppliedOnce` `ReceiptsKept` |
| `registry_pairing` | `PairingSound` | `OneCredential` `NoLateDelivery` `NoLateApproval` |
| `agent_operations` | `HonestAgent` `EveryRequestEnds` | `ActsOnce` `AcceptedFirst` `HonestReceipt` `HonestAnswer` `NothingOvertakes`; liveness |
| `bundle_update` | `PairKept` `StepsMatched` `EveryUpdateEnds` | `RollbackPairKept` `WholePair` `NothingToRecover`; `LaunchesMatched` `CommitsTheCandidate` `StartsAsAdmitted`; liveness |
| `torn_commit` | `RemainsPending`, violated (section 6) | as `bundle_update`, and the write of `committed` may fail after its rename |
| `group_command` | `HonestReport` `EveryTargetReported` | every row is true; every player gets one |
| `player_commands` | `HonestDispatch` `SafeCommand` `SafeSettings` `HonestCatalog` `HonestIndexer` `SafeShutdown` `SafeUpdate` `SafeRecovery` | one for each of the eight programs |
| `recoverable_writes` | `SafeReplace` `CommitsThePlan` `ListedAtOnce` `SafePreset` `SafeReplacement` `SafeAttempts` | `Recoverable` `HonestOutcome` `AcknowledgedAsConfirmed`; `NeverInDoubt` `VerifiedIsTrue`; `AttemptsBounded` `CompletedWasShown` |
| `release_control` | `SafePublication` `SafeImages` `NumbersUnique` `OwnedTopic` | `BuiltAsAccepted` `NoDowngrade`; `TagsKept` `PublishedIsApproved` `OutputDeployable`; `DistinctPlans` `OneBuildPerNumber` `NothingForgotten` |
| `observation` | `ProgressHonest` `NoneStarved` `SafeTrial` `ExportExact` `SoundSelection` | one for each program (`Workbench` has two) |

### What the runs show

* **A slow handler does little harm.** With handlers that take the lock in another
  order than they read the clock, timestamps stay ordered and counters exact, and an
  outcome is recorded after a command's deadline only by a handler that had read the
  clock before it (`NoLateOutcome`, and section 7).
* **The journal is what its documentation says.** `ImplementsLedger`: through every
  failed save, crash, batch and expiry, `CommandQueue` implements
  `OperationLedger`, where an intent is admitted once while it is remembered, only
  an admitted command is open, an outcome is final and a recovery reopens nothing.
* **Sleepers and writers do not block each other.** A revocation that waits for
  sleeping readers keeps out the results that would wake them; it completes because
  each of them has a timer of at most a second.
* **A failed save is never believed.** Whether it reached the disk or not, the
  registry serves nobody until a restart has read the file, and retired tokens stay
  retired under any later configuration.
* **Delivery is at least once, acting is at most once.** The journal entry is claimed
  on disk before an effect; a request acts once and only after the controller has
  its acceptance, whatever is lost and wherever the agent stops.
* **An update ends in a matching pair.** With any three failures or crashes between
  its steps the tablet runs a matching pair, or a transaction is pending whose
  complete pair is on file and which fences the agent.
* **Nothing that was given up comes back as a surprise.** In every command to a player
  a request that was lost to its sender may be executed at any later step; what the
  command has said by then stays true, since it says "not requested" only of a
  request that was never posted, or that names a runtime or a revision that is gone.
  Two of them say less than the words suggest: "failed" with the reason that the companion
  did not answer, and a refusal of a registry operation that "resume" has sent again, are
  compatible with an effect. `HonestIndexer` and `HonestRefusal` say which words are
  proof (section 7).
* **A record is older than the request it is about, and lives as long.** The favorites'
  record is reclaimed only after the player proved the outcome; a preset's intent
  is dropped when the controller's journal has an outcome, or after the last instant at
  which the command could be delivered; an attempt is counted before the recovery.
* **Revisions carry the weight, not reads.** The mutants that drop a comparison of
  revisions or of the source (`RefreshedUnchecked`, `SamePageUnchecked`,
  `RequestAnywhere`) break the properties, however recent the read before the write.
* **The release ledger needs both its guards.** The forge's refusal of a stale blob
  keeps numbers unique when two runs overlap; the workflow's concurrency group is what
  keeps a release from being published below a newer one.


## 4. Bounds, and why they are enough

* `MaxId`, `MaxClock` bound the commands and the clock of `CommandQueue`. Two
  commands fill a queue of two, or use up a journal of two with two owners; four ticks are
  twice the life of a command, of a record and of a result, so that each expires while
  a newer one lives. `TTL = Retention`, the least retention the configuration
  accepts, is the case in which a rounding would forget a live command.
* `MaxQueued`, `MaxStored`, `MaxResults`, `MaxRecords` are one or two, so that every
  limit is hit by single intents and by a batch.
* `MaxReplies` bounds responses between their two critical sections. A response to
  a request that expired, was answered or was revoked meanwhile needs one.
* `Lag` is one tick: a handler may be overtaken by one that reads the next instant.
* Two slots for three connections make a reader find no slot; a second request
  would only repeat the first.
* Two devices are needed to move a static token from one to the other, three
  configurations to replace a token, move it and remove an address. One ordinary
  receipt (`registry_mutations`) makes the reserve for revocations bite at once;
  `registry_pairing` has room for three so that an approval is not starved.
  `MaxFresh` bounds generations minted, `MaxFlights` lookups in progress (an approval
  and a claim, or two claims).
* `MaxFaults` bounds failures and crashes of one behaviour. A rollback needs one, a
  rollback that fails too needs two, a recovery that fails as well needs three.
* The agent's journal has one entry, so that it is full with the first request and must
  forget before it accepts a second one. The controller sends any two of three
  requests (`TwoSent`): one that is accepted first and acts later, one that acts at
  once, one that changes nothing. `MaxTime` passes every deadline given to a request.
  `HonestAgent` is a theorem for journals of any size.
* `GroupCommand`: three targets on two threads make one wait in the pool; the names
  overlap so that one player is named twice; one interrupt. A second interrupt leaves the
  pool without a report, as the code does, and is in the model with a larger
  `MaxInterrupts`.
* *Commands to one player*: a player restarts, or is changed, one to three times. A
  property is broken by a change between two adjacent requests of one command, and
  the longest chain that matters is read, change, write, change, late execution.
* `FavoritesReplace` is there three times: two processes and two operations of a
  directory that holds one record; one process beside a viewer who changes the favorites
  once; one that replaces, with two that look at its operation or acknowledge it.
  `GlobalFavorites` twice: two runs that merge and clear, and one run of any kind.
  `PresetSession`: two M3U profiles, one of them the active one, and the Plex
  slot; the optional parts only add steps of kinds that those have, but for the conditional
  one of VPortal, which only the theorem of `SafePreset` covers.
* `ConfigStore` has six commands: two of favorites, which share a lock, and one of each
  other kind. Four run at the same time (`Together`): the two of favorites with any two of
  the others, or the others. A command can lose what another wrote only between its
  last look and its replacement, and every pair of kinds meets there; the theorem is for
  any commands at the same time.
* `RegistryOperator`: two operations, each posted twice (`MaxPosts`): the second post is
  what a "resume" sends, and the first one may be on its way, refused, lost or carried
  out by then. One change by others, and one recovery window after the first.
* `UsbRecovery`: three boots, two attempts in each, two USB nodes.
* `ReleasePublication` is there twice: three runs one after another (what the concurrency
  group guarantees) that promote bytes, and two at the same time that build finally.
  One incident (a rerun, a replaced asset or a discarded draft) in each.
* `ImagePublication` is there twice: two runs of `publish_ghcr.py`,
  and two of `publish_verified.py` with one of `verified_images.py`. The two
  publishers write no tag in common. Two destinations, of which `publish_ghcr.py` knows
  the first; two versions, of which tags may be taken.
* `Workbench` has ten units of time for up to four observations, and five for the
  progress test with two events. `PerformanceExport` records three events, keeps two
  and reads pages of one. `ProgrammeSearch` has two generations of two guides and four
  moments, with every start and end of a programme between two of them.
* Symmetry is used for ids that the specification only compares: those of
  `CommandQueue` and `DeviceRegistry`, processes and operations in
  `MCRecoverableWrites` and `MCReleaseControl` (an instance with fewer of them than the
  symmetry set, or with different tasks for them, reaches one at most of two states that
  differ by an exchange). It is never used in a run that
  checks liveness.
* `CHECK_DEADLOCK FALSE` is set where the program ends, or where ids, clock,
  generations or changes run out: `CommandQueue`, `DeviceRegistry` and the commands. In
  `receipt_wait`, `agent_operations` and `bundle_update` deadlock is checked.

The theorems of section 5 hold for every value of these bounds.


## 5. Proofs

| Module | Theorems | Inductive invariant |
|---|---|---|
| `CommandQueueProofs` | `TypeCorrect`, `QueuedIsPendingCorrect`, `SafeDeliveryCorrect`; of the journal `JournalAgreesCorrect`, `JournalAnswersCorrect`, `ImplementsLedgerCorrect` | `TypeOK`, `Identified`, `JournalCovers`: a keyed entry of the queue has a pending record with its id, which is retained until the entry expires or longer; `Answers` and `Stamped` for results and timestamps. For the journal `Named`, `DiskAgrees`, `DiskStory` (memory and file), `Remembered`, and the limits |
| `ObservationProofs` | of `ReceiptWait`: `TypeCorrect`, `NoLostWakeupCorrect`, `WaitersCountedCorrect`, `SafeWaitCorrect` | `TypeOK`, `NoLostWakeup`, `WaitersCounted` together |
| | of `PerformanceTrial`: `SafeTrialCorrect` | `TrialTyped`, `RevisionsCurrent`, `OneChange`, `SafeRestored`, and `ForeignKept` itself |
| | of `PerformanceExport`: `ExportExactCorrect` | an ascending ring (`ExportInv`), `Exact` as long as there is no reason against it |
| | of `Workbench`: `ProgressHonestCorrect`, `NoneStarvedCorrect` | `SamplesNamed`; `OfThePlan`, `EnoughLeft`, `EnoughShared`, `HasAsked` |
| | of `ProgrammeSearch`: `SoundSelectionCorrect` | `SearchTypes`, `ResultsSound`, `RowsSound` |
| `DeviceRegistryProofs` | `TypeCorrect`, `ProvenOnlyCorrect`, `NeverRevivedCorrect`, `CredentialsSoundCorrect`, `MutationsSoundCorrect`, `PairingSoundCorrect` | `TypeOK`, `Minted`, `Serving`, `Remembered`; for mutations `Issued`, `Performed`, `Known`, `Ended`, `FileKeeps`, `ClaimsBounded`; for pairings `Agreed`, `Given` |
| `AgentOperationsProofs` | `TypeCorrect`, `ActsOnceCorrect`, `AcceptedFirstCorrect`, `HonestReceiptCorrect`, `HonestAnswerCorrect`, `NothingOvertakesCorrect`, `HonestAgentCorrect` | `TypeOK`, `Control`, `Final`, `Journaled`, `Fresh`, `Vouching`, `Receipting`, `ActsOnce`, `AcceptedFirst` |
| `BundleUpdateProofs` | `TypeCorrect`, one for each part of the safety of `bundle_update`, `PairKeptCorrect`, `StepsMatchedCorrect` | `TypeOK`, `RollbackPairKept`, `WholePair`, `Sealed`, `Tracked`, `NotBegun`, `Modes`, `Installed`, `Fencing` |
| `PlayerCommandProofs` | of `GroupCommand`: `HonestReportCorrect` | `Typed`, `Resolving`, `Pool`, and for every player `Running`, `Sending`, `Telling` |
| | of `BoundCommand`: `SafeCommandCorrect` | `BoundTyped`, `OneBoundRequest`, `TrueAnswerOfBound`, `TrueOutcomeOfBound`, `Temporary` |
| | of `MediaSelection`: `HonestDispatchCorrect` | `SelectionShape`, `ChangesOnce`, `NotYetSent`, `ProviderBound`, `Wants`, `TrueReports` |
| | of `TorrentIndexer`: `HonestIndexerCorrect` | `SentByPlan`, `SentOnce`, `AnsweredTruly`, `ReportedTruly` |
| | of `TorrentCatalog`: `HonestCatalogCorrect` | `CatalogTyped`, the catalogue `WasRead`, `OneExchange`, `ExactlyPlanned`, `AppliedOnce`, `CatalogAnswers`, `SentByPhase`, `CatalogReported` |
| | of `DevicePower`: `SafeShutdownCorrect` | `PowerTyped`, `SameDevice`, `RequestedOnce`, `SentSoFar`, `TouchKnown`, `PowerReported` |
| | of `AppUpdate`: `SafeUpdateCorrect` | `UpdateTyped`, every request `OfItsRelease`, and for every invocation `CheckedRelease`, `NotYetAsked`, `ReportedOfRelease` |
| | of `RegistryOperator`: `SafeRecoveryCorrect` | `RegistryTyped`, `LiveSound`, `ReceiptsSound`, `PostsSound`, `DoubtSound`, `AnswerSound` |
| | of `PlayerSettings`: `SafeSettingsCorrect` | `SettingsTyped`, `SettingsInStep`, `WriteOnce`, `TrueSettingsReports`, `PageSound`, `PageCurrent`, `ListedCurrent` |
| `RecoverableWritesProofs` | of `FavoritesReplace`: `TypeCorrect`, `RecoverableCorrect`, `HonestOutcomeCorrect`, `SafeReplaceCorrect` | `TypeOK`, `Recoverable`, `OneRun`, `Books`, and for every run `Placed`, `Asked`, `Linked`, `Confirming` |
| | of `GlobalFavorites`: `CommitsThePlanCorrect`, `ListedAtOnceCorrect` | for every run `Staging`; `TypeOK`, and for every run `Listing`, `Chosen` |
| | of `PresetSession`: `SafePresetCorrect` | `PendingTyped`, `OnlyPending`, `AnsweredIsOver`, `BetweenSteps`, `Verifying`, `PresetTyped` |
| | of `ConfigStore`: `SafeReplacementCorrect` | `ConfigTyped`, `LockHeld`, and for every command `UpToDate`, `BackedUp` |
| | of `UsbRecovery`: `SafeAttemptsCorrect` | `TypeOK`, `BootsOrdered`, `AttemptsCounted`, and for every process `UsbExclusive`, `UsbLaunched` |
| | of `RecoverableWrites`: `GroupImplemented` | none: its steps are steps of `FavoritesReplace` or leave it alone |
| `ReleasePublicationProofs` | `ReservationsCorrect`, `NumbersUniqueCorrect`, `PublicationCorrect` | `Typed`, `ReadBefore`, `Reservations`, `Based`, `Bounded`, `Drafted`, `Copied`, `OneAtATime`, and for every run `Placed`, `Spending`, `AtWork` |
| | of `VersionPreparation`: `OwnedTopicCorrect` | `PreparationTyped`, `Descent`, `MergedWhole`, `BuiltOnOwn`, `Reachable`, and for every preparation `Preparing` |
| | of `ImagePublication`: `SafeImagesCorrect` | `Registered`, `Promised`, and for every run `AtTag` or `AtDestination` |

The proofs use the assumptions that the modules state about their constants:
`TimesAssumption` (retention is not shorter than a command's life,
as `Config.Validate` demands), `LimitsAssumption`, `KeysAssumption`,
`WaitersAssumption`, `ConfigAssumption` (static tokens are distinct),
`ConstantsAssumption` (among others that the ids of pairings and of operations differ,
both being fresh random ids), `AgentAssumption`, `BundleAssumption`,
`PreparationAssumption`, `GroupAssumption`, `FavoritesAssumption` (of which only that `NoOp` is no operation is
needed), `GlobalAssumption` (items, titles and revisions, of which there is one at least),
`ReleaseAssumption`, `PresetAssumption`, `UsbAssumption`, the `ConfigAssumption` of `ConfigStore`,
and of the commands for one player `BoundAssumption`, `SelectionAssumption`, `OperatorAssumption`,
`SettingsAssumption` and `UpdateAssumption` (among others that the version code of a manifest is a
number), and of those that only observe `WorkbenchAssumption`, `TrialAssumption`, `ExportAssumption`
and `SearchAssumption` (`MCObservation` states them of its instances).
`ImageAssumption` says that there is a destination and that what is not a version is none;
`MCReleaseControl` states it, and `PreparationAssumption`, of its instances.
`NoneStarvedCorrect` assumes besides that a command has six units of time, and the
progress test four beyond its pause (`EnoughTime`). The unit is the model's, and the code demands that the budget
exceeds the pause by a second (`workbench.py:1031`): with quarters of a second, or
anything finer, both hold. With one unit for two lanes a share would round to nothing, which real
time does not.
`PresetAssumption` says among others that the pause between an intent and
its post is within the margin (`Pause <= Margin`); section 7 says what the code does.
The theorems of `BundleUpdateProofs` assume besides that the write
of `committed` does not fail after its rename (`"committed" \notin Torn`): section 6
shows why. `ReservationsCorrect` holds however runs of the release workflow overlap;
`PublicationCorrect` assumes that the workflow's concurrency group holds (`Serial`,
`release-pipeline.yml`), as the promises it states do, and `NumbersUniqueCorrect` that it
holds *or* stable releases are built and not promoted. Where a run's specification has fairness (`FairSpec`) the theorems are about
`Spec`, which it implies.

*Why the invariants need strengthening.*

* `QueuedIsPending` speaks of a record that lives at an instant, and time passes
  between two steps. `JournalCovers` says that the record's deadlines, in whole
  seconds, are not before the entry's; then whatever prunes the record at an instant
  has dropped the entry at that instant.
* `AnsweredOnce` needs that a response on its way is of a request already accepted
  (`AnswersKnown`), since an id that is given out later would otherwise meet an old
  answer; `TimestampsOrdered` that `lastTS` is the newest of the queue (`LastStamped`).
* What a restart reads back must continue the story of the memory it replaces.
  `DiskAgrees` says that a retained row is on file with the same id and deadline, and
  `DiskStory` that the file is ahead by an outcome at most, or by an operation that
  was never accepted. `RetryAnswered` and the refinement both rest on it:
  an admission that failed after its rename leaves a row that the ledger never saw
  (`Named` keeps its id from being anyone else's).
* A revocation resets the waiter count and the channel. That keeps `WaitersCounted`
  and `NoLostWakeup` only because nobody is inside the gate, which is in the guard of
  `Publish`, and because the count is the number of sleepers, which is the other
  invariant.
* `NeverRevived` needs that retired tokens are in the revoked hashes of *both* the
  registry in memory and the file (`Remembered`), that a new configuration consistent
  with the file cannot bring one back (`Serving`), and that no token is minted twice
  (`Minted`).
* `AppliedOnce` needs that a mutation that was performed leaves a generation from which
  it can no longer be performed (`Performed`, `Issued`), in memory and on file, since a
  receipt may expire and the mutation be asked for again. The pairing properties need
  that a lookup in progress is about the pairing's device (`Agreed`), that a pairing
  which ended is not pending again (`Ended`), and that an answered claim and its
  record name the same credential for as long as either exists (`Given`).
* `ActsOnce` needs that an entry for a request that acted, was answered or is held
  is missing from a file only once the request has expired (`Journaled`), so that a
  redelivery always meets it, and that what may still act has not (`Fresh`).
  `HonestReceipt` needs what entries promise (`Vouching`) and what receipts say
  (`Receipting`) in memory and on file, since a crash replaces one by the other.
* `RollbackPairKept` needs to know which parts of the saved pair are on file in each
  early phase (`NotBegun`); `WholePair` that the update works on the transaction that
  is pending (`Tracked`), forwards or backwards as the phase allows (`Modes`), and
  that after both replacements the target is what is installed (`Installed`);
  `NothingToRecover` that `/system` is read-only whenever nothing is pending (`Sealed`)
  and that an idle agent with a pending transaction is fenced (`Fencing`).
* A row of `HonestReport` speaks of the controller, to which abandoned threads may still
  post. `Telling` says the same of the *posts*: a row "not requested" is written only
  when the post of the last call was never handed to a thread, "refused" when its
  thread has the refusal. `Sending` relates posts to the controller and to the step the
  job is at, and `Running` a job's position to its future, so that a row which the
  main thread fills in belongs to a job that never began.

* `Recoverable` needs that a record is marked as proved only for a verified commit
  (`Books`), for only such a record may another run evict, and that a commit on its way
  is of an operation that has not begun to be committed (`Linked`). That in turn holds
  because an operation is minted for one editing run (`OneRun`), and because a run that
  is short of its commit cannot have one on its way (`Asked`). `HonestOutcome` follows
  from what `Linked` says of an outcome: "not applied" is said of an operation that has
  ended without a commit, or by the run whose commit was never sent.
* `NeverInDoubt` is about commands, and a run decides by the answer of the journal or by
  the ticks left on file. `OnlyPending` relates the two: one command at most is on its
  way, and what it may still need, for the post and in the queue, is less than the wait
  on file. `AnsweredIsOver` says that an answer means there is none, and `BetweenSteps`
  that an intent which is not posted yet leaves the post all the time it may take.
  `VerifiedIsTrue` follows because nothing is pending during a verification, so only
  the viewer can change what was compared (`Verifying`).
  That the state has its types rests on what is ahead of a run: steps on the slots, the
  providers and the profiles of the preset (`PresetTyped`), whichever profile a list
  shows to be active.
* `CommitsThePlan` speaks of the moment the player executes a commit, perhaps long after the
  run gave it up. `Staging` says that the revision `begin` named is that of the snapshot
  once it was sent, so that an unchanged revision is an unchanged snapshot; that of the
  requests of a run which are still on their way none can disturb the transaction while its
  commit is (a preview that is late may not replace a result that was compared); and that
  the result on the player is the plan from the comparison on.
* `ListedAtOnce` needs that the rows so far are the beginning of what the first page was read
  from, and that this is what the player has as long as the revision is the first page's
  (`Listing`). That a list of all rows has each item once, a type of the model, needs what
  a finite set's enumeration in its order is (`Enumeration`), and that a plan only appends
  items that are new (`PlanIs`).
* `SafeReplacement` needs that what a command is about to write over is still what it read
  (`UpToDate`). For favorites and power bindings that rests on the lock (`LockHeld`),
  which everyone who is at work at the same time shares (`OfOneKind`).
* `AttemptsBounded` speaks of every boot there was, and the file remembers one.
  `AttemptsCounted` bounds the attempts of the boot observed by those on file, as long as it is not
  completed; that later boots have none yet, and earlier ones are not observed again, is
  `BootsOrdered`: a process that read a boot holds the lock until it has decided
  (`UsbExclusive`), so nobody has observed a later boot meanwhile. `CompletedWasShown` needs that a launch
  between the first question for the boot and the last one was in that boot
  (`UsbLaunched`): boot numbers only grow, and the two answers are the same.
* `DistinctPlans` needs that what a run read of the ledger is the ledger, or an older one
  (`ReadBefore`): a write passes only if nothing came between. `OneBuildPerNumber`
  speaks of drafts, long after the reservation. `Spending` says that a number
  is spent above those spent before, so once for a run, and that a run which may still
  create a draft has none; `Drafted` that a draft has the name and the number that its
  creator's plan has or had; with them two drafts of a number are of one run, or of a
  candidate and a promotion of it. Those hold the same bytes by `Copied`. That a name is
  free for the next number needs `Bounded`: sequences under a line have a maximum,
  since there are finitely many of them.
* A bound command, a selection, an indexer's command and an update may end while what they
  sent is still on its way, and what they say must stay true. Each invariant
  therefore says where a request can be at each point of the program: in one place only
  (`OneBoundRequest`), nowhere before it was sent (`NotYetSent`, `NotYetAsked`,
  `SentByPlan`), and nowhere after a refusal (`TrueAnswerOfBound`, `AnsweredTruly`; of an
  indexer's request: after one whose reason is not that the companion did not answer).
  `TemporaryOnly` needs that the runtime which was found to know temporary playbacks is
  still a current version whenever it is the one that executes (`Temporary`): it may be
  replaced by an older version, under another runtime only. That what plays is of the
  provider asked for needs that a catalogue's revision names it for as long as
  the player is at that revision (`ProviderBound`).
* `SafeShutdown` speaks of one device, and the connection may come back as another's.
  `SameDevice` says that the transport whose identity was read is the bound device's as
  long as it is the present one; `TouchKnown` that a button seen focused after the touch
  means that the touch is spent.
* `NothingUnseen` is a property of steps, and the step that ends a listing sees its last page
  only. `ListedCurrent` says that the pages so far are a beginning of what is held as long
  as the revision is still theirs, and `PageCurrent` that an answer on its way goes on from
  there and says truly whether more follows; revisions grow with every change. That a write
  is over what was read needs that the request names what the command is bound to
  (`WriteOnce`), wherever the request has got to.
* `HonestCatalog` needs that a revision read off the player names what the player held at that
  revision, that whatever is on its way to the player or was applied there is the planned
  catalogue, that it is applied at most once, and that after a failure was reported no request
  that changes the player is left anywhere.
* `SafeRecovery` needs that requests of an operation are the same request
  (`LiveSound`), so that a receipt answers each of them, that no receipt is forgotten
  while its request can arrive (`ReceiptsSound`), and that whatever was sent is settled or
  in the checkpoint (`DoubtSound`). That a refusal of what was sent once is final needs
  the numbers of the posts: while the only one is on its way there is no effect, and once
  it was handled nothing of the operation is on its way (`PostsSound`).
* `NoDowngrade` compares the numbers of a draft and of everything public. With the
  concurrency group the run at work is alone (`OneAtATime`) and its number is the floor
  (`AtWork`), which no number in public exceeds.
* `OwnedTopic` speaks of all the ancestors of a commit, and a preparation looks at the tip of
  a branch. `Preparing` says what it may have adopted: a commit that is in main, or one of a
  preparation that adds no source to the commit checked out. Of the first all ancestors are
  in main with it (`MergedWhole`), of the second those of other people were when it was made
  (`BuiltOnOwn`, an induction along the branch, with `Descent` for its order), and still are.
  That no commit is lost when a branch moves needs that ancestors of ancestors are ancestors
  (`Descent`).
* A trial whose answers are lost does not know what it changed. `RevisionsCurrent` says that
  the revisions it goes by, and those of requests on their way, are the policy's or older, and older
  for certain once somebody else has written; `OneChange` that one change at most is on
  its way, and that what was written is what the trial owns, or what that change will
  have done. So a change that still arrives is refused if it would undo somebody else's
  (`ForeignKept`), and a restore is reported only of the original value (`SafeRestored`).
* `ExportExact` is about an export that may have lost pages and a ring that forgot events. `Exact`
  says that what was read so far is a beginning of the first session's events without a gap,
  *or* that there is a reason on file; no step removes a reason. That the last page is the last one
  is a matter of counting: ascending numbers from 1 to n which are n in number are all of
  them (`Counting`).
* `ProgressHonest` compares samples by runtime and generation, and speaks of the media.
  `SamplesNamed` says that every sample, the one on its way too, is of the media that
  plays now, or of an earlier runtime or generation, so that equal names are equal media.
* `NoneStarved` needs what is left of the deadline before each observation: enough for one unit
  for each lane of it and of those that follow (`EnoughLeft`, with `Required` for the
  numbers of each command), whatever was used of the windows before. Within one, `EnoughShared` says that
  what is left is a unit for each lane to come.
* `SoundSelection` needs that the rows of a search are what *one* generation says
  (`RowsSound`), and of cached results that nothing begins or ends before they expire
  (`ResultsSound`): nothing was on when they were found, and the least of
  the starts and ends to come is their limit (`QuietUntilBoundary`).

An action property is proved from the same invariant: a step from a state that
satisfies it, one lemma for the steps that could break the property. The refinement
is proved by kind of step: every action of `CommandQueue` admits, fails to admit,
settles, fails to settle, restarts or is quiet for the journal, and each kind is a
step of `OperationLedger` or a stutter.

*What the proofs found.* `NoLateOutcome` excuses a restart, which may bring back the
outcome of a save that failed after its rename; its first form recognised a restart by
`since' # since`, which is not so of two restarts within a tick. The induction failed
there, and the property now excuses the commands that are dropped (`voided`). `DeviceRegistry` used pairing ids and
operation ids in one receipt without saying that they differ; `ConstantsAssumption` says
it now. `OneBuildPerNumber` was first tried without a condition on the runs. The induction
stopped at the creation of a draft: two promotions of one candidate at the
same time both pass the search for its name, and when the tag is discarded between
the two creations, the name has two drafts. GitHub is asked twice, and only the
concurrency group makes the two questions one. `OwnedTopic` held in its run, and its
induction failed: `Topic` took the branch of another preparation whatever main it was cut
from, and with one more commit of main and one more of a branch TLC found a preparation that
builds on what main gained after the commit it had checked out.
`verify_owned_topic` refuses such a branch, since the difference to the merge base has what main
gained; commits of main now have their sources (`SameSources`), and the guard compares them. The resolution of a group's names had been one computed value; what can be
said of each player being a target once is said of the loop, as in the code.
`Confirmed`, `Verdict` and `ProgressVerdict` were `CASE`s whose guards overlap. TLC takes the first that
holds, the meaning of TLA+ is any of them, and a proof could not tell a failed verdict from
a passed one: they are conditions in the order of the code now. In `Workbench` the
pause of the progress test began with a step of its own, before which time could already pass
beyond the pause's end: such behaviours stopped there. The pause now begins
with the end of the first observation and lasts its `Duration`.

The theorems `SafeDeliveryCorrect`, `JournalAgreesCorrect`, `JournalAnswersCorrect`,
`ImplementsLedgerCorrect`, `SafeWaitCorrect`, `CredentialsSoundCorrect`,
`MutationsSoundCorrect`, `PairingSoundCorrect`, `HonestAgentCorrect`,
`PairKeptCorrect`, `StepsMatchedCorrect`, `HonestReportCorrect`,
`SafeReplaceCorrect` and `NumbersUniqueCorrect` put the parts together: they state, for every value of the constants, the very properties that the
runs check. With them every safety property of the controller, of the agent, of group
commands and of the publication of releases that a run checks is proved.

`SafeCommandCorrect`, `HonestDispatchCorrect`, `HonestIndexerCorrect`, `SafeShutdownCorrect`,
`SafeUpdateCorrect`, `SafeRecoveryCorrect`, `SafeSettingsCorrect` and `HonestCatalogCorrect`
are about `CommandsSpec`, `CommitsThePlanCorrect`, `ListedAtOnceCorrect`,
`SafePresetCorrect`, `SafeReplacementCorrect` and `SafeAttemptsCorrect` about `WritesSpec`,
`OwnedTopicCorrect` and `SafeImagesCorrect` about `MCSpec` of `MCReleaseControl`, and `SafeTrialCorrect`,
`ExportExactCorrect`, `ProgressHonestCorrect`, `NoneStarvedCorrect` and
`SoundSelectionCorrect` about `MCSpec` of `MCObservation`: the specifications of the runs
`player_commands`, `recoverable_writes`, `release_control` and `observation`, whose properties of
those names they state. Each is proved in two steps. A lemma says of one
module what its steps keep (`BoundCommandSafe`, `PresetKept` and the like); the
theorem then says that a behaviour which is of this part begins in a first state of the
module and only takes its steps, since no step changes `part`, and that the properties of
the other parts hold of it for that reason. (`SafePublication` is what
`PublicationCorrect` proves, said of the instance of `ReleasePublication` with runs one after
another: the theorem is about every value of that module's constants with `Serial`, and has
this instance's values among them.)

*The images.* `SafeImagesCorrect` is about any runs, destinations and versions. What is
promised of tags could fail in three ways, and the invariants `CandidateInv` and `StableInv` have a part
against each. A run could have other bytes than its version's: what it downloaded was verified,
and stays its own when the asset of the release is replaced (`AtTag`, `AtDestination`). It could
write over a tag that it believes to be free: no listing says so of an image which has the
tag, since what is not known has no tags (`Registered`), and the only bytes that may have come
since are those of the same version, from another run (`Ours`). And it could move `latest` to a
version that some image lacks: all copies to the version come before the first copy to latest
(`CommandsInOrder`), a copy that fails is the last, so that a run which is at a command has
made those before it. What was read or promised stays so because the first two say that a tag
once written is settled (`TagsSettled`).

*Only model-checked.* Liveness (`EveryReadEnds`, `RevocationCompletes`,
`EveryUpdateEnds`, `EveryRequestEnds`, `EveryTargetReported`) is outside the prover's
reach. Every safety property of a passing run is
proved: by a theorem that states it or, `SafePublication`, by the theorem of the module it is an
instance of.


## 6. A document and the code that differ

`torn_commit` checks `RemainsPending`, which `native/android-agent/README.md:319`
says of the agent: *"If rollback cannot finish, the transaction remains pending for
inspection."* TLC finds it violated. `writeState("committed")`
(`bundle_update.go:329`) ends in `atomicFile` (`config.go:90-118`), which renames
the file and only then syncs the directory; if that fails, the file says committed
and the caller has an error. The update then sets the state back to pending *in
memory only* and rolls back. When that rollback fails as well, or the agent stops
inside it, the file says committed over an APK and a helper that do not match: the
agent is not fenced and startup recovers nothing.

`bundle_update` and the theorems exclude this one failure (`"committed" \notin
Torn`); the torn writes of the two other states are included, and harmless.


## 7. What we noticed besides

Behaviours met while modelling. Most of them no document denies; where one does, its
line is quoted. Those that a module reaches have no violating run of their own: the
property of the module says what does hold.

* An acknowledgement reads `now` before a slow body. It can settle an operation
  that another client was already told is `unknown` (`server.go:670`).
* A `begin` that fails after its rename leaves an operation on file that was never
  queued; it becomes `unknown` at the next start. A `finish` that fails after its
  rename leaves the disk ahead of memory until the next save.
* A legacy poll drains keyed commands without settling them: they stay pending until
  their deadline and are then reported `unknown`.
* A request can be accepted although its result will be refused, because the 50
  retained results are counted when the result arrives.
* A waiting writer of `registryGate` keeps out results while readers sleep in it; the
  timers of at most a second free them.
* A claim's `ExpiresAt` is rounded down to a second. An approval that is retried after
  its claim was retired is told 404 or 409 although it took effect.
* A refresh of the discovery joins a lookup that had started before.
* An agent whose acknowledgements are lost until the result has left the controller
  (60 s) drops the operation when it expires, though the controller said ok.
* A journal write that fails once lets a later request of the same batch act before
  the earlier one. A full journal leaves a request unanswered until entries expire.
* Prepared operations are dropped by the clock of the last poll, so not while the
  controller is out of reach. Within the same runtime the receipt of such an operation
  continues to say `accepted`.
* The margin of a preset's intent (`preset_session.py:190`) is computed before the
  checkpoint is saved and the command posted. When the host sleeps between the two for
  longer than the margin, a later run may send a step again whose first command is
  still queued, although `docs/reliable-control.md:153-155` says that the deadline has
  then passed. `PresetSession` bounds that pause by the margin (`IntentWithoutTimeout`,
  its mutant, shows what the margin is for).
* An export answered "unsupported" without the details of a recording leaves its
  request in the state "sent" (`performance.py:407`), and `report verify` judges the
  finished directory to be in error (`report_verify.py:488`), where
  `docs/performance-capture.md:114` says that unavailable evidence is valid. The same
  happens when a session was replaced and its clock went backwards.
* An addition to the configuration reads the file again at its end (`ott.py:6335`) and
  replaces it in a second step, without a lock (`ott.py:6369`): what another command saved
  between the two is lost, although `docs/cli.md:629` says that concurrent changes to
  other aliases and fields are preserved. `alias`, `group` and `android bind` take no lock
  of the favorites either. `ConfigStore` has all of these losses. `SafeReplacement` says how
  far they go: what a command replaces is what it saw at its last look, unless another
  that shares no lock with it wrote after that look.
* Any status below 500 retires the checkpoint of a registry operation
  (`device_registry.py:286-289`), also a 429, which the controller answers
  (`device_registry_api.go:48-67`) before it looks for the receipt (lines 150-157). An
  operation that "resume" sends again can so be reported refused, and leave the
  checkpoint, although its first post took effect or may still. `RegistryOperator` has
  these steps; `SafeRecovery` takes a refusal for proof only when the request had been
  sent once.
* Reasons such as `companion_timeout` and `torznab_timeout` of an indexer's mutation are
  reported as failed (`torrent_indexer.py:24-70, 302-312, 683-687`), although the companion
  may have executed it or may yet; `docs/torrent-indexer.md:235` calls a timeout
  uncertain. In `TorrentIndexer` they are the refusals "unfinished", and `HonestIndexer`
  promises of those only that the request is not queued any more.
* Records of favorites operations that were never committed stay unproved and hold
  their slot until the directory is full, and a new operation is then refused.
* `publish_verified.py` fails with an uncaught `TypeError` when a registry lists
  `"Tags": null` (`publish_verified.py:180`), which `publish_ghcr.py:196` takes for no
  tags. Nothing is copied.
* A tag pushed, or a pull request merged, after a preparation has looked is noticed by the
  next one only; what it pushes is still its own commits.


## 8. Fairness, abstractions, and what is not modelled

### Fairness

* `ReceiptWait`: every handler runs, timers fire, a waiting writer gets its turn;
  a body that does not arrive fails at the connection's read timeout
  (`cmd/ottplay-control-server/main.go:146`). A reader that a writer kept out enters
  before the next writer (`sync.RWMutex`), hence strong fairness of `EnterGate`. The
  device and the other clients never have to act.
* `BundleUpdate`: weak fairness of the agent's own steps (it never waits inside an
  update for anything but bounded commands, and its supervisor starts it again) and
  of `Repair`: a fenced agent is repaired by a signed update, the way its README says.
* `AgentOperations`: weak fairness of the agent's loop and of the clock. Failures are
  finitely many, and no fairness is assumed of the operators.
* `GroupCommand`: weak fairness of the process's threads; a wait ends at its deadline.
  Neither the network nor a player has to answer.

The other modules state no fairness: their programs end at a deadline that can pass at
any step, and what matters is what they have said by then.

### Abstractions

* Payloads are model values of size one. Byte budgets are numbers of entries;
  which payload is too large is not modelled.
* In the modules of the controller authentication, scopes, permissions, rate limits and
  payload validation happen before the modelled state is touched and only refuse.
* Time is whole ticks (`CommandQueue`) or the passing of a deadline at any moment
  (`ReceiptWait`, `DeviceRegistry`), which is more than what the code can do.
* Random ids, generations and tokens are fresh numbers; digests are what they digest.
* Not modelled in `DeviceRegistry`: `lastSeen`, the registry's JSON and byte limit,
  the diagnostics flags.
* Not modelled in `AgentOperations`: the limit of 64 receipts and their 24 hours,
  byte limits, what an operation does beside acting or failing.
* `BundleUpdate` leaves out downloads, signatures, archive entries and the storage
  check; it assumes that nobody else launches the player or installs a component
  while a transaction executes.
* Commands of the command line are told apart by the requests they make and by what
  they decide from the answers. Parsing of arguments, wording, tables and JSON are
  left out; a validation that only refuses is an answer that may be refused.
* Documents (favorites, catalogues, plans) are small sequences or sets of model values;
  chunks are counted; digests are what they digest.
* A deadline may pass at any wait. Where the code compares two times (the intent of a
  preset, the shares of a workbench, the search's recheck) the model has ticks.
* `ProgrammeSearch` computes a selection in one step, as the code does between two
  requests; the compact `/search` answer and deferred origins are left out.

### Not modelled

* *Notifications and camera media, player state, diagnostics, televisions, Home
  Assistant bridge, pairing in static mode, discovery* of the controller: each has one
  map under one lock; what could go wrong in them is in section 9.
* *Watchdog and the agent's self-update*: likewise.
* *HTTP front end, configuration, wire patterns, main program*: no state that
  outlives a request, or validation at startup.
* *Execution, CDP, evidence, Android home, USB probe*: input and output of Android.
* *Command line: diagnostics, fleet, television, playback status, media tracks*: one
  request and its presentation, or a loop over players that only reads.
* *Command line*: the codecs and limits of documents, the transfer of favorites between
  players, the provisioning journal and the Kubernetes Secret of an addition, the web
  server for local media.
* *USB manager*: the transaction that installs it (`android_usb_transaction.py`).
* *Release*: building, signing and provenance, Kubernetes deployment, Python packages,
  and the test drivers and workflow contracts of `scripts/`.
* *webOS, Home Assistant, Android, the player itself, GitHub*: outside the repository;
  the modules have what the code relies on, and `map` marks it external.


## 9. What could be added

| Module | Questions |
|---|---|
| `Notifications` (with `media_handler.go` and the two camera workers) | Does a recipient ever find what its previous runtime was sent? Is a frame granted to somebody who lost the right during the fetch? |
| `PlayerState` | Can a row of a rotated device come back through the save outside the lock? |
| `Diagnostics` | Is the reservation of each session's stop receipt paid back on every path? Is a repair answered after its lease or consent ended, or twice? |
| `Television` | Is a command that may have reached the television ever repeated by the fallback? |
| `AgentUpdate`, `Watchdog` | The four steps of replacing the agent's own binary, with the supervisor that restores the previous one; is a player restarted for ever, or never again? |
| a ledger of credentials | An abstract specification that `DeviceRegistry` implements: who may authenticate, without files, plans and lookups. |

