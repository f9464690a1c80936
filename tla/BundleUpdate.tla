---------------------------- MODULE BundleUpdate ----------------------------
(***************************************************************************)
(* The coordinated update of the native Android agent                      *)
(* (native/android-agent/bundle_update.go): the player's APK and the       *)
(* system's touch helper are replaced together, or the previous pair is    *)
(* restored.                                                               *)
(*                                                                         *)
(* An update is prepared, and executes once its acknowledgement was        *)
(* delivered: it saves the installed pair, writes a pending transaction,   *)
(* replaces both components, verifies the player and commits.  Every step  *)
(* can fail with part of its effect, and the process or the tablet can     *)
(* stop between any two of them; the agent recovers when it starts.        *)
(*                                                                         *)
(* A component is a model value, and so is what the player reports of its  *)
(* kiosk, queue and channel.  Downloads, signatures, archive entries, file *)
(* modes and the storage check are left out; commands of Android are       *)
(* modelled by their effect.                                               *)
(***************************************************************************)
EXTENDS Naturals

CONSTANTS
    Apks, Guards,
    Embedded,    \* the helper inside each APK
    Baselines,   \* what a player can report before and after
    None,
    Torn,        \* states whose write may fail after it replaced the file
    MaxFaults    \* bound of the model: failures and crashes

ASSUME BundleAssumption ==
    /\ Embedded \in [Apks -> Guards]
    /\ None \notin Apks /\ None \notin Guards /\ None \notin Baselines
    /\ Torn \subseteq {"pending", "committed", "rolled_back"}
    /\ MaxFaults \in Nat

VARIABLES
    installed,   \* the APK and the system's helper
    mount,       \* how /system is mounted
    saved,       \* the files previous.apk and previous.guard
    txn,         \* the file transaction.json
    running,     \* the player runs
    player,      \* its baseline, or None: disabled, in the background or silent
    phase,       \* what the agent does next
    work,        \* the update or the recovery it works on
    fenced,      \* Agent.bundleRecoveryFailed
    faults       \* failures so far

vars == <<installed, mount, saved, txn, running, player, phase, work, fenced,
          faults>>

Components == [apk : Apks, guard : Guards]
Matched(p) == Embedded[p.apk] = p.guard

\* validateBundlePair: the APK embeds the helper.
Pairs == {p \in Components : Matched(p)}

NoTransaction == [state |-> "absent"]
Transactions == [state : {"pending", "committed", "rolled_back"},
                 previous : Pairs, candidate : Pairs, baseline : Baselines]

NoWork == [mode |-> "none"]
Works == [mode : {"apply", "rollback", "recover"},
          previous : Pairs, candidate : Pairs, baseline : Baselines]

Target == IF work.mode = "apply" THEN work.candidate ELSE work.previous

-----------------------------------------------------------------------------
(* The order of the steps                                                  *)

Early == {"saveApk", "saveGuard", "begin"}
Steps == Early \cup {"stop", "guard", "install", "seal", "check", "start",
                     "verify", "reseal", "commit", "record"}
Phases == Steps \cup {"down", "idle", "ready", "restore", "giveUp", "settle", "failed"}

Ahead(p, mode) ==
    CASE p = "saveApk"   -> "saveGuard"
      [] p = "saveGuard" -> "begin"
      [] p = "begin"     -> "stop"
      [] p = "stop"      -> "guard"
      [] p = "guard"     -> "install"
      [] p = "install"   -> "seal"
      [] p = "seal"      -> IF mode = "apply" THEN "start" ELSE "check"
      [] p = "check"     -> "start"
      [] p = "start"     -> "verify"
      [] p = "verify"    -> IF mode = "apply" THEN "reseal" ELSE "record"
      [] p = "reseal"    -> "commit"
      [] OTHER           -> "settle"

\* Mutants: the helper is not saved; an update is committed before the player
\* came back; startup recovery launches the player.
AfterHasty(p, mode) == IF p = "saveApk" THEN "begin" ELSE Ahead(p, mode)
AfterBlind(p, mode) ==
    IF p = "seal" /\ mode = "apply" THEN "reseal" ELSE Ahead(p, mode)
AfterLaunching(p, mode) == Ahead(p, mode)

\* What follows a step that succeeded: startup recovery restores files only.
After(p, mode) ==
    IF p = "check" /\ mode = "recover" THEN "record" ELSE Ahead(p, mode)

\* Mutant: a rollback that failed is recorded as if it had not.
OnErrorRecords(p, mode) ==
    IF p \in Early THEN "failed"
    ELSE IF mode = "apply" THEN "restore"
    ELSE IF p \in {"stop", "guard", "install"} THEN "record" ELSE "failed"

\* What follows a step that failed: once the transaction is pending, rollback.
OnError(p, mode) ==
    IF p \in Early THEN "failed"
    ELSE IF mode = "apply" THEN "restore"
    ELSE IF p \in {"stop", "guard", "install"} THEN "giveUp" ELSE "failed"

Fault == faults < MaxFaults /\ faults' = faults + 1

Succeed ==
    /\ phase' = After(phase, work.mode)
    /\ UNCHANGED <<work, fenced, faults>>

\* The step returns an error.
Err ==
    /\ phase' = OnError(phase, work.mode)
    /\ work' = IF phase' = "restore" THEN [work EXCEPT !.mode = "rollback"] ELSE work
    /\ UNCHANGED fenced

Fail == Err /\ Fault

-----------------------------------------------------------------------------
(* Preparing and starting an update                                        *)

\* Preflight: the player runs in the foreground, reports its state, and /system
\* is read-only.
Fit == running /\ player # None /\ mount = "ro"

Prepare(next) ==
    /\ phase = "idle" /\ ~fenced
    /\ txn.state # "pending"
    /\ Fit /\ Matched(installed) /\ Matched(next)
    /\ phase' = "ready"
    /\ work' = [mode |-> "apply", previous |-> installed, candidate |-> next,
                baseline |-> player]
    /\ UNCHANGED <<installed, mount, saved, txn, running, player, fenced, faults>>

\* Mutant: what was prepared is executed although something changed since.
ExecuteRegardless ==
    /\ phase = "ready"
    /\ phase' = "saveApk"
    /\ UNCHANGED <<installed, mount, saved, txn, running, player, work, fenced, faults>>

\* The acknowledgement was delivered, perhaps much later: everything is looked
\* at again.
Execute ==
    /\ phase = "ready"
    /\ phase' = IF Fit /\ installed = work.previous /\ player = work.baseline
                THEN "saveApk" ELSE "failed"
    /\ UNCHANGED <<installed, mount, saved, txn, running, player, work, fenced, faults>>

\* The acknowledgement did not reach the controller in time.
Drop ==
    /\ phase = "ready"
    /\ phase' = "idle" /\ work' = NoWork
    /\ UNCHANGED <<installed, mount, saved, txn, running, player, fenced, faults>>

Save(p, component) ==
    LET new == [saved EXCEPT ![component] = work.previous[component]]
    IN  /\ phase = p
        /\ \/ Succeed /\ saved' = new
           \/ Fail /\ saved' \in {saved, new}
        /\ UNCHANGED <<installed, mount, txn, running, player>>

\* atomicJSON: a write that fails may already have replaced the file.
WriteState(p, state) ==
    LET new == [state |-> state, previous |-> work.previous,
                candidate |-> work.candidate, baseline |-> work.baseline]
    IN  /\ phase = p
        /\ \/ Succeed /\ txn' = new
           \/ Fail /\ txn' \in {txn} \cup {t \in {new} : state \in Torn}
        /\ UNCHANGED <<installed, mount, saved, running, player>>

-----------------------------------------------------------------------------
(* Replacing both components, forwards or backwards                        *)

Stop ==
    /\ phase = "stop"
    /\ \/ Succeed /\ running' = FALSE
       \/ Fail /\ running' \in {running, FALSE}
    /\ UNCHANGED <<installed, mount, saved, txn, player>>

\* /system is writable while the helper is replaced.
ReplaceGuard ==
    LET new == [installed EXCEPT !.guard = Target.guard]
    IN  /\ phase = "guard"
        /\ \/ Succeed /\ installed' = new /\ mount' = "ro"
           \/ Fail /\ installed' \in {installed, new} /\ mount' \in {"ro", "rw"}
        /\ UNCHANGED <<saved, txn, running, player>>

InstallAPK ==
    LET new == [installed EXCEPT !.apk = Target.apk]
    IN  /\ phase = "install"
        /\ \/ Succeed /\ installed' = new
           \/ Fail /\ installed' \in {installed, new}
        /\ UNCHANGED <<mount, saved, txn, running, player>>

EnsureReadOnly ==
    /\ phase \in {"seal", "reseal"}
    /\ \/ Succeed /\ mount' = "ro"
       \/ Fail /\ mount' = mount
    /\ UNCHANGED <<installed, saved, txn, running, player>>

\* The restored pair is read back.
Check ==
    /\ phase = "check"
    /\ \/ Succeed /\ installed = work.previous
       \/ Err /\ installed # work.previous /\ UNCHANGED faults
       \/ Fail
    /\ UNCHANGED <<installed, mount, saved, txn, running, player>>

\* A disabled player is not launched.
Start ==
    /\ phase = "start"
    /\ \/ Succeed /\ running' = TRUE
       \/ Err /\ player = None /\ UNCHANGED <<running, faults>>
       \/ Fail /\ running' \in {running, TRUE}
    /\ UNCHANGED <<installed, mount, saved, txn, player>>

\* The player is given time to come back as it was.
Verified == installed = Target /\ running /\ player = work.baseline

Verify ==
    /\ phase = "verify"
    /\ \/ Succeed /\ Verified
       \/ Err /\ ~Verified /\ UNCHANGED faults
       \/ Fail
    /\ UNCHANGED <<installed, mount, saved, txn, running, player>>

-----------------------------------------------------------------------------
(* Rolling back, and ending                                                *)

\* rollback reads the saved pair before it touches anything.
Restore ==
    /\ phase = "restore"
    /\ \/ /\ saved = work.previous /\ Matched(saved)
          /\ phase' = "stop" /\ UNCHANGED faults
       \/ /\ saved # work.previous \/ ~Matched(saved)
          /\ phase' = "giveUp" /\ UNCHANGED faults
       \/ phase' = "giveUp" /\ Fault
    /\ UNCHANGED <<installed, mount, saved, txn, running, player, work, fenced>>

GiveUp ==
    /\ phase = "giveUp"
    /\ phase' = "failed"
    /\ \/ mount' = "ro" /\ UNCHANGED faults
       \/ mount' = mount /\ Fault
    /\ UNCHANGED <<installed, saved, txn, running, player, work, fenced>>

\* Mutant: the state of the transaction is not looked at after an update.
SettleUnfenced ==
    /\ phase \in {"settle", "failed"}
    /\ fenced' = (work.mode = "recover" /\ phase = "failed")
    /\ phase' = "idle" /\ work' = NoWork
    /\ UNCHANGED <<installed, mount, saved, txn, running, player, faults>>

\* Whatever an update returned, the agent reads the transaction again; a recovery
\* that returned an error fences it too.
Settle ==
    /\ phase \in {"settle", "failed"}
    /\ IF work.mode = "recover"
       THEN fenced' = (phase = "failed") /\ UNCHANGED faults
       ELSE \/ fenced' = (txn.state = "pending") /\ UNCHANGED faults
            \/ fenced' = TRUE /\ Fault
    /\ phase' = "idle" /\ work' = NoWork
    /\ UNCHANGED <<installed, mount, saved, txn, running, player>>

\* The agent starts and recovers a pending transaction.
Startup ==
    /\ phase = "down"
    /\ \/ /\ txn.state = "pending"
          /\ phase' = "restore"
          /\ work' = [mode |-> "recover", previous |-> txn.previous,
                      candidate |-> txn.candidate, baseline |-> txn.baseline]
          /\ UNCHANGED <<mount, fenced, faults>>
       \/ /\ txn.state # "pending"
          /\ phase' = "idle"
          /\ UNCHANGED <<mount, work, fenced, faults>>
       \/ /\ Fault  \* the transaction cannot be read
          /\ phase' = "idle" /\ fenced' = TRUE
          /\ mount' \in {mount, "ro"}
          /\ UNCHANGED work
    /\ UNCHANGED <<installed, saved, txn, running, player>>

-----------------------------------------------------------------------------
(* Everything else that happens to the tablet                              *)

\* A standalone APK is installed only beside the helper it embeds.
InstallAlone(apk) ==
    /\ phase = "idle" /\ ~fenced
    /\ running /\ player # None
    /\ Embedded[apk] = installed.guard
    /\ installed' = [installed EXCEPT !.apk = apk]
    /\ running' \in BOOLEAN
    /\ UNCHANGED <<mount, saved, txn, player, phase, work, fenced, faults>>

\* The watchdog, or a lifecycle command, restarts the player.
RestartApp ==
    /\ phase \in {"idle", "ready"} /\ ~fenced
    /\ running' \in BOOLEAN
    /\ UNCHANGED <<installed, mount, saved, txn, player, phase, work, fenced, faults>>

\* Somebody installs another pair by hand.
ByHand(p) ==
    /\ phase \in {"idle", "ready"} /\ mount = "ro"
    /\ installed' = p
    /\ UNCHANGED <<mount, saved, txn, running, player, phase, work, fenced, faults>>

PlayerChanges ==
    /\ player' \in (Baselines \cup {None}) \ {player}
    /\ UNCHANGED <<installed, mount, saved, txn, running, phase, work, fenced, faults>>

\* The agent's process ends; what it keeps in memory is lost.
Exit ==
    /\ phase' = "down" /\ work' = NoWork /\ fenced' = FALSE
    /\ UNCHANGED <<installed, saved, txn, player>>

Crash == phase # "down" /\ Fault /\ Exit /\ UNCHANGED <<mount, running>>

\* The tablet restarts, and may launch the player as its home screen.
PowerLoss == phase # "down" /\ Fault /\ Exit /\ mount' = "ro" /\ running' \in BOOLEAN

\* A fenced agent is replaced by a signed agent update.
Repair == phase = "idle" /\ fenced /\ Exit /\ UNCHANGED <<mount, running, faults>>

-----------------------------------------------------------------------------
Init ==
    /\ installed \in Pairs
    /\ mount = "ro"
    /\ saved = [apk |-> None, guard |-> None]
    /\ txn = NoTransaction
    /\ running \in BOOLEAN /\ player \in Baselines \cup {None}
    /\ phase = "down" /\ work = NoWork
    /\ fenced = FALSE /\ faults = 0

Update ==
    \/ Save("saveApk", "apk") \/ Save("saveGuard", "guard")
    \/ WriteState("begin", "pending")
    \/ Stop \/ ReplaceGuard \/ InstallAPK \/ EnsureReadOnly
    \/ Check \/ Start \/ Verify
    \/ WriteState("commit", "committed") \/ WriteState("record", "rolled_back")
    \/ Restore \/ GiveUp \/ Settle \/ Startup

Environment ==
    \/ \E a \in Apks : InstallAlone(a)
    \/ \E p \in Pairs : ByHand(p)
    \/ RestartApp \/ PlayerChanges \/ Crash \/ PowerLoss

Next ==
    \/ \E next \in Components : Prepare(next)
    \/ Execute \/ Drop \/ Update \/ Repair \/ Environment

Spec == Init /\ [][Next]_vars

\* The agent never waits inside an update, its supervisor starts it again, and a
\* fenced agent is eventually repaired.
FairSpec == Spec /\ WF_vars(Update) /\ WF_vars(Repair)

-----------------------------------------------------------------------------
(* Properties                                                              *)

TypeOK ==
    /\ installed \in Components
    /\ mount \in {"ro", "rw"}
    /\ saved \in [apk : Apks \cup {None}, guard : Guards \cup {None}]
    /\ txn \in Transactions \cup {NoTransaction}
    /\ running \in BOOLEAN /\ fenced \in BOOLEAN
    /\ player \in Baselines \cup {None}
    /\ phase \in Phases
    /\ work \in Works \cup {NoWork}
    /\ work = NoWork <=> phase \in {"down", "idle"}
    /\ faults \in 0..MaxFaults

\* As long as a transaction is pending, wherever the agent or the tablet stops,
\* the files hold the complete pair to restore.
RollbackPairKept ==
    txn.state = "pending" => saved = txn.previous /\ Matched(saved)

\* The components match except while a transaction is pending, which is when
\* startup would restore them.
WholePair == txn.state # "pending" => Matched(installed)

\* An agent that accepts updates and restarts the player has nothing to recover,
\* and /system is read-only.
NothingToRecover ==
    phase \in {"idle", "ready"} /\ ~fenced => txn.state # "pending" /\ mount = "ro"

\* The agent launches the player only as a matching pair on a read-only system,
\* and never while it recovers at startup.
LaunchesMatched ==
    [][~running /\ running' /\ phase' # "down" =>
         Matched(installed') /\ mount = "ro" /\ work.mode # "recover"]_vars

\* Only a candidate that was installed, sealed and verified to play as before is
\* committed, over what was there when the update began to execute.
CommitsTheCandidate ==
    [][txn'.state = "committed" /\ txn.state # "committed" =>
         /\ installed = txn.candidate /\ mount = "ro" /\ running
         /\ saved = txn.previous]_vars

\* However late it executes, an update begins over the pair it was admitted for,
\* so that what a rollback restores is what was installed.
StartsAsAdmitted ==
    [][txn.state # "pending" /\ txn'.state = "pending" =>
         txn'.previous = installed]_vars

\* Wherever it stops, an update can be undone and leaves a pair that matches.
PairKept == RollbackPairKept /\ WholePair /\ NothingToRecover

\* Each of its steps is taken over the pair that was admitted, sealed or verified
\* before it.
StepsMatched == LaunchesMatched /\ CommitsTheCandidate /\ StartsAsAdmitted

\* However it fails, an update ends with an agent that is not fenced.
EveryUpdateEnds == txn.state = "pending" ~> phase = "idle" /\ ~fenced

\* A rollback that cannot finish leaves the transaction pending.
RemainsPending == phase = "idle" /\ ~Matched(installed) => txn.state = "pending"
=============================================================================
