----------------------------- MODULE UsbRecovery -----------------------------
(***************************************************************************)
(* Recovery of a tablet over USB: tools/android_usb_manager.py with the    *)
(* Supervisor of tools/android_usb_supervisor.py.                          *)
(*                                                                         *)
(* The service makes a pass now and then and an operator's commands run    *)
(* beside it; each holds the manager's lock while it fits the ADB container*)
(* to the USB node of the tablet, binds it and acts.  Every question to the*)
(* tablet and every action on it is a call of its own, between which the   *)
(* tablet reboots, is unplugged or used.  A process fails or is killed     *)
(* between any two calls, the lock being released with it.                 *)
(*                                                                         *)
(* One tablet: those of a registry share the lock and the container and    *)
(* nothing else.  wake, swipe, screenshot and adb end where Bind leaves    *)
(* off and change nothing that is recorded.                                *)
(***************************************************************************)
EXTENDS Naturals, FiniteSets

CONSTANTS
    Proc, NoProc,
    Node,          \* USB addresses
    MaxAttempts,   \* max_attempts
    MaxBoot        \* bound of the model

UsbAssumption ==
    /\ NoProc \notin Proc /\ 0 \notin Node
    /\ MaxAttempts \in 1..10 /\ MaxBoot \in Nat \ {0}

VARIABLES
    tablet,        \* the tablet, as seen on the bus and on its screen
    container,     \* the node the container maps, and whether it runs
    state,         \* state.json: boots observed and completed, attempts
    lock,
    pc, kind,
    snapshot,      \* the node of the tablet when the process reconciled
    boot,          \* the boot the process last read
    tried,         \* history: automatic attempts in each boot
    shown          \* history: boots in which the player came to the front

process == <<pc, kind, snapshot, boot>>
vars == <<tablet, container, state, lock, process, tried, shown>>

Kinds == {"tick", "recover", "reboot"}
Steps == {"reconcile", "create", "bind", "boot", "decide", "begin", "boot id", "probe", "dismiss",
          "unlocked", "launch", "foreground", "same boot", "still unlocked", "save", "restart"}
Boots == 1..MaxBoot
NoContainer == [node |-> 0, running |-> FALSE]

Init ==
    /\ tablet \in [boot : {1}, up : {TRUE}, locked : BOOLEAN, secure : {FALSE}, front : {FALSE},
                   node : Node \cup {0}]
    /\ container = NoContainer
    /\ state = [observed |-> 0, completed |-> 0, attempts |-> 0]
    /\ lock = NoProc
    /\ pc = [p \in Proc |-> "idle"] /\ kind = [p \in Proc |-> "tick"]
    /\ snapshot = [p \in Proc |-> 0] /\ boot = [p \in Proc |-> 0]
    /\ tried = [b \in Boots |-> 0] /\ shown = {}

-----------------------------------------------------------------------------
(* The tablet and the container                                            *)

Restarted == [tablet EXCEPT !.boot = @ + 1, !.up = FALSE, !.front = FALSE, !.locked = TRUE]

Reboot ==
    /\ tablet.boot < MaxBoot
    /\ tablet' = Restarted
    /\ UNCHANGED <<container, state, lock, process, tried, shown>>

Started ==
    /\ ~tablet.up
    /\ tablet' = [tablet EXCEPT !.up = TRUE]
    /\ UNCHANGED <<container, state, lock, process, tried, shown>>

\* Its user unlocks or locks it, sets or removes a PIN, leaves the player.
Used ==
    /\ tablet' \in {[tablet EXCEPT !.locked = ~@], [tablet EXCEPT !.secure = ~@, !.locked = TRUE],
                    [tablet EXCEPT !.front = FALSE]}
    /\ tablet' # tablet
    /\ UNCHANGED <<container, state, lock, process, tried, shown>>

\* Unplugged, or plugged in again at some address.
Plugged ==
    /\ \E n \in Node \cup {0} : n # tablet.node /\ tablet' = [tablet EXCEPT !.node = n]
    /\ UNCHANGED <<container, state, lock, process, tried, shown>>

ContainerStops ==
    /\ container.running
    /\ container' = [container EXCEPT !.running = FALSE]
    /\ UNCHANGED <<tablet, state, lock, process, tried, shown>>

-----------------------------------------------------------------------------
(* A process                                                               *)

Go(p, to) == pc' = [pc EXCEPT ![p] = to]
Ends(p) ==
    /\ Go(p, "idle") /\ lock' = NoProc
    /\ kind' = [kind EXCEPT ![p] = "tick"]
    /\ snapshot' = [snapshot EXCEPT ![p] = 0] /\ boot' = [boot EXCEPT ![p] = 0]

\* locked: the command waits for it, the service as well.
Acquire(p, k) ==
    /\ pc[p] = "idle" /\ lock = NoProc
    /\ lock' = p /\ Go(p, "reconcile") /\ kind' = [kind EXCEPT ![p] = k]
    /\ UNCHANGED <<tablet, container, state, snapshot, boot, tried, shown>>

\* A call fails, or the process is killed.
Fail(p) ==
    /\ pc[p] # "idle"
    /\ Ends(p)
    /\ UNCHANGED <<tablet, container, state, tried, shown>>

\* _reconcile: the inventory of the bus, then a container that maps exactly it.
Reconcile(p) ==
    /\ pc[p] = "reconcile"
    /\ snapshot' = [snapshot EXCEPT ![p] = tablet.node]
    /\ Go(p, "create")
    /\ container' = IF container.node = tablet.node THEN container ELSE NoContainer
    /\ UNCHANGED <<tablet, state, lock, kind, boot, tried, shown>>

Create(p) ==
    /\ pc[p] = "create"
    /\ container' = [node |-> snapshot[p], running |-> TRUE]
    /\ IF snapshot[p] = 0 THEN Ends(p)
       ELSE Go(p, "bind") /\ UNCHANGED <<lock, kind, snapshot, boot>>
    /\ UNCHANGED <<tablet, state, tried, shown>>

\* _device_adb: nothing is sent after the tablet left the node it was bound at.
Reached(p) == container = [node |-> tablet.node, running |-> TRUE] /\ tablet.node = snapshot[p]

\* Each of the steps below is one call to the tablet; what does not hold fails.
Call(p, at, to) == pc[p] = at /\ Reached(p) /\ Go(p, to)
Ask(p, at, to, holds) ==
    /\ Call(p, at, to) /\ holds
    /\ UNCHANGED <<tablet, container, state, lock, kind, snapshot, boot, tried, shown>>

Bind(p) == Ask(p, "bind", CASE kind[p] = "tick" -> "boot" [] kind[p] = "recover" -> "begin" [] OTHER -> "restart", TRUE)

ReadBoot(p) ==
    /\ Call(p, "boot", "decide") \/ Call(p, "boot id", "probe")
    /\ boot' = [boot EXCEPT ![p] = tablet.boot]
    /\ UNCHANGED <<tablet, container, state, lock, kind, snapshot, tried, shown>>

-----------------------------------------------------------------------------
(* tick and recover                                                        *)

Armed(b) == [observed |-> b, completed |-> b, attempts |-> 0]
Attempts(b) == IF state.observed = b THEN state.attempts ELSE 0

AttemptForgotten(b) == [state EXCEPT !.observed = b]
Attempted(b) == [state EXCEPT !.observed = b, !.attempts = Attempts(b) + 1]

\* The first boot that is seen is taken as it is; an attempt is on disk before
\* it begins.
Decide(p) ==
    LET b == boot[p] IN
    /\ pc[p] = "decide" /\ Reached(p)
    /\ IF state.observed # 0 /\ state.completed # b /\ tablet.up /\ Attempts(b) < MaxAttempts
       THEN /\ state' = Attempted(b)
            /\ tried' = [tried EXCEPT ![b] = @ + 1]
            /\ Go(p, "begin")
            /\ UNCHANGED <<lock, kind, snapshot, boot>>
       ELSE /\ state' = IF state.observed = 0 THEN Armed(b) ELSE state
            /\ Ends(p)
            /\ UNCHANGED tried
    /\ shown' = IF state.observed = 0 THEN shown \cup {b} ELSE shown
    /\ UNCHANGED <<tablet, container>>

Begin(p) == Ask(p, "begin", "boot id", tablet.up)

\* The keyguard: only a lock without a secret is dismissed.
Probe(p) == Ask(p, "probe", IF tablet.locked THEN "dismiss" ELSE "unlocked", ~tablet.secure)

Dismiss(p) ==
    /\ Call(p, "dismiss", "unlocked") /\ ~tablet.secure
    /\ \E dismissed \in BOOLEAN : tablet' = IF dismissed THEN [tablet EXCEPT !.locked = FALSE] ELSE tablet
    /\ UNCHANGED <<container, state, lock, kind, snapshot, boot, tried, shown>>

Unlocked(p) == Ask(p, "unlocked", "launch", ~tablet.locked)

Launch(p) ==
    /\ Call(p, "launch", "foreground")
    /\ tablet.up
    /\ tablet' = [tablet EXCEPT !.front = TRUE]
    /\ shown' = shown \cup {tablet.boot}
    /\ UNCHANGED <<container, state, lock, kind, snapshot, boot, tried>>

Foreground(p) == Ask(p, "foreground", "same boot", tablet.front)

AnyBoot(p) == tablet.up
SameBoot(p) == tablet.boot = boot[p]
Again(p) == Ask(p, "same boot", "still unlocked", SameBoot(p)) \/ Ask(p, "still unlocked", "save", ~tablet.locked)

Save(p) ==
    /\ pc[p] = "save"
    /\ state' = [observed |-> boot[p], completed |-> boot[p], attempts |-> 0]
    /\ Ends(p)
    /\ UNCHANGED <<tablet, container, tried, shown>>

\* The operator's reboot.
Restart(p) ==
    /\ pc[p] = "restart" /\ Reached(p) /\ tablet.boot < MaxBoot
    /\ tablet' = Restarted
    /\ Ends(p)
    /\ UNCHANGED <<container, state, tried, shown>>

Next ==
    \/ Reboot \/ Started \/ Used \/ Plugged \/ ContainerStops
    \/ \E p \in Proc :
          \/ \E k \in Kinds : Acquire(p, k)
          \/ Fail(p) \/ Reconcile(p) \/ Create(p) \/ Bind(p) \/ ReadBoot(p) \/ Decide(p)
          \/ Begin(p) \/ Probe(p) \/ Dismiss(p) \/ Unlocked(p) \/ Launch(p) \/ Foreground(p)
          \/ Again(p) \/ Save(p) \/ Restart(p)

Spec == Init /\ [][Next]_vars

-----------------------------------------------------------------------------
(* Properties                                                              *)

TypeOK ==
    /\ tablet \in [boot : Boots, up : BOOLEAN, locked : BOOLEAN, secure : BOOLEAN, front : BOOLEAN,
                   node : Node \cup {0}]
    /\ container \in [node : Node \cup {0}, running : BOOLEAN]
    /\ state \in [observed : {0} \cup Boots, completed : {0} \cup Boots, attempts : 0..MaxAttempts]
    /\ lock \in Proc \cup {NoProc}
    /\ pc \in [Proc -> Steps \cup {"idle"}] /\ kind \in [Proc -> Kinds]
    /\ snapshot \in [Proc -> Node \cup {0}] /\ boot \in [Proc -> {0} \cup Boots]
    /\ tried \in [Boots -> Nat] /\ shown \subseteq Boots

\* Whatever is killed, and whoever recovers the tablet by hand meanwhile, no
\* boot of it is recovered automatically more often than max_attempts.
AttemptsBounded == \A b \in Boots : tried[b] <= MaxAttempts

\* A boot recorded as completed is one in which the player was brought to the
\* front, or the one that was found when the tablet was first seen.
CompletedWasShown == state.completed \in shown \cup {0}

=============================================================================
