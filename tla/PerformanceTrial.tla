-------------------------- MODULE PerformanceTrial --------------------------
(***************************************************************************)
(* "perf trial notifications" of cli/performance.py.                       *)
(*                                                                         *)
(* The trial records a performance session while it switches a player's    *)
(* notification policy to the other value and back.  The policy belongs to *)
(* the viewer: the trial may change it only as long as nobody else did,    *)
(* and must say whether it is what it was before.  A request may be lost   *)
(* or answered too late and is never repeated; the evidence is written     *)
(* before a request is sent, on a disk that may be full; an interrupt, a   *)
(* deadline or a refusal may end the trial at any step, and its cleanup as *)
(* well.                                                                   *)
(***************************************************************************)
EXTENDS Naturals, Sequences, FiniteSets

CONSTANTS
    MaxForeign,    \* changes of the policy by anybody else
    MaxContexts    \* providers or profiles the player goes through

TrialAssumption == MaxForeign \in Nat /\ MaxContexts \in Nat \ {0}

VARIABLES
    policy,        \* its value, revision and context at the player
    writes,        \* history: who changed it
    flying,        \* changes by the trial that were sent and not yet taken
    reply,         \* the answer to the last of them
    session,       \* the performance session: "none", "active" or "stopped"
    disk,          \* the evidence directory: "ok" or "full"
    grouped,       \* run for a group: a cleanup client is limited to what it may do
    pc,
    returns,       \* where a restoration was called from
    original,      \* the policy before the trial
    owned,         \* the policy as the trial last confirmed to have written it
    started,       \* the session was started
    attempted,     \* how often a change of the policy was attempted
    restored,      \* what the report says: "unknown" or "yes"
    allowed        \* the requests the cleanup client still accepts

world == <<policy, writes, flying, reply, session, disk, grouped>>
trial == <<pc, returns, original, owned, started, attempted, restored, allowed>>
vars == <<world, trial>>

NoPolicy == [value |-> 2, rev |-> 0, context |-> 0]
NoReply == [is |-> "none"]

Init ==
    /\ policy \in [value : {0, 1}, rev : {1}, context : {1}]
    /\ writes = <<>> /\ flying = {} /\ reply = NoReply
    /\ session = "none" /\ disk = "ok"
    /\ grouped \in BOOLEAN
    /\ pc = "get" /\ returns = "none"
    /\ original = NoPolicy /\ owned = NoPolicy
    /\ started = FALSE /\ attempted = 0
    /\ restored = "unknown" /\ allowed = {}

-----------------------------------------------------------------------------
(* The player, its viewer and the network                                  *)

Foreign == Cardinality({i \in 1 .. Len(writes) : writes[i].by = "other"})

ForeignWrite ==
    /\ Foreign < MaxForeign /\ pc # "get"
    /\ \E value \in {0, 1} :
         policy' = [policy EXCEPT !.value = value, !.rev = @ + 1]
    /\ writes' = Append(writes, [by |-> "other"])
    /\ UNCHANGED <<flying, reply, session, disk, grouped, trial>>

SwitchContext ==
    /\ policy.context < MaxContexts
    /\ policy' = [policy EXCEPT !.context = @ + 1]
    /\ UNCHANGED <<writes, flying, reply, session, disk, grouped, trial>>

\* A change is taken only at the revision and in the context it names.
Take(request) ==
    /\ request \in flying
    /\ flying' = flying \ {request}
    /\ IF request.rev = policy.rev /\ request.context = policy.context
       THEN /\ policy' = [policy EXCEPT !.value = request.value, !.rev = @ + 1]
            /\ writes' = Append(writes, [by |-> "trial"])
            /\ \E applied \in BOOLEAN : reply' = [is |-> "ok", policy |-> policy', applied |-> applied]
       ELSE /\ reply' = [is |-> "rejected"]
            /\ UNCHANGED <<policy, writes>>
    /\ UNCHANGED <<session, disk, grouped, trial>>

Expire(request) ==
    /\ request \in flying
    /\ flying' = flying \ {request}
    /\ UNCHANGED <<policy, writes, reply, session, disk, grouped, trial>>

SessionEnds ==
    /\ session = "active"
    /\ session' = "stopped"
    /\ UNCHANGED <<policy, writes, flying, reply, disk, grouped, trial>>

DiskFills ==
    /\ disk = "ok"
    /\ disk' = "full"
    /\ UNCHANGED <<policy, writes, flying, reply, session, grouped, trial>>

-----------------------------------------------------------------------------
(* The requests of the trial                                               *)

\* Nothing is sent before it was recorded: a full disk, a deadline or an
\* interrupt leaves it unsent.
Recorded == disk = "ok"

\* The cleanup of a group's trial may only do what it prepared, each once.
Restoring == [op |-> "set", rev |-> owned.rev]
Permits(request) == returns # "cleanup" \/ ~grouped \/ request \in allowed

Goes(to) == pc' = to

\* What follows a failure: the cleanup, and in it the stop of the session.
FailsTo == IF returns = "cleanup" THEN "stop" ELSE "cleanup"

\* A variant that keeps the ownership until the answer is there.
SetPolicyOwned(previous, value, to) ==
    /\ Recorded /\ Permits(Restoring)
    /\ flying' = flying \cup {[id |-> attempted, value |-> value, rev |-> previous.rev,
                               context |-> original.context]}
    /\ reply' = NoReply
    /\ restored' = "unknown" /\ attempted' = attempted + 1
    /\ allowed' = allowed \ {Restoring}
    /\ pc' = to
    /\ UNCHANGED <<policy, writes, session, disk, grouped, returns, original, owned, started>>

\* set_policy: the ownership is given up before the change is sent.
SetPolicy(previous, value, to) ==
    /\ Recorded /\ Permits(Restoring)
    /\ flying' = flying \cup {[id |-> attempted, value |-> value, rev |-> previous.rev,
                               context |-> original.context]}
    /\ reply' = NoReply
    /\ owned' = NoPolicy /\ restored' = "unknown" /\ attempted' = attempted + 1
    /\ allowed' = allowed \ {Restoring}
    /\ pc' = to
    /\ UNCHANGED <<policy, writes, session, disk, grouped, returns, original, started>>

\* It was not sent: whatever was owned still is.
NotSent(at) ==
    /\ pc = at
    /\ attempted' = attempted + 1
    /\ Goes(FailsTo)
    /\ UNCHANGED <<world, returns, original, owned, started, restored, allowed>>

\* The cleanup client refuses it or has no time left: the trial takes that for
\* a change that may have been sent.
Withheld ==
    /\ pc = "restore" /\ returns = "cleanup" /\ grouped
    /\ owned # NoPolicy /\ owned.value # original.value
    /\ owned' = NoPolicy /\ restored' = "unknown" /\ attempted' = attempted + 1
    /\ Goes("stop")
    /\ UNCHANGED <<world, returns, original, started, allowed>>

\* adopt_policy: a change confirmed in the same context at a new revision is
\* owned, also if the answer came too late or it was not applied, which end
\* the trial.
Adopt(to) ==
    /\ reply.is = "ok"
    /\ IF reply.policy.context = original.context
       THEN /\ owned' = reply.policy
            /\ \E late \in BOOLEAN : Goes(IF late \/ ~reply.applied THEN FailsTo ELSE to)
       ELSE owned' = owned /\ Goes(FailsTo)
    /\ UNCHANGED <<world, returns, original, started, attempted, restored, allowed>>

\* The answer was a refusal, was lost or cannot be read.
Unconfirmed ==
    /\ pc \in {"changing", "restoring"}
    /\ Goes(FailsTo)
    /\ UNCHANGED <<world, returns, original, owned, started, attempted, restored, allowed>>

-----------------------------------------------------------------------------
(* The trial                                                               *)

GetPolicy ==
    /\ pc = "get" /\ Recorded
    /\ original' = policy
    /\ Goes("start")
    /\ UNCHANGED <<world, returns, owned, started, attempted, restored, allowed>>

NoTrial ==
    /\ pc = "get"
    /\ Goes("end")
    /\ UNCHANGED <<world, returns, original, owned, started, attempted, restored, allowed>>

Start ==
    /\ pc = "start" /\ Recorded
    /\ session' = "active"
    /\ \E confirmed \in BOOLEAN :
         /\ started' = confirmed
         /\ Goes(IF confirmed THEN "A1" ELSE "cleanup")
    /\ UNCHANGED <<policy, writes, flying, reply, disk, grouped, returns, original, owned,
                   attempted, restored, allowed>>

\* A phase goes on only while the session is active.
Phase(name, next) ==
    /\ pc = name /\ Recorded
    /\ session = "active"
    /\ Goes(next)
    /\ UNCHANGED <<world, original, owned, started, attempted, restored, allowed>>

A1 == Phase("A1", "change") /\ UNCHANGED returns
B == Phase("B", "restore") /\ returns' = "B"
A2 == Phase("A2", "restore") /\ returns' = "A2"

Change ==
    /\ pc = "change"
    /\ SetPolicy(original, 1 - original.value, "changing")

Changed == pc = "changing" /\ Adopt("B")

\* Any other step fails or is interrupted.
Fail ==
    /\ pc \in {"start", "A1", "B", "A2"}
    /\ Goes("cleanup")
    /\ UNCHANGED <<world, returns, original, owned, started, attempted, restored, allowed>>

\* A variant that reads the revision again before it writes.
BackAtCurrent ==
    /\ pc = "restore"
    /\ owned # NoPolicy /\ owned.value # original.value
    /\ SetPolicy(policy, original.value, "restoring")

\* restore: the change back, unless the policy is the original one.
Back ==
    /\ pc = "restore"
    /\ owned # NoPolicy /\ owned.value # original.value
    /\ SetPolicy(owned, original.value, "restoring")

BackDone == pc = "restoring" /\ Adopt("restore")

\* The verification: a new one retires the one before.
BeginVerify ==
    /\ pc = "restore" /\ owned # NoPolicy /\ owned.value = original.value
    /\ restored' = "unknown"
    /\ Goes("verify")
    /\ UNCHANGED <<world, returns, original, owned, started, attempted, allowed>>

Unchanged == policy.context = original.context /\ policy.rev = owned.rev

Verify ==
    /\ pc = "verify" /\ Recorded
    /\ Permits([op |-> "get"])
    /\ allowed' = allowed \ {[op |-> "get"]}
    /\ IF Unchanged /\ policy.value = original.value
       THEN /\ restored' = "yes"
            /\ Goes(CASE returns = "B" -> "A2" [] returns = "A2" -> "cleanup" [] OTHER -> "stop")
            /\ UNCHANGED owned
       ELSE /\ owned' = NoPolicy
            /\ Goes(FailsTo)
            /\ UNCHANGED restored
    /\ UNCHANGED <<world, returns, original, started, attempted>>

VerifyFails ==
    /\ pc = "verify"
    /\ owned' = NoPolicy
    /\ Goes(FailsTo)
    /\ UNCHANGED <<world, returns, original, started, attempted, restored, allowed>>

\* The finally clause of execute, with the requests its client may send.
Authority ==
    (IF owned # NoPolicy /\ restored # "yes"
     THEN {[op |-> "get"]} \cup (IF owned.value # original.value THEN {Restoring} ELSE {})
     ELSE {})
    \cup (IF started THEN {[op |-> "stop"]} ELSE {})

Cleanup ==
    /\ pc = "cleanup"
    /\ returns' = "cleanup"
    /\ allowed' = Authority
    /\ Goes(IF owned # NoPolicy /\ restored # "yes" THEN "restore" ELSE "stop")
    /\ UNCHANGED <<world, original, owned, started, attempted, restored>>

Stop ==
    /\ pc = "stop"
    /\ IF started /\ Recorded /\ Permits([op |-> "stop"])
       THEN session' \in {session, "stopped"}
       ELSE UNCHANGED session
    /\ Goes("end")
    /\ UNCHANGED <<policy, writes, flying, reply, disk, grouped, returns, original, owned,
                   started, attempted, restored, allowed>>

-----------------------------------------------------------------------------
World ==
    \/ ForeignWrite \/ SwitchContext \/ SessionEnds \/ DiskFills
    \/ \E request \in flying : Take(request) \/ Expire(request)

Policy ==
    \/ GetPolicy \/ NoTrial
    \/ Change \/ Changed \/ NotSent("change")
    \/ Back \/ BackDone \/ Withheld
    \/ BeginVerify \/ Verify \/ VerifyFails
    \/ Unconfirmed
RestoreNotSent == owned # NoPolicy /\ owned.value # original.value /\ NotSent("restore")

Next == World \/ Policy \/ RestoreNotSent \/ Start \/ A1 \/ B \/ A2 \/ Fail \/ Cleanup \/ Stop

Spec == Init /\ [][Next]_vars

-----------------------------------------------------------------------------
(* Correctness                                                             *)

\* Once somebody else changed the policy after the trial had read it, the
\* trial changes it no more, however it ends: their choice stays.
ForeignKept ==
    \A i, j \in 1 .. Len(writes) :
        writes[i].by = "other" /\ i < j => writes[j].by = "other"

Written == Cardinality({i \in 1 .. Len(writes) : writes[i].by = "trial"})

\* "Original notification policy: confirmed restored" is said only if nothing
\* of the trial is on its way any more and its last change was undone: unless
\* somebody else changes it now, the policy stays the original one.  "This
\* trial did not write the notification policy" is true, too.
HonestRestore ==
    /\ restored = "yes" =>
         /\ flying = {}
         /\ Foreign = 0 => policy.value = original.value
         /\ Written = 2
    /\ attempted = 0 => flying = {} /\ Written = 0

=============================================================================
