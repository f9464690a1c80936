-------------------------- MODULE ObservationProofs -------------------------
(***************************************************************************)
(* What only observes: the clients that wait for a receipt (ReceiptWait),  *)
(* and the commands of the command line that look at a player without      *)
(* changing it, or put back what they changed (MCObservation).             *)
(*                                                                         *)
(* No waiter is lost or miscounted, for any number of clients and          *)
(* requests: the two invariants are inductive together with the types, as  *)
(* a revocation resets the count and forgets the channel, which is right   *)
(* only because nobody sleeps inside the gate it holds.  Then the five     *)
(* programs of MCObservation, each with an invariant of its own: the       *)
(* trial, the export and its verification, the progress test, the shares   *)
(* of time, and the programme search.                                      *)
(***************************************************************************)
EXTENDS ReceiptWait, MCObservation, SequenceTheorems, FiniteSetTheorems, WellFoundedInduction,
        TLAPS

IInv == TypeOK /\ NoLostWakeup /\ WaitersCounted

\* Expiry keeps a status a status, and never produces a result.
LEMMA ExpiredType ==
    ASSUME TypeOK
    PROVE  /\ Expired \in [Requests -> Statuses]
           /\ \A r \in Requests : Expired[r] = "result" => status[r] = "result"
  BY DEF TypeOK, Expired, Statuses

\* The sleeping clients are finitely many.
LEMMA SleepingFinite == IsFiniteSet(Sleeping)
  <1>1. Sleeping \subseteq Clients
    BY DEF Sleeping
  <1> QED BY <1>1, WaitersAssumption, FS_Subset

\* A step that leaves waiters and the sleeping clients alone keeps the count.
LEMMA CountKept ==
    ASSUME WaitersCounted, waiters' = waiters, Sleeping' = Sleeping
    PROVE  WaitersCounted'
  BY DEF WaitersCounted

\* A step that leaves the channels and the clients asleep alone, and makes no
\* result, keeps everyone asleep reachable.
LEMMA WakeupKept ==
    ASSUME TypeOK, NoLostWakeup, changed' = changed, closed' = closed,
           \A c \in Clients : client'[c].at = "asleep" =>
               client[c].at = "asleep" /\ client'[c] = client[c],
           \A r \in Requests : status'[r] = "result" => status[r] = "result"
    PROVE  NoLostWakeup'
  BY DEF NoLostWakeup, TypeOK

-----------------------------------------------------------------------------
(* Steps of one client                                                     *)

LEMMA CallStep ==
    ASSUME IInv, NEW c \in Clients, NEW r \in Requests, NEW wait \in BOOLEAN,
           Call(c, r, wait)
    PROVE  IInv'
<1>1. TypeOK'
  BY DEF IInv, TypeOK, Call, ClientStates, Positions
<1>2. NoLostWakeup'
  BY WakeupKept DEF IInv, TypeOK, Call
<1>3. Sleeping' = Sleeping
  BY DEF IInv, TypeOK, Call, Sleeping
<1> QED
  BY <1>1, <1>2, <1>3, CountKept DEF IInv, Call

LEMMA EnterGateStep ==
    ASSUME IInv, NEW c \in Clients, EnterGate(c)
    PROVE  IInv'
<1>1. TypeOK'
  BY DEF IInv, TypeOK, EnterGate, Move, ClientStates, Positions
<1>2. NoLostWakeup'
  BY WakeupKept DEF IInv, TypeOK, EnterGate, Move
<1>3. Sleeping' = Sleeping
  BY DEF IInv, TypeOK, EnterGate, Move, Sleeping
<1> QED
  BY <1>1, <1>2, <1>3, CountKept DEF IInv, EnterGate

LEMMA SleepStep ==
    ASSUME IInv, NEW c \in Clients, Sleep(c)
    PROVE  IInv'
<1>1. waiters < MaxWaiters /\ Expired[client[c].request] = "pending"
  BY DEF Sleep, MaySleep
<1>2. TypeOK'
  <2>1. channels' \in Nat /\ changed' \in 0..channels' /\ closed' \subseteq 1..channels'
    BY DEF IInv, TypeOK, Sleep
  <2>2. client' \in [Clients -> ClientStates] /\ client'[c].request \in Requests
    <3>1. client \in [Clients -> ClientStates] /\ client[c].request \in Requests
      BY DEF IInv, TypeOK, Sleep
    <3>2. changed' \in Nat
      BY <2>1
    <3> QED
      BY <3>1, <3>2 DEF Sleep, ClientStates, Positions
  <2>3. \A d \in Clients \ {c} : client'[d] = client[d]
    BY DEF IInv, TypeOK, Sleep
  <2> QED
    BY <2>1, <2>2, <2>3, ExpiredType DEF IInv, TypeOK, Sleep, Expire
<1>3. changed' # 0 /\ (changed = 0 \/ changed' = changed)
  BY DEF IInv, TypeOK, Sleep
<1>4. NoLostWakeup'
  <2> SUFFICES ASSUME NEW d \in Clients, client'[d].at = "asleep"
               PROVE  /\ client'[d].channel \in (closed \cup {changed'}) \ {0}
                      /\ status'[client'[d].request] = "result" =>
                           client'[d].channel \in closed
    BY DEF NoLostWakeup, Sleep
  <2>1. CASE d = c
    BY <2>1, <1>1, <1>3 DEF IInv, TypeOK, Sleep, Expire
  <2>2. CASE d # c
    <3>1. client'[d] = client[d] /\ client[d].request \in Requests
      BY <2>2 DEF IInv, TypeOK, Sleep
    <3> QED
      BY <3>1, <1>3, ExpiredType DEF IInv, NoLostWakeup, Sleep, Expire
  <2> QED
    BY <2>1, <2>2
<1>5. Sleeping' = Sleeping \cup {c} /\ c \notin Sleeping
  BY DEF IInv, TypeOK, Sleep, Sleeping
<1>6. Cardinality(Sleeping') = waiters + 1
  BY <1>5, SleepingFinite, FS_AddElement DEF IInv, WaitersCounted
<1>7. WaitersCounted'
  BY <1>1, <1>6, WaitersAssumption DEF IInv, TypeOK, WaitersCounted, Sleep
<1> QED
  BY <1>2, <1>4, <1>7 DEF IInv

LEMMA ReplyStep ==
    ASSUME IInv, NEW c \in Clients, Reply(c)
    PROVE  IInv'
<1>1. TypeOK'
  BY ExpiredType DEF IInv, TypeOK, Reply, Expire, Move, ClientStates, Positions
<1>2. NoLostWakeup'
  BY WakeupKept, ExpiredType DEF IInv, TypeOK, Reply, Expire, Move
<1>3. Sleeping' = Sleeping
  BY DEF IInv, TypeOK, Reply, Move, Sleeping
<1> QED
  BY <1>1, <1>2, <1>3, CountKept DEF IInv, Reply

\* Woken by the channel, by the timer or by its caller, the client moves from
\* asleep to woken and changes nothing else.
LEMMA WokenStep ==
    ASSUME IInv, NEW c \in Clients, Wake(c) \/ Timeout(c) \/ Cancel(c)
    PROVE  IInv'
<1>0. /\ client[c].at = "asleep" /\ client'[c].at = "woken"
      /\ client' \in [Clients -> ClientStates]
      /\ client'[c].request = client[c].request
      /\ \A d \in Clients \ {c} : client'[d] = client[d]
  <2>1. client \in [Clients -> ClientStates]
    BY DEF IInv, TypeOK
  <2>2. CASE Wake(c)
    BY <2>1, <2>2 DEF Wake, Move, ClientStates, Positions
  <2>3. CASE Timeout(c)
    BY <2>1, <2>3 DEF Timeout, Move, ClientStates, Positions
  <2>4. CASE Cancel(c)
    BY <2>1, <2>4 DEF Cancel, ClientStates, Positions
  <2> QED
    BY <2>2, <2>3, <2>4
<1>1. TypeOK'
  BY <1>0 DEF IInv, TypeOK, Wake, Timeout, Cancel
<1>2. NoLostWakeup'
  BY <1>0, WakeupKept DEF IInv, Wake, Timeout, Cancel
<1>3. Sleeping' = Sleeping
  BY <1>0 DEF Sleeping
<1> QED
  BY <1>1, <1>2, <1>3, CountKept DEF IInv, Wake, Timeout, Cancel

LEMMA ResumeStep ==
    ASSUME IInv, NEW c \in Clients, Resume(c)
    PROVE  IInv'
<1>1. Sleeping' = Sleeping \ {c} /\ c \in Sleeping
  BY DEF IInv, TypeOK, Resume, Move, Sleeping
<1>2. Cardinality(Sleeping') = waiters - 1 /\ Cardinality(Sleeping') \in Nat
  BY <1>1, SleepingFinite, FS_RemoveElement, FS_CardinalityType, FS_Subset
     DEF IInv, WaitersCounted
<1>3. TypeOK'
  BY <1>2 DEF IInv, TypeOK, Resume, Move, ClientStates, Positions
<1>4. NoLostWakeup'
  BY WakeupKept DEF IInv, TypeOK, Resume, Move
<1>5. WaitersCounted'
  BY <1>2, WaitersAssumption DEF IInv, TypeOK, WaitersCounted, Resume
<1> QED
  BY <1>3, <1>4, <1>5 DEF IInv

-----------------------------------------------------------------------------
(* Steps of the handlers and of the registry                               *)

LEMMA RespondStep ==
    ASSUME IInv, NEW r \in Requests, Respond(r)
    PROVE  IInv'
<1>1. TypeOK'
  BY ExpiredType DEF IInv, TypeOK, Respond, NotifyWaiters, Statuses
<1>2. closed \cup {changed} \subseteq closed' \cup {0}
  BY DEF Respond, NotifyWaiters
<1>3. NoLostWakeup'
  BY <1>2 DEF IInv, NoLostWakeup, Respond
<1>4. Sleeping' = Sleeping
  BY DEF Respond, Sleeping
<1> QED
  BY <1>1, <1>3, <1>4, CountKept DEF IInv, Respond

\* No other handler touches the channel or a client.
LEMMA HandlerStep ==
    ASSUME IInv, NEW r \in Requests,
           Post(r) \/ Submit(r) \/ Refuse(r) \/ Due(r)
    PROVE  IInv'
<1>1. TypeOK'
  BY ExpiredType DEF IInv, TypeOK, Post, Submit, Refuse, Due, Expire, Statuses
<1>2. \A q \in Requests : status'[q] = "result" => status[q] = "result"
  BY ExpiredType DEF IInv, TypeOK, Post, Submit, Refuse, Due, Expire
<1>3. NoLostWakeup'
  BY <1>2, WakeupKept DEF IInv, Post, Submit, Refuse, Due
<1>4. Sleeping' = Sleeping
  BY DEF Post, Submit, Refuse, Due, Sleeping
<1> QED
  BY <1>1, <1>3, <1>4, CountKept DEF IInv, Post, Submit, Refuse, Due

LEMMA LockGateStep ==
    ASSUME IInv, LockGate
    PROVE  IInv'
<1>1. TypeOK'
  BY DEF IInv, TypeOK, LockGate
<1>2. NoLostWakeup' /\ Sleeping' = Sleeping
  BY WakeupKept DEF IInv, LockGate, Sleeping
<1> QED
  BY <1>1, <1>2, CountKept DEF IInv, LockGate

\* Nobody sleeps inside the gate that the registry holds.
LEMMA PublishStep ==
    ASSUME IInv, NEW revoked \in BOOLEAN, Publish(revoked)
    PROVE  IInv'
<1>1. TypeOK'
  <2>1. CASE revoked
    <3>1. status' \in [Requests -> Statuses]
      BY <2>1 DEF Publish, Statuses
    <3>2. changed' \in 0..channels' /\ waiters' \in Nat
      BY <2>1 DEF IInv, TypeOK, Publish
    <3> QED
      BY <2>1, <3>1, <3>2, Zenon DEF IInv, TypeOK, Publish
  <2>2. CASE ~revoked
    BY <2>2 DEF IInv, TypeOK, Publish
  <2> QED
    BY <2>1, <2>2
<1>2. Sleeping = {} /\ Sleeping' = {}
  BY DEF Publish, GateDrained, Inside, Sleeping
<1>3. NoLostWakeup'
  BY <1>2 DEF NoLostWakeup, Sleeping
<1>4. waiters = 0 /\ waiters' = 0
  BY <1>2, FS_EmptySet DEF IInv, WaitersCounted, Publish
<1>5. WaitersCounted'
  BY <1>2, <1>4, FS_EmptySet, WaitersAssumption DEF WaitersCounted
<1> QED
  BY <1>1, <1>3, <1>5 DEF IInv

-----------------------------------------------------------------------------
LEMMA Initially == Init => IInv
<1> SUFFICES ASSUME Init PROVE IInv
  OBVIOUS
<1>1. TypeOK
  <2>1. client \in [Clients -> ClientStates] /\ \A c \in Clients : client[c].at = "idle"
    BY DEF Init, ClientStates, Positions
  <2>2. status \in [Requests -> Statuses]
    BY DEF Init, Statuses
  <2>3. channels \in Nat /\ changed \in 0..channels /\ waiters \in Nat
    BY DEF Init
  <2> QED
    BY <2>1, <2>2, <2>3 DEF Init, TypeOK
<1>2. Sleeping = {}
  BY DEF Init, Sleeping
<1>3. NoLostWakeup
  BY DEF Init, NoLostWakeup
<1>4. WaitersCounted
  BY <1>2, FS_EmptySet, WaitersAssumption DEF Init, WaitersCounted
<1> QED
  BY <1>1, <1>3, <1>4 DEF IInv

LEMMA Inductive == IInv /\ [Next]_vars => IInv'
<1> SUFFICES ASSUME IInv, [Next]_vars PROVE IInv'
  OBVIOUS
<1>1. ASSUME NEW c \in Clients, NEW r \in Requests, NEW wait \in BOOLEAN,
             Call(c, r, wait)
      PROVE  IInv'
  BY <1>1, CallStep
<1>2. ASSUME NEW c \in Clients, EnterGate(c) PROVE IInv'
  BY <1>2, EnterGateStep
<1>3. ASSUME NEW c \in Clients, Sleep(c) PROVE IInv'
  BY <1>3, SleepStep
<1>4. ASSUME NEW c \in Clients, Reply(c) PROVE IInv'
  BY <1>4, ReplyStep
<1>5. ASSUME NEW c \in Clients, Wake(c) \/ Timeout(c) \/ Cancel(c) PROVE IInv'
  BY <1>5, WokenStep
<1>6. ASSUME NEW c \in Clients, Resume(c) PROVE IInv'
  BY <1>6, ResumeStep
<1>7. ASSUME NEW r \in Requests, Respond(r) PROVE IInv'
  BY <1>7, RespondStep
<1>8. ASSUME NEW r \in Requests, Post(r) \/ Submit(r) \/ Refuse(r) \/ Due(r)
      PROVE  IInv'
  BY <1>8, HandlerStep
<1>9. CASE LockGate
  BY <1>9, LockGateStep
<1>10. ASSUME NEW revoked \in BOOLEAN, Publish(revoked) PROVE IInv'
  BY <1>10, PublishStep
<1>11. CASE UNCHANGED vars
  BY <1>11 DEF vars, IInv, TypeOK, NoLostWakeup, WaitersCounted, Sleeping
<1> QED
  BY <1>1, <1>2, <1>3, <1>4, <1>5, <1>6, <1>7, <1>8, <1>9, <1>10, <1>11
     DEF Next

LEMMA Invariant == Spec => []IInv
  BY Initially, Inductive, PTL DEF Spec

\* Requests, channels and the positions of all connections stay well formed, in
\* readRequestReceipt as in receiveResult and publishRegistry.
THEOREM TypeCorrect == Spec => []TypeOK
<1>1. IInv => TypeOK
  BY DEF IInv
<1> QED
  BY <1>1, Invariant, PTL

\* Every client that sleeps in readRequestReceipt is reached by the next
\* result, or has been by the one it waits for.
THEOREM NoLostWakeupCorrect == Spec => []NoLostWakeup
<1>1. IInv => NoLostWakeup
  BY DEF IInv
<1> QED
  BY <1>1, Invariant, PTL

\* receiptWaiters is the number of clients asleep, within its limit, whatever
\* way they woke up and however often the device is revoked.
THEOREM WaitersCountedCorrect == Spec => []WaitersCounted
<1>1. IInv => WaitersCounted
  BY DEF IInv
<1> QED
  BY <1>1, Invariant, PTL

\* Whoever sleeps in readRequestReceipt holds one of the device's slots and can
\* be woken.
THEOREM SafeWaitCorrect == Spec => []SafeWait
<1>1. IInv => SafeWait
  BY DEF IInv, SafeWait
<1> QED
  BY <1>1, Invariant, PTL

-----------------------------------------------------------------------------
(* The trial of a notification policy                                      *)

PolicyValues == [value : {0, 1}, rev : Nat, context : Nat]
OwnedPolicies == [value : {0, 1, 2}, rev : Nat, context : Nat]
PolicyRequests == [id : Nat, value : {0, 1}, rev : Nat, context : Nat]
PolicyReplies == {[is |-> "none"], [is |-> "rejected"]} \cup
                 [is : {"ok"}, policy : PolicyValues, applied : BOOLEAN]
Unchanging == {"get", "start", "A1", "change"}
TrialSteps == Unchanging \cup
              {"changing", "B", "A2", "restore", "restoring", "verify", "cleanup", "stop", "end"}

TrialTyped ==
    /\ policy \in PolicyValues /\ policy.rev >= 1
    /\ writes \in Seq([by : {"trial", "other"}])
    /\ flying \subseteq PolicyRequests
    /\ trialReply \in PolicyReplies
    /\ owned \in OwnedPolicies
    /\ attempted \in Nat /\ restored \in {"unknown", "yes"} /\ trialPc \in TrialSteps
    /\ IF trialPc = "get" THEN original = Trial!NoPolicy ELSE original \in OwnedPolicies
    /\ trialPc \notin {"get", "end"} => original \in PolicyValues
    /\ trialPc = "get" => writes = <<>>

\* Somebody else has changed the policy.
Interfered == \E i \in 1..Len(writes) : writes[i].by = "other"

\* Every revision the trial knows is the player's or older, and older than what
\* somebody else has written since.
Current(rev) == rev =< policy.rev /\ (Interfered => rev < policy.rev)
RevisionsCurrent ==
    /\ Current(original.rev) /\ Current(owned.rev)
    /\ \A q \in flying : Current(q.rev)
    /\ trialReply.is = "ok" => Current(trialReply.policy.rev)

\* How often the trial has written, if what it wrote last is this value.
WrittenAt(value) == Trial!Written = IF value = original.value THEN 2 ELSE 1

\* One change is on its way, at most, and none while the trial owns the policy.
OneChange ==
    /\ \A p, q \in flying : p = q
    /\ trialPc \in Unchanging =>
         flying = {} /\ Trial!Written = 0 /\ owned = Trial!NoPolicy /\ trialReply = [is |-> "none"]
         /\ restored = "unknown"
    /\ attempted = 0 => flying = {} /\ Trial!Written = 0
    /\ trialPc = "verify" => owned # Trial!NoPolicy /\ owned.value = original.value
    /\ owned # Trial!NoPolicy => flying = {} /\ WrittenAt(owned.value)
    /\ trialReply.is = "ok" => flying = {} /\ WrittenAt(trialReply.policy.value)
    /\ \A q \in flying : Trial!Written = IF q.value = original.value THEN 1 ELSE 0

SafeRestored ==
    restored = "yes" =>
        /\ flying = {} /\ Trial!Written = 2
        /\ ~Interfered => policy.value = original.value

\* The variables of the trial that the properties are about.
TrialInv == TrialTyped /\ RevisionsCurrent /\ OneChange /\ SafeRestored /\ Trial!ForeignKept

LEMMA TrialCardinality ==
    ASSUME NEW S
    PROVE  Trial!Cardinality(S) = Cardinality(S)
  BY DEF Trial!Cardinality, Cardinality

\* A change of the policy counts for the one who made it.
LEMMA WriteCounted ==
    ASSUME TrialTyped, NEW w \in [by : {"trial", "other"}], writes' = Append(writes, w)
    PROVE  /\ Trial!Written' = IF w.by = "trial" THEN Trial!Written + 1 ELSE Trial!Written
           /\ Trial!Written \in Nat /\ Trial!Written' \in Nat
           /\ Interfered' <=> (Interfered \/ w.by = "other")
           /\ Trial!ForeignKept /\ (w.by = "trial" => ~Interfered) => Trial!ForeignKept'
<1> DEFINE mine(s) == {i \in 1..Len(s) : s[i].by = "trial"}
<1>1. /\ Len(writes) \in Nat /\ Len(writes') = Len(writes) + 1
      /\ \A i \in 1..Len(writes) : writes'[i] = writes[i]
      /\ writes'[Len(writes) + 1] = w
  BY DEF TrialTyped
<1>2. IsFiniteSet(mine(writes)) /\ Cardinality(mine(writes)) \in Nat
  <2>1. IsFiniteSet(1..Len(writes))
    <3>1. 1 \in Int /\ Len(writes) \in Int
      BY <1>1
    <3> QED BY <3>1, FS_Interval
  <2>2. mine(writes) \subseteq 1..Len(writes)
    OBVIOUS
  <2> HIDE DEF mine
  <2> QED BY <2>1, <2>2, FS_Subset, FS_CardinalityType
<1>3. /\ Trial!Written = Cardinality(mine(writes))
      /\ Trial!Written' = Cardinality(mine(writes'))
  BY TrialCardinality DEF Trial!Written
<1>4. CASE w.by = "trial"
  <2>1. mine(writes') = mine(writes) \cup {Len(writes) + 1} /\ Len(writes) + 1 \notin mine(writes)
    BY <1>1, <1>4
  <2>2. Cardinality(mine(writes')) = Cardinality(mine(writes)) + 1
    <3> HIDE DEF mine
    <3> QED BY <1>2, <2>1, FS_AddElement
  <2>3. Interfered' <=> Interfered
    BY <1>1, <1>4 DEF Interfered
  <2>4. Trial!ForeignKept /\ ~Interfered => Trial!ForeignKept'
    BY <1>1, <1>4 DEF Trial!ForeignKept, Interfered
  <2> HIDE DEF mine
  <2> QED BY <1>2, <1>3, <1>4, <2>2, <2>3, <2>4
<1>5. CASE w.by = "other"
  <2>1. mine(writes') = mine(writes)
    BY <1>1, <1>5
  <2>2. Interfered'
    BY <1>1, <1>5 DEF Interfered
  <2>3. Trial!ForeignKept => Trial!ForeignKept'
    BY <1>1, <1>5 DEF Trial!ForeignKept
  <2> HIDE DEF mine
  <2> QED BY <1>2, <1>3, <1>5, <2>1, <2>2, <2>3
<1> QED BY <1>4, <1>5

\* Nothing was counted of a player that nobody changed.
LEMMA NothingWritten ==
    ASSUME writes = <<>>
    PROVE  Trial!Written = 0 /\ ~Interfered
<1>1. {i \in 1..Len(writes) : writes[i].by = "trial"} = {}
  OBVIOUS
<1>2. ~Interfered
  BY DEF Interfered
<1> QED BY <1>1, <1>2, FS_EmptySet, TrialCardinality DEF Trial!Written

LEMMA TrialStarts ==
    ASSUME Trial!Init
    PROVE  TrialInv
<1>1. /\ policy \in [value : {0, 1}, rev : {1}, context : {1}] /\ writes = <<>> /\ flying = {}
      /\ trialReply = [is |-> "none"] /\ trialPc = "get" /\ original = Trial!NoPolicy
      /\ owned = Trial!NoPolicy /\ attempted = 0 /\ restored = "unknown"
  BY DEF Trial!Init, Trial!NoReply
<1>2. Trial!NoPolicy \in OwnedPolicies /\ Trial!NoPolicy.rev = 0
  BY DEF Trial!NoPolicy, OwnedPolicies
<1>3. TrialTyped
  BY <1>1, <1>2 DEF TrialTyped, PolicyValues, PolicyReplies, TrialSteps, Unchanging
<1>4. RevisionsCurrent
  BY <1>1, <1>2, NothingWritten DEF RevisionsCurrent, Current
<1>5. OneChange
  BY <1>1, NothingWritten DEF OneChange
<1>6. SafeRestored /\ Trial!ForeignKept
  BY <1>1 DEF SafeRestored, Trial!ForeignKept
<1> QED BY <1>3, <1>4, <1>5, <1>6 DEF TrialInv

\* A step of the trial that sends nothing: it may give up what it owns and what it says
\* of the restored policy.
LEMMA TrialQuiet ==
    ASSUME TrialInv, UNCHANGED <<policy, writes, flying, trialReply, original>>,
           owned' \in {owned, Trial!NoPolicy}, restored' \in {restored, "unknown"},
           attempted' \in Nat, attempted' >= attempted,
           trialPc' \in TrialSteps \ {"get"},
           trialPc' \in Unchanging => trialPc \in Unchanging \ {"get"},
           trialPc' # "end" => trialPc \notin {"get", "end"},
           trialPc' = "verify" =>
               owned' = owned /\ owned # Trial!NoPolicy /\ owned.value = original.value
    PROVE  TrialInv'
<1>1. Trial!NoPolicy \in OwnedPolicies /\ Trial!NoPolicy.rev = 0
  BY DEF Trial!NoPolicy, OwnedPolicies
<1>2. TrialTyped'
  BY <1>1 DEF TrialInv, TrialTyped
<1>3. /\ Trial!Written' = Trial!Written /\ (Interfered' <=> Interfered)
      /\ \A value : WrittenAt(value)' <=> WrittenAt(value)
  BY DEF Trial!Written, Interfered, WrittenAt
<1>4. RevisionsCurrent'
  <2>1. Current(0)
    BY DEF Current, TrialInv, TrialTyped, PolicyValues
  <2>2. \A rev : Current(rev)' <=> Current(rev)
    BY <1>3 DEF Current
  <2> QED BY <1>1, <2>1, <2>2 DEF TrialInv, RevisionsCurrent
<1>5. OneChange'
  BY <1>3 DEF TrialInv, OneChange, TrialTyped, WrittenAt
<1>6. SafeRestored'
  BY <1>3 DEF TrialInv, SafeRestored
<1>7. Trial!ForeignKept'
  BY DEF TrialInv, Trial!ForeignKept
<1> QED BY <1>2, <1>4, <1>5, <1>6, <1>7 DEF TrialInv

\* The viewer of the player.
LEMMA ViewerStep ==
    ASSUME TrialInv, Trial!ForeignWrite \/ Trial!SwitchContext
    PROVE  TrialInv'
<1>0. UNCHANGED <<flying, trialReply, trialPc, original, owned, attempted, restored>>
  BY DEF Trial!ForeignWrite, Trial!SwitchContext, Trial!trial
<1>1. CASE Trial!ForeignWrite
  <2>1. PICK value \in {0, 1} : policy' = [policy EXCEPT !.value = value, !.rev = @ + 1]
    BY <1>1 DEF Trial!ForeignWrite
  <2>2. writes' = Append(writes, [by |-> "other"]) /\ trialPc # "get"
    BY <1>1 DEF Trial!ForeignWrite
  <2>3. [by |-> "other"] \in [by : {"trial", "other"}]
    OBVIOUS
  <2>4. policy' \in PolicyValues /\ policy'.rev = policy.rev + 1 /\ policy.rev \in Nat
    <3>1. policy \in PolicyValues
      BY DEF TrialInv, TrialTyped
    <3>2. policy' = [value |-> value, rev |-> policy.rev + 1, context |-> policy.context]
      BY <2>1, <3>1 DEF PolicyValues
    <3>3. policy.rev + 1 \in Nat
      BY <3>1 DEF PolicyValues
    <3> QED BY <3>1, <3>2, <3>3 DEF PolicyValues
  <2>5. TrialTyped'
    BY <1>0, <2>2, <2>3, <2>4 DEF TrialInv, TrialTyped
  <2>6. Trial!Written' = Trial!Written /\ Interfered' /\ Trial!ForeignKept'
    BY <2>2, <2>3, WriteCounted DEF TrialInv
  <2>7. RevisionsCurrent'
    BY <1>0, <2>4, <2>5 DEF TrialInv, TrialTyped, RevisionsCurrent, Current, OwnedPolicies,
       PolicyValues, PolicyRequests, PolicyReplies, Trial!NoPolicy
  <2>8. OneChange'
    BY <1>0, <2>6 DEF TrialInv, OneChange, WrittenAt
  <2>9. SafeRestored'
    BY <1>0, <2>6 DEF TrialInv, SafeRestored
  <2> QED BY <2>5, <2>6, <2>7, <2>8, <2>9 DEF TrialInv
<1>2. CASE Trial!SwitchContext
  <2>1. policy' = [policy EXCEPT !.context = @ + 1] /\ writes' = writes
    BY <1>2 DEF Trial!SwitchContext
  <2>2. policy' \in PolicyValues /\ policy'.rev = policy.rev /\ policy'.value = policy.value
    BY <2>1 DEF TrialInv, TrialTyped, PolicyValues
  <2>3. TrialTyped'
    BY <1>0, <2>1, <2>2 DEF TrialInv, TrialTyped
  <2>4. RevisionsCurrent' /\ SafeRestored'
    BY <1>0, <2>1, <2>2 DEF TrialInv, RevisionsCurrent, Current, SafeRestored, Interfered,
       Trial!Written
  <2>5. OneChange' /\ Trial!ForeignKept'
    BY <1>0, <2>1 DEF TrialInv, OneChange, WrittenAt, Trial!Written, Trial!ForeignKept
  <2> QED BY <2>3, <2>4, <2>5 DEF TrialInv
<1> QED BY <1>1, <1>2

\* The player takes a change, or refuses it, or it is lost.
LEMMA TakeStep ==
    ASSUME TrialInv, NEW q \in flying, Trial!Take(q)
    PROVE  TrialInv'
<1>0. UNCHANGED <<trialPc, original, owned, attempted, restored>> /\ flying' = flying \ {q}
  BY DEF Trial!Take, Trial!trial
<1>1. q \in PolicyRequests /\ Current(q.rev) /\ flying' = {}
      /\ trialPc \notin Unchanging /\ trialPc # "verify"
      /\ owned = Trial!NoPolicy /\ restored = "unknown"
  BY <1>0 DEF TrialInv, TrialTyped, RevisionsCurrent, OneChange, SafeRestored
<1>2. CASE q.rev = policy.rev /\ q.context = policy.context
  <2>1. /\ policy' = [policy EXCEPT !.value = q.value, !.rev = @ + 1]
        /\ writes' = Append(writes, [by |-> "trial"])
    BY <1>2 DEF Trial!Take
  <2>2. PICK applied \in BOOLEAN :
          trialReply' = [is |-> "ok", policy |-> policy', applied |-> applied]
    BY <1>2 DEF Trial!Take
  <2>3. policy' \in PolicyValues /\ policy'.rev = policy.rev + 1 /\ policy'.value = q.value
    <3>1. policy \in PolicyValues /\ q.value \in {0, 1}
      BY <1>1 DEF TrialInv, TrialTyped, PolicyRequests
    <3>2. policy' = [value |-> q.value, rev |-> policy.rev + 1, context |-> policy.context]
      BY <2>1, <3>1 DEF PolicyValues
    <3>3. policy.rev + 1 \in Nat
      BY <3>1 DEF PolicyValues
    <3> QED BY <3>1, <3>2, <3>3 DEF PolicyValues
  <2>4. ~Interfered /\ policy.rev \in Nat
    BY <1>1, <1>2 DEF Current, TrialInv, TrialTyped, PolicyValues
  <2>5. [by |-> "trial"] \in [by : {"trial", "other"}]
    OBVIOUS
  <2>6. /\ Trial!Written' = Trial!Written + 1 /\ Trial!Written \in Nat
        /\ ~Interfered' /\ Trial!ForeignKept'
    BY <2>1, <2>4, <2>5, WriteCounted DEF TrialInv
  <2>7. TrialTyped'
    <3>1. trialReply' \in PolicyReplies
      BY <2>2, <2>3 DEF PolicyReplies
    <3> QED BY <1>0, <1>1, <2>1, <2>3, <2>4, <2>5, <3>1 DEF TrialInv, TrialTyped, Unchanging
  <2>8. RevisionsCurrent'
    BY <1>0, <1>1, <2>2, <2>3, <2>4, <2>6, <2>7 DEF TrialInv, TrialTyped, RevisionsCurrent, Current,
       OwnedPolicies, PolicyValues, Trial!NoPolicy
  <2>9. OneChange'
    <3>1. Trial!Written = IF q.value = original.value THEN 1 ELSE 0
      BY DEF TrialInv, OneChange
    <3>2. attempted # 0
      BY DEF TrialInv, OneChange
    <3>3. trialReply'.policy.value = q.value
      <4>1. trialReply'.policy = policy'
        BY <2>2
      <4> QED BY <2>3, <4>1
    <3> QED BY <1>0, <1>1, <2>6, <3>1, <3>2, <3>3 DEF OneChange, WrittenAt, Unchanging
  <2> QED BY <1>0, <1>1, <2>6, <2>7, <2>8, <2>9 DEF TrialInv, SafeRestored
<1>3. CASE ~(q.rev = policy.rev /\ q.context = policy.context)
  <2>1. trialReply' = [is |-> "rejected"] /\ UNCHANGED <<policy, writes>>
    BY <1>3 DEF Trial!Take
  <2>2. TrialTyped'
    BY <1>0, <1>1, <2>1 DEF TrialInv, TrialTyped, PolicyReplies
  <2>3. RevisionsCurrent'
    BY <1>0, <1>1, <2>1 DEF TrialInv, RevisionsCurrent, Current, Interfered
  <2>4. OneChange'
    BY <1>0, <1>1, <2>1 DEF TrialInv, OneChange, Trial!Written
  <2>5. SafeRestored' /\ Trial!ForeignKept'
    BY <1>0, <1>1, <2>1 DEF TrialInv, SafeRestored, Trial!ForeignKept
  <2> QED BY <2>2, <2>3, <2>4, <2>5 DEF TrialInv
<1> QED BY <1>2, <1>3

LEMMA ExpireStep ==
    ASSUME TrialInv, NEW q \in flying, Trial!Expire(q)
    PROVE  TrialInv'
<1>0. /\ UNCHANGED <<policy, writes, trialReply, trialPc, original, owned, attempted, restored>>
      /\ flying' = flying \ {q}
  BY DEF Trial!Expire, Trial!trial
<1>1. TrialTyped' /\ RevisionsCurrent'
  BY <1>0 DEF TrialInv, TrialTyped, RevisionsCurrent, Current, Interfered
<1>2. OneChange'
  BY <1>0 DEF TrialInv, OneChange, WrittenAt, Trial!Written
<1>3. SafeRestored' /\ Trial!ForeignKept'
  BY <1>0 DEF TrialInv, SafeRestored, Trial!ForeignKept, Trial!Written, Interfered
<1> QED BY <1>1, <1>2, <1>3 DEF TrialInv

\* The trial reads the policy: nobody has interfered with it before.
LEMMA GetPolicyStep ==
    ASSUME TrialInv, Trial!GetPolicy
    PROVE  TrialInv'
<1>0. /\ UNCHANGED <<policy, writes, flying, trialReply, owned, attempted, restored>>
      /\ trialPc = "get" /\ trialPc' = "start" /\ original' = policy
  BY DEF Trial!GetPolicy, Trial!world, Trial!Goes
<1>1. /\ policy \in PolicyValues /\ flying = {} /\ owned = Trial!NoPolicy
      /\ trialReply = [is |-> "none"] /\ restored = "unknown" /\ Trial!Written = 0
      /\ writes = <<>>
  BY <1>0 DEF TrialInv, TrialTyped, OneChange, Unchanging
<1>2. TrialTyped'
  BY <1>0, <1>1 DEF TrialInv, TrialTyped, PolicyValues, OwnedPolicies, TrialSteps, Unchanging
<1>3. ~Interfered'
  BY <1>0, <1>1 DEF Interfered
<1>4. RevisionsCurrent'
  BY <1>0, <1>1, <1>3 DEF TrialInv, RevisionsCurrent, Current, PolicyValues
<1>5. OneChange'
  BY <1>0, <1>1 DEF OneChange, Trial!Written
<1>6. SafeRestored' /\ Trial!ForeignKept'
  BY <1>0, <1>1 DEF TrialInv, SafeRestored, Trial!ForeignKept
<1> QED BY <1>2, <1>4, <1>5, <1>6 DEF TrialInv

\* The change there and the change back: the trial gives up its ownership before it
\* sends either.
LEMMA SetPolicyStep ==
    ASSUME TrialInv, Trial!Change \/ Trial!Back
    PROVE  TrialInv'
<1>1. PICK previous \in OwnedPolicies, value \in {0, 1} :
        /\ flying' = flying \cup {[id |-> attempted, value |-> value, rev |-> previous.rev,
                                   context |-> original.context]}
        /\ Current(previous.rev) /\ flying = {}
        /\ Trial!Written = IF value = original.value THEN 1 ELSE 0
  <2>1. CASE Trial!Change
    <3>1. trialPc = "change" /\ Trial!SetPolicy(original, 1 - original.value, "changing")
      BY <2>1 DEF Trial!Change
    <3>2. original \in PolicyValues /\ original \in OwnedPolicies
      BY <3>1 DEF TrialInv, TrialTyped, PolicyValues, OwnedPolicies
    <3>3. 1 - original.value \in {0, 1} /\ 1 - original.value # original.value
      BY <3>2 DEF PolicyValues
    <3>4. flying = {} /\ Trial!Written = 0 /\ Current(original.rev)
      BY <3>1 DEF TrialInv, OneChange, RevisionsCurrent, Unchanging
    <3> QED BY <3>1, <3>2, <3>3, <3>4 DEF Trial!SetPolicy
  <2>2. CASE Trial!Back
    <3>1. /\ trialPc = "restore" /\ owned # Trial!NoPolicy /\ owned.value # original.value
          /\ Trial!SetPolicy(owned, original.value, "restoring")
      BY <2>2 DEF Trial!Back
    <3>2. owned \in OwnedPolicies /\ original.value \in {0, 1}
      BY <3>1 DEF TrialInv, TrialTyped, PolicyValues
    <3>3. flying = {} /\ Trial!Written = 1 /\ Current(owned.rev)
      BY <3>1 DEF TrialInv, OneChange, RevisionsCurrent, WrittenAt
    <3> QED BY <3>1, <3>2, <3>3 DEF Trial!SetPolicy
  <2> QED BY <2>1, <2>2
<1>2. /\ UNCHANGED <<policy, writes, original>> /\ owned' = Trial!NoPolicy
      /\ trialReply' = [is |-> "none"] /\ restored' = "unknown" /\ attempted' = attempted + 1
      /\ trialPc' \in {"changing", "restoring"} /\ trialPc \in {"change", "restore"}
  BY DEF Trial!Change, Trial!Back, Trial!SetPolicy, Trial!NoReply
<1>3. Trial!NoPolicy \in OwnedPolicies /\ Trial!NoPolicy.rev = 0
  BY DEF Trial!NoPolicy, OwnedPolicies
<1> DEFINE q == [id |-> attempted, value |-> value, rev |-> previous.rev,
                 context |-> original.context]
<1>4. original \in PolicyValues /\ attempted \in Nat
  BY <1>2 DEF TrialInv, TrialTyped
<1>5. q \in PolicyRequests /\ q.rev = previous.rev /\ q.value = value
  BY <1>4 DEF PolicyRequests, PolicyValues, OwnedPolicies
<1>6. flying' = {q}
  BY <1>1
<1> HIDE DEF q
<1>7. TrialTyped'
  BY <1>2, <1>3, <1>4, <1>5, <1>6
     DEF TrialInv, TrialTyped, PolicyReplies, TrialSteps, Unchanging, PolicyValues, OwnedPolicies
<1>8. RevisionsCurrent'
  <2>1. Current(0) /\ (\A rev : Current(rev)' <=> Current(rev))
    BY <1>2 DEF TrialInv, TrialTyped, PolicyValues, Current, Interfered
  <2> QED BY <1>1, <1>2, <1>3, <1>5, <1>6, <2>1 DEF TrialInv, RevisionsCurrent
<1>9. OneChange'
  <2>1. Trial!Written' = Trial!Written
    BY <1>2 DEF Trial!Written
  <2>2. attempted' # 0 /\ trialPc' \notin Unchanging
    BY <1>2, <1>4 DEF Unchanging
  <2> QED BY <1>1, <1>2, <1>5, <1>6, <2>1, <2>2 DEF OneChange
<1>10. SafeRestored' /\ Trial!ForeignKept'
  BY <1>2 DEF TrialInv, SafeRestored, Trial!ForeignKept
<1> QED BY <1>7, <1>8, <1>9, <1>10 DEF TrialInv

\* A confirmed change is owned, in the context the trial began in.
LEMMA AdoptStep ==
    ASSUME TrialInv, Trial!Changed \/ Trial!BackDone
    PROVE  TrialInv'
<1>0. /\ UNCHANGED <<policy, writes, flying, trialReply, original, attempted, restored>>
      /\ trialReply.is = "ok" /\ trialPc \in {"changing", "restoring"}
      /\ trialPc' \in {"B", "restore", "stop", "cleanup"}
      /\ owned' \in {owned, trialReply.policy}
  BY DEF Trial!Changed, Trial!BackDone, Trial!Adopt, Trial!Goes, Trial!FailsTo, Trial!world
<1>1. trialReply.policy \in PolicyValues /\ flying = {} /\ WrittenAt(trialReply.policy.value)
      /\ Current(trialReply.policy.rev)
  BY <1>0 DEF TrialInv, TrialTyped, PolicyReplies, OneChange, RevisionsCurrent
<1>2. TrialTyped'
  BY <1>0, <1>1 DEF TrialInv, TrialTyped, TrialSteps, PolicyValues, OwnedPolicies, Unchanging
<1>3. RevisionsCurrent'
  <2>1. \A rev : Current(rev)' <=> Current(rev)
    BY <1>0 DEF Current, Interfered
  <2> QED BY <1>0, <1>1, <2>1 DEF TrialInv, RevisionsCurrent
<1>4. OneChange'
  <2>1. Trial!Written' = Trial!Written /\ (\A v : WrittenAt(v)' <=> WrittenAt(v))
    BY <1>0 DEF Trial!Written, WrittenAt
  <2>2. trialPc' \notin Unchanging
    BY <1>0 DEF Unchanging
  <2> QED BY <1>0, <1>1, <2>1, <2>2 DEF TrialInv, OneChange
<1>5. SafeRestored' /\ Trial!ForeignKept'
  BY <1>0 DEF TrialInv, SafeRestored, Trial!ForeignKept, Trial!Written, Interfered
<1> QED BY <1>2, <1>3, <1>4, <1>5 DEF TrialInv

\* A verification that finds the policy as the trial left it.
LEMMA VerifyStep ==
    ASSUME TrialInv, Trial!Verify
    PROVE  TrialInv'
<1>0. /\ UNCHANGED <<policy, writes, flying, trialReply, original, attempted>>
      /\ trialPc = "verify" /\ trialPc' \in {"A2", "cleanup", "stop"}
  BY DEF Trial!Verify, Trial!Goes, Trial!FailsTo, Trial!world
<1>1. CASE Trial!Unchanged /\ policy.value = original.value
  <2>1. restored' = "yes" /\ owned' = owned
    BY <1>1 DEF Trial!Verify
  <2>2. flying = {} /\ Trial!Written = 2 /\ attempted # 0
    BY <1>0 DEF TrialInv, OneChange, WrittenAt
  <2>3. TrialTyped'
    BY <1>0, <2>1 DEF TrialInv, TrialTyped, TrialSteps, Unchanging
  <2>4. RevisionsCurrent'
    BY <1>0, <2>1 DEF TrialInv, RevisionsCurrent, Current, Interfered
  <2>5. OneChange'
    BY <1>0, <2>1 DEF TrialInv, OneChange, WrittenAt, Trial!Written, Unchanging
  <2>6. SafeRestored' /\ Trial!ForeignKept'
    BY <1>0, <1>1, <2>2 DEF TrialInv, SafeRestored, Trial!ForeignKept, Trial!Written
  <2> QED BY <2>3, <2>4, <2>5, <2>6 DEF TrialInv
<1>2. CASE ~(Trial!Unchanged /\ policy.value = original.value)
  <2>1. restored' = restored /\ owned' = Trial!NoPolicy
    BY <1>2 DEF Trial!Verify
  <2> QED BY <1>0, <2>1, TrialQuiet DEF TrialInv, TrialTyped, TrialSteps, Unchanging
<1> QED BY <1>1, <1>2

\* Every other step of the trial.
LEMMA QuietSteps ==
    ASSUME TrialInv,
           \/ Trial!NoTrial \/ Trial!NotSent("change") \/ Trial!Withheld \/ Trial!BeginVerify
           \/ Trial!VerifyFails \/ Trial!Unconfirmed \/ Trial!RestoreNotSent \/ Trial!Start
           \/ Trial!A1 \/ Trial!B \/ Trial!A2 \/ Trial!Fail \/ Trial!Cleanup \/ Trial!Stop
    PROVE  TrialInv'
<1>0. attempted \in Nat /\ attempted + 1 \in Nat /\ attempted + 1 >= attempted
  BY DEF TrialInv, TrialTyped
<1>1. CASE Trial!NoTrial \/ Trial!Fail \/ Trial!Cleanup \/ Trial!Start \/ Trial!Stop
  <2>1. /\ UNCHANGED <<policy, writes, flying, trialReply, original, owned, attempted, restored>>
        /\ \/ trialPc = "get" /\ trialPc' = "end"
           \/ trialPc \in {"start", "A1", "B", "A2"} /\ trialPc' = "cleanup"
           \/ trialPc = "cleanup" /\ trialPc' \in {"restore", "stop"}
           \/ trialPc = "start" /\ trialPc' \in {"A1", "cleanup"}
           \/ trialPc = "stop" /\ trialPc' = "end"
    BY <1>1 DEF Trial!NoTrial, Trial!Fail, Trial!Cleanup, Trial!Start, Trial!Stop, Trial!Goes,
       Trial!world
  <2> QED BY <1>0, <2>1, TrialQuiet DEF TrialSteps, Unchanging
<1>2. CASE Trial!A1 \/ Trial!B \/ Trial!A2
  <2>1. /\ UNCHANGED <<policy, writes, flying, trialReply, original, owned, attempted, restored>>
        /\ \/ trialPc = "A1" /\ trialPc' = "change"
           \/ trialPc \in {"B", "A2"} /\ trialPc' = "restore"
    BY <1>2 DEF Trial!A1, Trial!B, Trial!A2, Trial!Phase, Trial!Goes, Trial!world
  <2> QED BY <1>0, <2>1, TrialQuiet DEF TrialSteps, Unchanging
<1>3. CASE Trial!NotSent("change") \/ Trial!Unconfirmed \/ Trial!RestoreNotSent
  <2>1. /\ UNCHANGED <<policy, writes, flying, trialReply, original, owned, restored>>
        /\ attempted' \in {attempted, attempted + 1}
        /\ trialPc \in {"change", "changing", "restoring", "restore"}
        /\ trialPc' \in {"cleanup", "stop"}
    BY <1>3 DEF Trial!NotSent, Trial!Unconfirmed, Trial!RestoreNotSent, Trial!Goes,
       Trial!FailsTo, Trial!world
  <2> QED BY <1>0, <2>1, TrialQuiet DEF TrialSteps, Unchanging
<1>4. CASE Trial!Withheld \/ Trial!VerifyFails
  <2>1. /\ UNCHANGED <<policy, writes, flying, trialReply, original>>
        /\ owned' = Trial!NoPolicy /\ restored' \in {restored, "unknown"}
        /\ attempted' \in {attempted, attempted + 1}
        /\ trialPc \in {"verify", "restore"} /\ trialPc' \in {"cleanup", "stop"}
    BY <1>4 DEF Trial!Withheld, Trial!VerifyFails, Trial!Goes, Trial!FailsTo, Trial!world
  <2> QED BY <1>0, <2>1, TrialQuiet DEF TrialSteps, Unchanging
<1>5. CASE Trial!BeginVerify
  <2>1. /\ UNCHANGED <<policy, writes, flying, trialReply, original, owned, attempted>>
        /\ restored' = "unknown" /\ trialPc = "restore" /\ trialPc' = "verify"
        /\ owned # Trial!NoPolicy /\ owned.value = original.value
    BY <1>5 DEF Trial!BeginVerify, Trial!Goes, Trial!world
  <2> QED BY <1>0, <2>1, TrialQuiet DEF TrialSteps, Unchanging
<1> QED BY <1>1, <1>2, <1>3, <1>4, <1>5

LEMMA TrialInductive ==
    ASSUME TrialInv, [Trial!Next]_TrialVars
    PROVE  TrialInv'
<1>1. CASE Trial!SessionEnds \/ Trial!DiskFills \/ UNCHANGED TrialVars
  <2>1. UNCHANGED <<policy, writes, flying, trialReply, trialPc, original, owned, attempted,
                    restored>>
    BY <1>1 DEF Trial!SessionEnds, Trial!DiskFills, Trial!trial, TrialVars
  <2> QED BY <2>1 DEF TrialInv, TrialTyped, RevisionsCurrent, Current, OneChange, SafeRestored,
       Interfered, WrittenAt, Trial!Written, Trial!ForeignKept
<1>2. CASE Trial!Next
  BY <1>1, <1>2, ViewerStep, TakeStep, ExpireStep, GetPolicyStep, SetPolicyStep, AdoptStep,
     VerifyStep, QuietSteps DEF Trial!Next, Trial!World, Trial!Policy
<1> QED BY <1>1, <1>2

\* What somebody else chooses after the trial has read the policy stays as they left it,
\* although changes are lost, late or refused and the trial is stopped anywhere; and
\* "confirmed restored" is said only of the original value, with nothing of the trial
\* still on its way (set_policy, adopt_policy, restore of performance.py).
THEOREM SafeTrialCorrect ==
    MCSpec => []SafeTrial
<1> DEFINE Inv == part = "trial" => TrialInv
<1>1. MCInit => Inv
  BY TrialStarts DEF MCInit
<1>2. Inv /\ [MCNext]_MCvars => Inv'
  <2> SUFFICES ASSUME TrialInv, [MCNext]_MCvars, part = "trial"
               PROVE  TrialInv'
    BY DEF MCNext, MCvars
  <2>1. [Trial!Next]_TrialVars
    BY DEF MCNext, MCvars
  <2> QED BY <2>1, TrialInductive
<1>3. Inv => SafeTrial
  <2> SUFFICES ASSUME TrialInv PROVE Trial!ForeignKept /\ Trial!HonestRestore
    BY DEF SafeTrial
  <2>1. Trial!Foreign = 0 => ~Interfered
    <3> DEFINE theirs == {i \in 1..Len(writes) : writes[i].by = "other"}
    <3>1. IsFiniteSet(theirs)
      <4>1. 1 \in Int /\ Len(writes) \in Int
        BY DEF TrialInv, TrialTyped
      <4>2. IsFiniteSet(1..Len(writes)) /\ theirs \subseteq 1..Len(writes)
        BY <4>1, FS_Interval
      <4> HIDE DEF theirs
      <4> QED BY <4>2, FS_Subset
    <3>2. Trial!Foreign = Cardinality(theirs)
      BY TrialCardinality DEF Trial!Foreign
    <3>3. theirs = {} => ~Interfered
      BY DEF Interfered
    <3> HIDE DEF theirs
    <3> QED BY <3>1, <3>2, <3>3, FS_EmptySet
  <2> QED BY <2>1 DEF TrialInv, SafeRestored, OneChange, Trial!HonestRestore
<1> HIDE DEF Inv
<1> QED BY <1>1, <1>2, <1>3, PTL DEF MCSpec

-----------------------------------------------------------------------------
(* The export of a performance session                                     *)

Ascending(numbers) ==
    /\ numbers \in Seq(Nat)
    /\ \A i, j \in 1..Len(numbers) : i < j => numbers[i] < numbers[j]
Recordings == [started : Nat, next : Nat \ {0}, ring : Seq(Nat), dropped : Nat, elapsed : Nat]
Numberings == [seq : Nat, of : Nat]
ExportSteps == {"capabilities", "status", "read", "conclude", "finish", "end"}

\* The events number the first ones of the session that the export began with.
Exact ==
    /\ events \in Seq(Numberings) /\ Len(events) =< first.next - 1
    /\ \A i \in 1..Len(events) : events[i] = [seq |-> i, of |-> first.started]

\* The player's ring is in order, and so are the events, until there is a reason why
\* they are not all; without one, none is missing in the end.
ExportInv ==
    /\ exportSession \in Recordings /\ first \in Recordings /\ exportPc \in ExportSteps
    /\ Ascending(exportSession.ring)
    /\ \A i \in 1..Len(exportSession.ring) : exportSession.ring[i] < exportSession.next
    /\ exportPc \in {"capabilities", "status"} => events = <<>>
    /\ reasons = {} => Exact
    /\ exportPc \in {"finish", "end"} /\ failure = "none" /\ reasons = {} =>
         Len(events) = first.next - 1

\* A set of numbers that is not empty has a least one.
LEMMA LeastNumber ==
    ASSUME NEW T \in SUBSET Nat, T # {}
    PROVE  \E n \in T : \A k \in T : n <= k
<1>1. PICK n \in T : \A k \in T : ~(<<k, n>> \in OpToRel(<, Nat))
  BY NatLessThanWellFounded, WFMin
<1>2. ASSUME NEW k \in T PROVE n <= k
  <2>1. ~(<<k, n>> \in OpToRel(<, Nat))
    BY <1>1
  <2>2. k \in Nat /\ n \in Nat
    OBVIOUS
  <2>3. ~(k < n)
    BY <2>1, <2>2 DEF OpToRel
  <2> QED BY <2>2, <2>3
<1> QED BY <1>2

\* Numbers that each follow the one before count from the first.
LEMMA Counting ==
    ASSUME NEW s \in Seq(Nat), NEW base \in Nat, s # <<>> => s[1] = base + 1,
           \A i \in 1..Len(s) : i > 1 => s[i] = s[i - 1] + 1
    PROVE  \A i \in 1..Len(s) : s[i] = base + i
<1> DEFINE T == {i \in 1..Len(s) : s[i] # base + i}
<1>1. SUFFICES T = {}
  OBVIOUS
<1>2. SUFFICES ASSUME T # {} PROVE FALSE
  OBVIOUS
<1>3. T \in SUBSET Nat
  OBVIOUS
<1>4. PICK n \in T : \A k \in T : n <= k
  <2> HIDE DEF T
  <2> QED BY <1>2, <1>3, LeastNumber
<1>5. n \in 1..Len(s) /\ s[n] # base + n
  OBVIOUS
<1>6. n # 1
  BY <1>5
<1>7. n - 1 \in 1..Len(s) /\ n - 1 \notin T
  BY <1>4, <1>5, <1>6
<1>8. s[n - 1] = base + (n - 1) /\ s[n] = s[n - 1] + 1
  BY <1>5, <1>6, <1>7
<1> QED BY <1>5, <1>8

LEMMA ExportCardinality ==
    ASSUME NEW S
    PROVE  Export!Cardinality(S) = Cardinality(S)
  BY DEF Export!Cardinality, Cardinality

\* Of ascending numbers, those up to a bound come first.
LEMMA FirstUpTo ==
    ASSUME NEW s, Ascending(s), NEW ceiling
    PROVE  /\ Export!UpTo(s, ceiling) \in 0..Len(s)
           /\ ceiling \in Nat => \A i \in 1..Export!UpTo(s, ceiling) : s[i] <= ceiling
<1> DEFINE T == {i \in 1..Len(s) : s[i] <= ceiling}
<1>1. Len(s) \in Nat
  BY DEF Ascending
<1>2. IsFiniteSet(1..Len(s)) /\ Cardinality(1..Len(s)) = Len(s)
  <2>1. 1 \in Int /\ Len(s) \in Int
    BY <1>1
  <2> QED BY <1>1, <2>1, FS_Interval
<1>3. T \subseteq 1..Len(s)
  OBVIOUS
<1>4. Export!UpTo(s, ceiling) = Cardinality(T)
  BY ExportCardinality DEF Export!UpTo
<1>5. Cardinality(T) \in 0..Len(s)
  <2>1. IsFiniteSet(T) /\ Cardinality(T) <= Len(s)
    <3> HIDE DEF T
    <3> QED BY <1>2, <1>3, FS_Subset
  <2>2. Cardinality(T) \in Nat
    <3> HIDE DEF T
    <3> QED BY <2>1, FS_CardinalityType
  <2> QED BY <1>1, <2>1, <2>2
<1>6. ASSUME ceiling \in Nat, NEW i \in 1..Cardinality(T), ~(s[i] <= ceiling) PROVE FALSE
  <2>0. i \in 1..Len(s) /\ i - 1 \in Int
    BY <1>1, <1>5
  <2>1. ASSUME NEW j \in T PROVE j \in 1..(i - 1)
    <3>1. j \in 1..Len(s) /\ s[j] <= ceiling
      OBVIOUS
    <3>2. s[i] \in Nat /\ s[j] \in Nat
      BY <2>0, <3>1 DEF Ascending
    <3>3. ~(i < j) /\ i # j
      BY <1>6, <2>0, <3>1, <3>2 DEF Ascending
    <3> QED BY <2>0, <3>1, <3>3
  <2>2. IsFiniteSet(1..(i - 1)) /\ Cardinality(1..(i - 1)) = i - 1
    <3>1. 1 \in Int /\ i >= 1
      OBVIOUS
    <3> QED BY <2>0, <3>1, FS_Interval
  <2>3. Cardinality(T) <= i - 1
    <3>1. T \subseteq 1..(i - 1)
      BY <2>1
    <3> HIDE DEF T
    <3> QED BY <2>2, <3>1, FS_Subset
  <2> QED BY <1>5, <2>3
<1> HIDE DEF T
<1> QED BY <1>4, <1>5, <1>6

\* What is taken of a page are numbers up to the highwater mark.
LEMMA TakenNumbers ==
    ASSUME ExportInv
    PROVE  LET taken == Export!Taken(Export!Page(cursor))
           IN  taken \in Seq(Nat) /\ \A i \in 1..Len(taken) : taken[i] <= Export!Highwater
<1> DEFINE ring == exportSession.ring
           answer == Export!Page(cursor)
           skipped == Export!UpTo(ring, cursor)
           end == IF skipped + PageSize < Len(ring) THEN skipped + PageSize ELSE Len(ring)
           shown == Export!UpTo(answer.events, Export!Highwater)
<1>1. Ascending(ring) /\ Len(ring) \in Nat /\ Export!Highwater \in Nat
  BY DEF ExportInv, Ascending, Export!Highwater, Recordings
<1>2. skipped \in 0..Len(ring)
  <2> HIDE DEF ring
  <2> QED BY <1>1, FirstUpTo
<1>3. PageSize \in Nat \ {0}
  BY ExportConstants DEF Export!ExportAssumption
<1>4. answer.events = SubSeq(ring, skipped + 1, end)
  BY DEF Export!Page
<1>5. end \in skipped..Len(ring)
  <2> HIDE DEF ring, skipped
  <2> QED BY <1>1, <1>2, <1>3
<1>6. /\ answer.events \in Seq(Nat) /\ Len(answer.events) = end - skipped
      /\ \A i \in 1..(end - skipped) : answer.events[i] = ring[skipped + i]
  <2> HIDE DEF ring, skipped, answer, end
  <2>1. \A i \in (skipped + 1)..end : ring[i] \in Nat
    BY <1>1, <1>2, <1>5 DEF Ascending
  <2>2. skipped + 1 \in Int /\ end \in Int
    BY <1>1, <1>2, <1>5
  <2>3. \A i \in 1..(end - skipped) : skipped + 1 + i - 1 = skipped + i
    BY <1>1, <1>2, <1>5
  <2>4. end - (skipped + 1) + 1 = end - skipped
    BY <1>1, <1>2, <1>5
  <2>5. (IF skipped + 1 <= end THEN end - (skipped + 1) + 1 ELSE 0) = end - skipped
    BY <1>1, <1>2, <1>5
  <2> QED BY <1>4, <2>1, <2>2, <2>3, <2>4, <2>5, SubSeqProperties
<1>7. Ascending(answer.events)
  <2> HIDE DEF ring, skipped, answer, end
  <2>1. ASSUME NEW i \in 1..(end - skipped), NEW j \in 1..(end - skipped), i < j
        PROVE  answer.events[i] < answer.events[j]
    <3>1. skipped + i \in 1..Len(ring) /\ skipped + j \in 1..Len(ring)
      BY <1>1, <1>2, <1>5
    <3>2. skipped + i < skipped + j
      BY <1>1, <1>2, <2>1
    <3> QED BY <1>1, <1>6, <3>1, <3>2 DEF Ascending
  <2> QED BY <1>6, <2>1 DEF Ascending
<1>8. /\ shown \in 0..Len(answer.events)
      /\ \A i \in 1..shown : answer.events[i] <= Export!Highwater
  <2> HIDE DEF answer
  <2> QED BY <1>1, <1>7, FirstUpTo
<1>9. Export!Taken(answer) = SubSeq(answer.events, 1, shown)
  BY DEF Export!Taken
<1> HIDE DEF answer, shown, end, skipped, ring
<1>10. Len(answer.events) \in Nat
  BY <1>6
<1>11. \A i \in 1..shown : answer.events[i] \in Nat
  BY <1>6, <1>8, <1>10
<1>12. 1 \in Int /\ shown \in Int /\ shown >= 0
  BY <1>8, <1>10
<1>13. /\ SubSeq(answer.events, 1, shown) \in Seq(Nat)
       /\ Len(SubSeq(answer.events, 1, shown)) = shown
       /\ \A i \in 1..shown : SubSeq(answer.events, 1, shown)[i] = answer.events[i]
  <2>1. shown - 1 + 1 = shown /\ (\A i \in 1..shown : 1 + i - 1 = i)
    BY <1>12
  <2>2. (IF 1 <= shown THEN shown - 1 + 1 ELSE 0) = shown
    BY <1>12
  <2> QED BY <1>11, <1>12, <2>1, <2>2, SubSeqProperties
<1> QED BY <1>8, <1>9, <1>13 DEF answer

LEMMA ExportStarts ==
    ASSUME Export!Init
    PROVE  ExportInv
<1>1. /\ exportSession = Export!Started(1) /\ first = Export!Started(0) /\ events = <<>>
      /\ exportPc = "capabilities" /\ failure = "none"
  BY DEF Export!Init, Export!NoSession
<1>2. \A n \in Nat : /\ Export!Started(n) \in Recordings
                     /\ Export!Started(n).ring = <<>> /\ Export!Started(n).next = 1
  BY DEF Export!Started, Recordings
<1>3. Len(<<>>) = 0 /\ <<>> \in Seq(Nat) /\ <<>> \in Seq(Numberings)
  <2>1. <<>> \in Seq(Nat)
    BY EmptySeq
  <2>2. <<>> \in Seq(Numberings)
    BY EmptySeq
  <2>3. Len(<<>>) = 0
    OBVIOUS
  <2> QED BY <2>1, <2>2, <2>3
<1>4. /\ exportSession \in Recordings /\ exportSession.ring = <<>>
      /\ first \in Recordings /\ first.next = 1
  <2>1. 0 \in Nat /\ 1 \in Nat
    OBVIOUS
  <2> QED BY <1>1, <1>2, <2>1
<1>5. Ascending(<<>>)
  BY <1>3 DEF Ascending
<1>6. Exact
  <2>1. Len(events) = 0 /\ events \in Seq(Numberings)
    BY <1>1, <1>3
  <2> QED BY <1>4, <2>1 DEF Exact
<1> QED BY <1>1, <1>3, <1>4, <1>5, <1>6 DEF ExportInv, ExportSteps

\* The player records, its clock goes on, and another session takes the name of the one
\* before.
LEMMA RecordStep ==
    ASSUME ExportInv, Export!Record \/ Export!Tick \/ Export!Replace
    PROVE  ExportInv'
<1>0. UNCHANGED <<first, exportPc, events, reasons, failure>>
  BY DEF Export!Record, Export!Tick, Export!Replace, Export!collector
<1> DEFINE Sound(s) == /\ s \in Recordings /\ Ascending(s.ring)
                       /\ \A i \in 1..Len(s.ring) : s.ring[i] < s.next
<1>1. Sound(exportSession)
  BY DEF ExportInv
<1>2. CASE Export!Record
  <2>1. PICK kept \in BOOLEAN :
          LET ring == IF kept THEN Append(exportSession.ring, exportSession.next)
                              ELSE exportSession.ring
              full == Len(ring) > RingSize
          IN exportSession' = [exportSession EXCEPT
                 !.next = @ + 1,
                 !.ring = IF full THEN Tail(ring) ELSE ring,
                 !.dropped = @ + (IF kept THEN 0 ELSE 1) + (IF full THEN 1 ELSE 0)]
    BY <1>2 DEF Export!Record
  <2> DEFINE old == exportSession.ring
             number == exportSession.next
             ring == IF kept THEN Append(old, number) ELSE old
             remains == IF Len(ring) > RingSize THEN Tail(ring) ELSE ring
             dropped == exportSession.dropped + (IF kept THEN 0 ELSE 1)
                                              + (IF Len(ring) > RingSize THEN 1 ELSE 0)
             Below(numbers, n) == \A i \in 1..Len(numbers) : numbers[i] < n
  <2>2. /\ Ascending(old) /\ Below(old, number)
        /\ number \in Nat \ {0} /\ number + 1 \in Nat \ {0} /\ dropped \in Nat
    BY <1>1 DEF Recordings
  <2>3. Ascending(ring) /\ Below(ring, number + 1)
    <3> HIDE DEF old, number
    <3>1. CASE kept
      <4>1. /\ ring \in Seq(Nat) /\ Len(ring) = Len(old) + 1 /\ Len(old) \in Nat
            /\ \A i \in 1..Len(old) : ring[i] = old[i]
            /\ ring[Len(old) + 1] = number
        BY <2>2, <3>1, AppendProperties DEF Ascending
      <4> HIDE DEF ring
      <4>2. ASSUME NEW i \in 1..Len(ring), i # Len(old) + 1
            PROVE  i \in 1..Len(old) /\ ring[i] = old[i] /\ old[i] \in Nat /\ old[i] < number
        BY <2>2, <4>1, <4>2 DEF Ascending
      <4>3. Below(ring, number + 1)
        BY <2>2, <4>1, <4>2
      <4>4. ASSUME NEW i \in 1..Len(ring), NEW j \in 1..Len(ring), i < j
            PROVE  ring[i] < ring[j]
        <5>1. CASE j = Len(old) + 1
          BY <4>1, <4>2, <4>4, <5>1
        <5>2. CASE j # Len(old) + 1
          <6>1. i \in 1..Len(old) /\ j \in 1..Len(old)
            BY <4>1, <4>4, <5>2
          <6>2. ring[i] = old[i] /\ ring[j] = old[j]
            BY <4>1, <6>1
          <6> QED BY <2>2, <4>4, <6>1, <6>2 DEF Ascending
        <5> QED BY <5>1, <5>2
      <4> QED BY <4>1, <4>3, <4>4 DEF Ascending
    <3>2. CASE ~kept
      <4>1. ring = old
        BY <3>2
      <4> HIDE DEF ring
      <4> QED BY <2>2, <4>1 DEF Ascending
    <3> QED BY <3>1, <3>2
  <2>4. Ascending(remains) /\ Below(remains, number + 1)
    <3>1. CASE Len(ring) > RingSize
      <4>1. ring # <<>>
        BY <3>1, ExportConstants DEF Export!ExportAssumption
      <4> HIDE DEF ring
      <4>2. /\ remains \in Seq(Nat) /\ Len(remains) = Len(ring) - 1 /\ Len(ring) \in Nat
            /\ \A i \in 1..Len(remains) : remains[i] = ring[i + 1]
        BY <2>3, <3>1, <4>1, HeadTailProperties DEF Ascending
      <4> HIDE DEF remains, number
      <4>3. ASSUME NEW i \in 1..Len(remains)
            PROVE  i + 1 \in 1..Len(ring) /\ remains[i] = ring[i + 1]
        BY <4>2
      <4>4. ASSUME NEW i \in 1..Len(remains), NEW j \in 1..Len(remains), i < j
            PROVE  remains[i] < remains[j]
        <5>1. i + 1 < j + 1 /\ i + 1 \in 1..Len(ring) /\ j + 1 \in 1..Len(ring)
          BY <4>2, <4>4
        <5> QED BY <2>3, <4>3, <5>1 DEF Ascending
      <4> QED BY <2>3, <4>2, <4>3, <4>4 DEF Ascending
    <3>2. CASE ~(Len(ring) > RingSize)
      <4> HIDE DEF ring
      <4> QED BY <2>3, <3>2
    <3> QED BY <3>1, <3>2
  <2>5. exportSession' = [started |-> exportSession.started, next |-> number + 1, ring |-> remains,
                          dropped |-> dropped, elapsed |-> exportSession.elapsed]
    BY <1>1, <2>1 DEF Recordings
  <2>6. remains \in Seq(Nat) /\ exportSession.started \in Nat /\ exportSession.elapsed \in Nat
    <3>1. remains \in Seq(Nat)
      <4> HIDE DEF remains
      <4> QED BY <2>4 DEF Ascending
    <3>2. exportSession.started \in Nat /\ exportSession.elapsed \in Nat
      BY <1>1 DEF Recordings
    <3> QED BY <3>1, <3>2
  <2> HIDE DEF remains, number, dropped, ring, old
  <2>7. exportSession' \in Recordings
    BY <2>2, <2>5, <2>6 DEF Recordings
  <2>8. exportSession'.ring = remains /\ exportSession'.next = number + 1
    BY <2>5
  <2> QED BY <1>0, <2>4, <2>7, <2>8 DEF ExportInv, Exact
<1>3. CASE Export!Tick
  <2>1. exportSession' = [exportSession EXCEPT !.elapsed = @ + 1]
    BY <1>3 DEF Export!Tick
  <2>2. /\ exportSession' \in Recordings /\ exportSession'.ring = exportSession.ring
        /\ exportSession'.next = exportSession.next
    BY <1>1, <2>1 DEF Recordings
  <2> QED BY <1>0, <2>2 DEF ExportInv, Exact
<1>4. CASE Export!Replace
  <2>1. exportSession' = Export!Started(2)
    BY <1>4 DEF Export!Replace
  <2>2. exportSession' \in Recordings /\ exportSession'.ring = <<>>
    BY <2>1 DEF Export!Started, Recordings
  <2> QED BY <1>0, <2>2 DEF ExportInv, Exact, Ascending
<1> QED BY <1>2, <1>3, <1>4

\* A step that leaves the player's recording alone and takes no event: it fails, it gives
\* a reason, or there was one.
LEMMA ExportQuiet ==
    ASSUME ExportInv, UNCHANGED <<exportSession, events>>,
           exportPc' \in ExportSteps \ {"capabilities"},
           exportPc' = "status" => exportPc = "capabilities",
           first' = first \/ (first' \in Recordings /\ events = <<>>),
           reasons' = {} => reasons = {},
           exportPc' \in {"finish", "end"} /\ failure' = "none" /\ reasons' = {} =>
               exportPc = "finish" /\ failure = "none" /\ first' = first
    PROVE  ExportInv'
<1>1. reasons' = {} => Exact'
  <2>1. CASE first' = first
    BY <2>1 DEF ExportInv, Exact
  <2>2. CASE first' \in Recordings /\ events = <<>>
    <3>1. Len(<<>>) = 0 /\ <<>> \in Seq(Numberings)
      BY EmptySeq
    <3>2. first'.next \in Nat \ {0}
      BY <2>2 DEF Recordings
    <3> QED BY <2>2, <3>1, <3>2 DEF Exact
  <2> QED BY <2>1, <2>2
<1> QED BY <1>1 DEF ExportInv

\* A page is taken: its numbers follow those of the pages before, or a gap is noted.
LEMMA PageStep ==
    ASSUME ExportInv, exportPc = "read", Export!TakePage,
           UNCHANGED <<exportSession, first, failure>>
    PROVE  ExportInv'
<1> DEFINE taken == Export!Taken(Export!Page(cursor))
           fits == Len(events) + Len(taken) =< MaxEvents
           shown == IF fits THEN taken ELSE SubSeq(taken, 1, MaxEvents - Len(events))
<1>1. /\ exportPc' \in {"read", "conclude"}
      /\ \/ reasons' # {} /\ Len(<<>>) = 0
         \/ /\ reasons' = reasons \cup Export!Known("discarded_prefix", Export!Page(cursor).lost)
                            \cup Export!Known("sequence_gap", Export!Gap(shown))
                            \cup Export!Known("export_event_limit", ~fits)
            /\ events' = events \o Export!Numbered(shown)
            /\ first.started = exportSession.started
  BY DEF Export!TakePage, Export!Same
<1>2. ASSUME reasons' = {} PROVE Exact'
  <2>1. /\ reasons = {} /\ fits /\ ~Export!Gap(shown)
        /\ events' = events \o Export!Numbered(shown)
        /\ first.started = exportSession.started
    <3> HIDE DEF fits, shown
    <3> QED BY <1>1, <1>2 DEF Export!Known
  <2>2. shown = taken
    BY <2>1
  <2>3. /\ Exact /\ events \in Seq(Numberings) /\ Len(events) \in Nat /\ first \in Recordings
        /\ first.next - 1 \in Nat /\ Export!Highwater = first.next - 1
    BY <2>1 DEF ExportInv, Exact, Recordings, Export!Highwater
  <2>4. taken \in Seq(Nat) /\ (\A i \in 1..Len(taken) : taken[i] <= first.next - 1)
    BY <2>3, TakenNumbers
  <2> HIDE DEF taken, fits, shown
  <2>5. Len(taken) \in Nat
    BY <2>4
  <2>6. \A i \in 1..Len(taken) : taken[i] = Len(events) + i
    <3>1. events # <<>> => events[Len(events)].seq = Len(events)
      <4>1. events # <<>> => Len(events) \in 1..Len(events)
        <5>1. events # <<>> => Len(events) # 0
          BY <2>3, EmptySeq
        <5>2. Len(events) \in Nat
          BY <2>3
        <5> QED BY <5>1, <5>2
      <4>2. events # <<>> =>
              events[Len(events)] = [seq |-> Len(events), of |-> first.started]
        BY <2>3, <4>1 DEF Exact
      <4> QED BY <4>2
    <3>2. \A i \in 1..Len(taken) :
            taken[i] = (IF i > 1 THEN taken[i - 1]
                        ELSE IF events = <<>> THEN 0 ELSE events[Len(events)].seq) + 1
      BY <2>1, <2>2 DEF Export!Gap
    <3>3. taken # <<>> => taken[1] = Len(events) + 1
      <4>1. events = <<>> => Len(events) = 0
        OBVIOUS
      <4>2. taken # <<>> => 1 \in 1..Len(taken)
        BY <2>4
      <4> QED BY <3>1, <3>2, <4>1, <4>2
    <3> QED BY <2>3, <2>4, <3>2, <3>3, Counting
  <2>7. Len(events) + Len(taken) <= first.next - 1
    <3>1. CASE Len(taken) = 0
      BY <2>3, <3>1 DEF Exact
    <3>2. CASE Len(taken) # 0
      <4>1. Len(taken) \in 1..Len(taken)
        BY <2>5, <3>2
      <4> QED BY <2>4, <2>6, <4>1
    <3> QED BY <3>1, <3>2
  <2> DEFINE more == Export!Numbered(taken)
  <2>8. /\ more \in Seq(Numberings) /\ Len(more) = Len(taken)
        /\ \A i \in 1..Len(taken) :
             more[i] = [seq |-> Len(events) + i, of |-> first.started]
    <3>1. more = [i \in 1..Len(taken) |-> [seq |-> taken[i], of |-> first.started]]
      BY <2>1 DEF Export!Numbered
    <3>2. \A i \in 1..Len(taken) : [seq |-> taken[i], of |-> first.started] \in Numberings
      BY <2>3, <2>4 DEF Numberings, Recordings
    <3> HIDE DEF more
    <3> QED BY <2>5, <2>6, <3>1, <3>2, IsASeq
  <2> HIDE DEF more
  <2>9. /\ events' \in Seq(Numberings) /\ Len(events') = Len(events) + Len(taken)
        /\ \A i \in 1..(Len(events) + Len(taken)) :
             events'[i] = IF i <= Len(events) THEN events[i] ELSE more[i - Len(events)]
    <3>1. events' = events \o more
      BY <2>1, <2>2 DEF more
    <3>2. events \in Seq(Numberings) /\ more \in Seq(Numberings) /\ Len(more) = Len(taken)
      BY <2>3, <2>8
    <3>3. /\ events \o more \in Seq(Numberings)
          /\ Len(events \o more) = Len(events) + Len(more)
          /\ \A i \in 1..(Len(events) + Len(more)) :
               (events \o more)[i] = IF i <= Len(events) THEN events[i] ELSE more[i - Len(events)]
      BY <3>2, ConcatProperties
    <3> QED BY <3>1, <3>2, <3>3
  <2>10. ASSUME NEW i \in 1..(Len(events) + Len(taken))
         PROVE  events'[i] = [seq |-> i, of |-> first.started]
    <3>1. CASE i <= Len(events)
      <4>1. i \in 1..Len(events)
        BY <2>3, <2>5, <3>1
      <4> QED BY <2>3, <2>9, <3>1, <4>1 DEF Exact
    <3>2. CASE ~(i <= Len(events))
      <4>1. i - Len(events) \in 1..Len(taken) /\ Len(events) + (i - Len(events)) = i
        BY <2>3, <2>5, <3>2
      <4> QED BY <2>8, <2>9, <3>2, <4>1
    <3> QED BY <3>1, <3>2
  <2> QED BY <2>7, <2>9, <2>10 DEF Exact
<1> QED BY <1>1, <1>2 DEF ExportInv, ExportSteps

\* The end of the reading: nothing is missing up to the highwater mark, or that is said.
LEMMA ConcludeStep ==
    ASSUME ExportInv, Export!Conclude
    PROVE  ExportInv'
<1>1. /\ UNCHANGED <<exportSession, first, events, failure>> /\ exportPc' = "finish"
      /\ reasons' = {} => reasons = {}
      /\ reasons' = {} =>
           ~(Export!Highwater > 0
             /\ (events = <<>> \/ events[Len(events)].seq < Export!Highwater))
  BY DEF Export!Conclude, Export!Known
<1>2. ASSUME reasons' = {} PROVE Exact /\ Len(events) = first.next - 1
  <2>1. /\ Exact /\ first.next - 1 \in Nat /\ Len(events) \in Nat
        /\ Export!Highwater = first.next - 1
    BY <1>1, <1>2 DEF ExportInv, Exact, Recordings, Export!Highwater
  <2>2. Len(events) # 0 => Len(events) \in 1..Len(events)
    BY <2>1
  <2>3. events[Len(events)].seq = Len(events) \/ Len(events) = 0
    <3>1. Len(events) # 0 =>
            events[Len(events)] = [seq |-> Len(events), of |-> first.started]
      BY <2>1, <2>2 DEF Exact
    <3> QED BY <3>1
  <2>4. Len(events) = 0 => events = <<>>
    BY <2>1, EmptySeq DEF Exact
  <2> QED BY <1>1, <1>2, <2>1, <2>3, <2>4 DEF Exact
<1>3. reasons' = {} => Exact' /\ Len(events') = first'.next - 1
  BY <1>1, <1>2 DEF Exact
<1> QED BY <1>1, <1>3 DEF ExportInv, ExportSteps

\* Every reason is named.
LEMMA ReasonsNamed ==
    /\ \A f \in Export!Failures : f.reason # "none"
    /\ Export!Unsent # "none"
  BY DEF Export!Failures, Export!Unsent

LEMMA ExportMoves ==
    ASSUME ExportInv,
           \/ Export!Setup \/ Export!Status \/ Export!Read \/ Export!ReadBroken
           \/ Export!Finish \/ Export!FinishTorn
    PROVE  ExportInv'
<1>1. CASE Export!Setup
  <2>1. /\ UNCHANGED <<exportSession, first, events, reasons>> /\ exportPc = "capabilities"
        /\ exportPc' = "status" \/ (exportPc' = "finish" /\ failure' # "none")
    BY <1>1, ReasonsNamed DEF Export!Setup, Export!Ask, Export!Fails
  <2> QED BY <2>1, ExportQuiet DEF ExportSteps
<1>2. CASE Export!Status
  <2>1. /\ UNCHANGED <<exportSession, events, reasons>> /\ exportPc = "status"
        /\ \/ exportPc' = "read" /\ first' = exportSession
           \/ exportPc' = "finish" /\ failure' # "none" /\ first' = first
    BY <1>2, ReasonsNamed DEF Export!Status, Export!Ask, Export!Fails
  <2>2. exportSession \in Recordings /\ events = <<>>
    BY <2>1 DEF ExportInv
  <2> QED BY <2>1, <2>2, ExportQuiet DEF ExportSteps
<1>3. CASE Export!Read
  <2>1. /\ exportPc = "read" /\ UNCHANGED <<first, failure, exportSession>>
        /\ Export!TakePage \/ (exportPc' = "conclude" /\ events' = events /\ reasons' # {})
    BY <1>3 DEF Export!Read, Export!Ask
  <2>2. CASE Export!TakePage
    BY <2>1, <2>2, PageStep
  <2>3. CASE ~Export!TakePage
    BY <2>1, <2>3, ExportQuiet DEF ExportSteps
  <2> QED BY <2>2, <2>3
<1>4. CASE Export!ReadBroken
  <2>1. /\ UNCHANGED <<exportSession, first, events, reasons>> /\ exportPc = "read"
        /\ exportPc' = "finish" /\ failure' # "none"
    BY <1>4 DEF Export!ReadBroken, Export!Fails
  <2> QED BY <2>1, ExportQuiet DEF ExportSteps
<1>5. CASE Export!Finish \/ Export!FinishTorn
  <2>1. /\ UNCHANGED <<exportSession, first, events, reasons, failure>> /\ exportPc = "finish"
        /\ exportPc' = "end"
    BY <1>5 DEF Export!Finish, Export!FinishTorn
  <2> QED BY <2>1, ExportQuiet DEF ExportSteps
<1> QED BY <1>1, <1>2, <1>3, <1>4, <1>5

LEMMA ExportInductive ==
    ASSUME ExportInv, [Export!Next]_ExportVars
    PROVE  ExportInv'
<1>1. CASE Export!Restart \/ Export!DiskFills \/ Export!Damage \/ UNCHANGED ExportVars
  <2>1. UNCHANGED <<exportSession, first, exportPc, events, reasons, failure>>
    BY <1>1 DEF Export!Restart, Export!DiskFills, Export!Damage, Export!collector, ExportVars
  <2> QED BY <2>1 DEF ExportInv, Exact
<1>2. CASE Export!Next
  BY <1>1, <1>2, RecordStep, ConcludeStep, ExportMoves DEF Export!Next, Export!World
<1> QED BY <1>1, <1>2

\* An export that is complete, or verified as such later, holds every event of the one
\* session it started with, up to the last one at that time, each once and in order,
\* however many events, pages and places in the ring there are, and whatever the player
\* drops or replaces meanwhile (collect of performance.py, report_verify.py).
THEOREM ExportExactCorrect ==
    MCSpec => []ExportExact
<1> DEFINE Inv == part = "export" => ExportInv
<1>1. MCInit => Inv
  BY ExportStarts DEF MCInit
<1>2. Inv /\ [MCNext]_MCvars => Inv'
  <2> SUFFICES ASSUME ExportInv, [MCNext]_MCvars, part = "export"
               PROVE  ExportInv'
    BY DEF MCNext, MCvars
  <2>1. [Export!Next]_ExportVars
    BY DEF MCNext, MCvars
  <2> QED BY <2>1, ExportInductive
<1>3. Inv => ExportExact
  <2> SUFFICES ASSUME ExportInv PROVE Export!ExportExact
    BY DEF ExportExact
  <2>1. SUFFICES ASSUME exportPc = "end", Export!Complete \/ Export!Verdict = "observed"
                 PROVE  events = [n \in 1..Export!Highwater |-> [seq |-> n, of |-> first.started]]
    BY DEF Export!ExportExact
  <2>2. Export!Complete
    BY <2>1 DEF Export!Verdict
  <2>3. Exact /\ Len(events) = first.next - 1 /\ Export!Highwater = first.next - 1
    BY <2>1, <2>2 DEF ExportInv, Export!Complete, Export!Highwater
  <2>4. events \in Seq(Numberings)
    BY <2>3 DEF Exact
  <2>5. events \in [1..Len(events) -> Numberings]
    BY <2>4, LenProperties
  <2>6. \A i \in 1..Len(events) : events[i] = [seq |-> i, of |-> first.started]
    BY <2>3 DEF Exact
  <2> QED BY <2>3, <2>5, <2>6
<1> HIDE DEF Inv
<1> QED BY <1>1, <1>2, <1>3, PTL DEF MCSpec

-----------------------------------------------------------------------------
(* The progress test                                                       *)

MediaStates == {"playing", "paused", "frozen"}
PlayedMedia == [runtime : Nat \ {0}, generation : Nat, at : Nat, state : MediaStates, epoch : Nat]

\* The samples the command has, and the one on its way.
Samples == {workbenchRows[i].sample :
               i \in {j \in 1..Len(workbenchRows) : workbenchRows[j].status = "observed"}}
           \cup ({workbenchReply} \ {Progress!NoSample})

\* A sample is of the media that plays, in this run of the page, or of an earlier one.
Taken(a) ==
    /\ a.runtime \in Nat \ {0} /\ a.generation \in Nat /\ a.at \in Nat
    /\ \/ a.runtime < media.runtime
       \/ a.runtime = media.runtime /\ a.generation < media.generation
       \/ a.runtime = media.runtime /\ a.generation = media.generation /\ a.epoch = media.epoch

\* Its runtime and its generation name the media of a sample.
NamesMedia(a, b) == Progress!SameMedia(a, b) => a.epoch = b.epoch

SamplesNamed ==
    /\ media \in PlayedMedia
    /\ \A a \in Samples : Taken(a)
    /\ \A a, b \in Samples : NamesMedia(a, b)

ProgressInv ==
    /\ command = "progress"
    /\ \E S : workbenchRows \in Seq(S)
    /\ SamplesNamed
    /\ verdict # "none" => workbenchPc \in {"save", "end"}
    /\ Progress!ProgressHonest

\* The media goes on, or another one follows it; what is sampled is the media.
LEMMA Sampling ==
    ASSUME SamplesNamed, media' \in PlayedMedia,
           \A a \in Samples' : a \in Samples \/ (media' = media /\ a = Progress!Sample),
           \/ media'.runtime > media.runtime
           \/ media'.runtime = media.runtime /\ media'.generation > media.generation
           \/ UNCHANGED <<media.runtime, media.generation, media.epoch>>
    PROVE  SamplesNamed'
<1>1. media \in PlayedMedia
  BY DEF SamplesNamed
<1>2. /\ media.runtime \in Nat \ {0} /\ media.generation \in Nat /\ media.at \in Nat
      /\ media'.runtime \in Nat \ {0} /\ media'.generation \in Nat
  BY <1>1 DEF PlayedMedia
<1>3. LET a == Progress!Sample
      IN  a.runtime = media.runtime /\ a.generation = media.generation /\ a.at = media.at
          /\ a.epoch = media.epoch
  BY DEF Progress!Sample
<1>4. ASSUME NEW a \in Samples' PROVE Taken(a)'
  <2>1. CASE a \in Samples
    <3>1. Taken(a)
      BY <2>1 DEF SamplesNamed
    <3> QED BY <1>2, <3>1 DEF Taken
  <2>2. CASE a \notin Samples
    BY <1>2, <1>3, <2>2 DEF Taken
  <2> QED BY <2>1, <2>2
<1>5. ASSUME NEW a \in Samples', NEW b \in Samples' PROVE NamesMedia(a, b)'
  <2>1. CASE a \in Samples /\ b \in Samples
    BY <2>1 DEF SamplesNamed, NamesMedia, Progress!SameMedia
  <2>2. CASE a \in Samples /\ b \notin Samples
    <3>1. Taken(a)
      BY <2>2 DEF SamplesNamed
    <3> QED BY <1>2, <1>3, <2>2, <3>1 DEF Taken, NamesMedia, Progress!SameMedia
  <2>3. CASE a \notin Samples /\ b \in Samples
    <3>1. Taken(b)
      BY <2>3 DEF SamplesNamed
    <3> QED BY <1>2, <1>3, <2>3, <3>1 DEF Taken, NamesMedia, Progress!SameMedia
  <2>4. CASE a \notin Samples /\ b \notin Samples
    BY <2>4 DEF NamesMedia
  <2> QED BY <2>1, <2>2, <2>3, <2>4
<1> QED BY <1>4, <1>5 DEF SamplesNamed

\* What is kept of a lane that is done, is what it answered.
LEMMA DoneSamples ==
    ASSUME NEW S, workbenchRows \in Seq(S), NEW row, Progress!Done(row),
           row.status = "observed" => row.sample \in Samples
    PROVE  /\ \E T : workbenchRows' \in Seq(T)
           /\ Samples' \subseteq Samples
<1>1. workbenchRows' = Append(workbenchRows, row) /\ workbenchReply' = Progress!NoSample
  BY DEF Progress!Done
<1>2. workbenchRows \in Seq(S \cup {row}) /\ row \in S \cup {row}
  <2>1. S \subseteq S \cup {row}
    OBVIOUS
  <2> QED BY <2>1, SeqMonotonic
<1>3. /\ workbenchRows' \in Seq(S \cup {row}) /\ Len(workbenchRows') = Len(workbenchRows) + 1
      /\ \A i \in 1..Len(workbenchRows) : workbenchRows'[i] = workbenchRows[i]
      /\ workbenchRows'[Len(workbenchRows) + 1] = row
      /\ Len(workbenchRows) \in Nat
  BY <1>1, <1>2, AppendProperties
<1>4. ASSUME NEW a \in Samples' PROVE a \in Samples
  <2>1. PICK i \in 1..Len(workbenchRows') :
          workbenchRows'[i].status = "observed" /\ a = workbenchRows'[i].sample
    BY <1>1, <1>4 DEF Samples, Progress!NoSample
  <2>2. CASE i = Len(workbenchRows) + 1
    BY <1>3, <2>1, <2>2
  <2>3. CASE i # Len(workbenchRows) + 1
    <3>1. i \in 1..Len(workbenchRows)
      BY <1>3, <2>3
    <3> QED BY <1>3, <2>1, <3>1 DEF Samples
  <2> QED BY <2>2, <2>3
<1> QED BY <1>3, <1>4

LEMMA ProgressStarts ==
    ASSUME Progress!Init
    PROVE  ProgressInv
<1>1. /\ media = [runtime |-> 1, generation |-> 1, at |-> 5, state |-> "playing", epoch |-> 1]
      /\ command = "progress" /\ workbenchReply = Progress!NoSample /\ workbenchRows = <<>>
      /\ verdict = "none"
  BY DEF Progress!Init
<1>2. media \in PlayedMedia
  BY <1>1 DEF PlayedMedia, MediaStates
<1>3. Samples = {}
  BY <1>1 DEF Samples
<1>4. workbenchRows \in Seq({})
  BY <1>1, EmptySeq
<1> QED BY <1>1, <1>2, <1>3, <1>4 DEF ProgressInv, SamplesNamed, Progress!ProgressHonest

\* The player and its viewer.
LEMMA MediaStep ==
    ASSUME ProgressInv, Progress!World
    PROVE  ProgressInv'
<1>0. UNCHANGED <<command, lane, workbenchPc, workbenchReply, workbenchRows, verdict>>
  BY DEF Progress!World, Progress!Tick, Progress!SwitchMedia, Progress!Reload, Progress!Seek,
     Progress!Stall, Progress!ClockJump, Progress!Happens, Progress!asking, Progress!position
<1>1. media \in PlayedMedia
  BY DEF ProgressInv, SamplesNamed
<1>2. /\ media' \in PlayedMedia
      /\ \/ media'.runtime > media.runtime
         \/ media'.runtime = media.runtime /\ media'.generation > media.generation
         \/ UNCHANGED <<media.runtime, media.generation, media.epoch>>
  <2>1. CASE Progress!Tick
    BY <1>1, <2>1 DEF Progress!Tick, PlayedMedia
  <2>2. CASE Progress!SwitchMedia
    <3>1. media' = [runtime |-> media.runtime, generation |-> media.generation + 1, at |-> 6,
                    state |-> media.state, epoch |-> media.epoch + 1]
      BY <1>1, <2>2 DEF Progress!SwitchMedia, PlayedMedia
    <3>2. media.generation + 1 \in Nat /\ media.epoch + 1 \in Nat
      BY <1>1 DEF PlayedMedia
    <3>3. media' \in PlayedMedia
      BY <1>1, <3>1, <3>2 DEF PlayedMedia
    <3>4. media'.runtime = media.runtime /\ media'.generation > media.generation
      BY <1>1, <3>1 DEF PlayedMedia
    <3> QED BY <3>3, <3>4
  <2>3. CASE Progress!Reload
    BY <1>1, <2>3 DEF Progress!Reload, PlayedMedia, MediaStates
  <2>4. CASE Progress!Seek
    BY <1>1, <2>4 DEF Progress!Seek, PlayedMedia
  <2>5. CASE Progress!Stall
    BY <1>1, <2>5 DEF Progress!Stall, PlayedMedia, MediaStates
  <2>6. CASE Progress!ClockJump
    BY <1>1, <2>6 DEF Progress!ClockJump
  <2> QED BY <2>1, <2>2, <2>3, <2>4, <2>5, <2>6 DEF Progress!World
<1>3. Samples' = Samples
  BY <1>0 DEF Samples
<1>4. SamplesNamed'
  BY <1>2, <1>3, Sampling DEF ProgressInv
<1> QED BY <1>0, <1>4 DEF ProgressInv, Progress!ProgressHonest, Progress!Observed,
       Progress!Authority

\* A step before the verdict that adds no sample but that of the media.
LEMMA ObservationStep ==
    ASSUME ProgressInv, UNCHANGED <<media, command, verdict>>, verdict = "none",
           \E S : workbenchRows' \in Seq(S),
           \A a \in Samples' : a \in Samples \/ a = Progress!Sample
    PROVE  ProgressInv'
<1>1. SamplesNamed'
  BY Sampling DEF ProgressInv, SamplesNamed
<1> QED BY <1>1 DEF ProgressInv, Progress!ProgressHonest

LEMMA ProgressMoves ==
    ASSUME ProgressInv,
           \/ Progress!BeginStage \/ Progress!BeginLane \/ Progress!Ask \/ Progress!Take
           \/ Progress!Answered \/ Progress!Unanswered
           \/ Progress!SleepEnds
    PROVE  ProgressInv'
<1>0. /\ UNCHANGED <<media, command, verdict>>
      /\ workbenchPc \in {"stage", "lane", "ask", "wait", "sleep"}
  BY DEF Progress!BeginStage, Progress!BeginLane, Progress!Ask, Progress!Take, Progress!Answered,
     Progress!Unanswered, Progress!SleepEnds, Progress!world,
     Progress!asking
<1>1. verdict = "none"
  BY <1>0 DEF ProgressInv
<1>2. PICK S : workbenchRows \in Seq(S)
  BY DEF ProgressInv
<1>3. CASE \E row : /\ Progress!Done(row)
                    /\ row.status = "observed" =>
                         row.sample = workbenchReply /\ workbenchReply # Progress!NoSample
  <2>1. PICK row : /\ Progress!Done(row)
                   /\ row.status = "observed" =>
                        row.sample = workbenchReply /\ workbenchReply # Progress!NoSample
    BY <1>3
  <2>2. row.status = "observed" => row.sample \in Samples
    BY <2>1 DEF Samples
  <2> QED BY <1>0, <1>1, <1>2, <2>1, <2>2, DoneSamples, ObservationStep
<1>4. CASE UNCHANGED workbenchRows /\ workbenchReply' \in {workbenchReply, Progress!NoSample}
  <2>1. Samples' \subseteq Samples
    BY <1>4 DEF Samples, Progress!NoSample
  <2> QED BY <1>0, <1>1, <1>2, <1>4, <2>1, ObservationStep
<1>5. CASE Progress!Take
  <2>1. UNCHANGED workbenchRows /\ workbenchReply' = Progress!Sample
    BY <1>5 DEF Progress!Take
  <2>2. \A a \in Samples' : a \in Samples \/ a = Progress!Sample
    BY <2>1 DEF Samples
  <2> QED BY <1>0, <1>1, <1>2, <2>1, <2>2, ObservationStep
<1>6. CASE Progress!BeginStage \/ Progress!SleepEnds
  BY <1>4, <1>6 DEF Progress!BeginStage, Progress!SleepEnds,
     Progress!position
<1>7. CASE Progress!BeginLane
  <2> DEFINE row == Progress!Row("not_bound", Progress!NoSample, FALSE)
  <2>1. row.status # "observed"
    BY DEF Progress!Row
  <2> QED BY <1>3, <1>4, <1>7, <2>1 DEF Progress!BeginLane
<1>8. CASE Progress!Ask
  <2> DEFINE row == Progress!Row("unknown", Progress!NoSample,
                                 step = 2 /\ Progress!Lane = "web")
  <2>1. row.status # "observed"
    BY DEF Progress!Row
  <2> QED BY <1>3, <1>4, <1>8, <2>1 DEF Progress!Ask, Progress!position
<1>9. CASE Progress!Unanswered
  <2> DEFINE row == Progress!Row("unknown", Progress!NoSample,
                                 step = 2 /\ Progress!Lane = "web")
  <2>1. row.status # "observed"
    BY DEF Progress!Row
  <2> QED BY <1>3, <1>9, <2>1 DEF Progress!Unanswered
<1>10. CASE Progress!Answered
  <2> DEFINE row == Progress!Row("observed", workbenchReply, Progress!Lane = "web")
  <2>1. row.sample = workbenchReply
    BY DEF Progress!Row
  <2> QED BY <1>3, <1>4, <1>10, <2>1 DEF Progress!Answered
<1> QED BY <1>5, <1>6, <1>7, <1>8, <1>9, <1>10

\* The verdict.
LEMMA VerdictStep ==
    ASSUME ProgressInv, Progress!Conclude
    PROVE  ProgressInv'
<1>0. /\ UNCHANGED <<media, command, lane, workbenchReply, workbenchRows>>
      /\ workbenchPc' = "save" /\ verdict' = Progress!ProgressVerdict
  BY DEF Progress!Conclude, Progress!world, Progress!asking, Progress!position, ProgressInv
<1>1. Samples' = Samples
  BY <1>0 DEF Samples
<1>2. SamplesNamed'
  BY <1>0, <1>1 DEF ProgressInv, SamplesNamed, Taken, NamesMedia, Progress!SameMedia
<1>3. ASSUME verdict' \in {"pass", "fail"}
      PROVE  LET i == CHOOSE k \in Progress!Observed(1, Progress!Authority) : TRUE
                 j == CHOOSE k \in Progress!Observed(2, Progress!Authority) : TRUE
                 a == workbenchRows[i].sample
                 b == workbenchRows[j].sample
             IN /\ a.epoch = b.epoch
                /\ verdict' = "pass" => b.at > a.at
                /\ verdict' = "fail" => b.at = a.at
  <2> DEFINE i == CHOOSE k \in Progress!Observed(1, Progress!Authority) : TRUE
             j == CHOOSE k \in Progress!Observed(2, Progress!Authority) : TRUE
             a == workbenchRows[i].sample
             b == workbenchRows[j].sample
  <2>1. /\ Progress!Observed(1, Progress!Authority) # {}
        /\ Progress!Observed(2, Progress!Authority) # {}
    BY <1>0, <1>3 DEF Progress!ProgressVerdict
  <2>2. /\ Progress!SameMedia(a, b) /\ ~(b.at - a.at < 0)
        /\ verdict' = IF b.at - a.at = 0 THEN "fail" ELSE "pass"
    BY <1>0, <1>3, <2>1 DEF Progress!ProgressVerdict
  <2>3. i \in Progress!Observed(1, Progress!Authority)
        /\ j \in Progress!Observed(2, Progress!Authority)
    BY <2>1
  <2>4. a \in Samples /\ b \in Samples
    BY <2>3 DEF Progress!Observed, Samples
  <2> HIDE DEF a, b
  <2>5. a.epoch = b.epoch /\ a.at \in Nat /\ b.at \in Nat
    BY <2>2, <2>4 DEF ProgressInv, SamplesNamed, NamesMedia, Taken
  <2>6. /\ verdict' = "pass" => b.at > a.at
        /\ verdict' = "fail" => b.at = a.at
    BY <2>2, <2>5
  <2> QED BY <2>5, <2>6 DEF a, b
<1>4. Progress!ProgressHonest'
  BY <1>0, <1>3 DEF Progress!ProgressHonest, Progress!Observed, Progress!Authority
<1> QED BY <1>0, <1>2, <1>4 DEF ProgressInv

LEMMA ProgressInductive ==
    ASSUME ProgressInv, [Progress!Next]_WorkbenchVars
    PROVE  ProgressInv'
<1>1. CASE Progress!Save \/ UNCHANGED WorkbenchVars
  <2>1. /\ UNCHANGED <<media, command, lane, workbenchReply, workbenchRows, verdict>>
        /\ workbenchPc' \in {workbenchPc, "end"}
    BY <1>1 DEF Progress!Save, Progress!world, Progress!asking, Progress!position, WorkbenchVars
  <2>2. Samples' = Samples
    BY <2>1 DEF Samples
  <2> QED BY <2>1, <2>2 DEF ProgressInv, SamplesNamed, Taken, NamesMedia, Progress!SameMedia,
         Progress!ProgressHonest, Progress!Observed, Progress!Authority
<1>2. CASE Progress!Next
  BY <1>1, <1>2, MediaStep, ProgressMoves, VerdictStep DEF Progress!Next
<1> QED BY <1>1, <1>2

\* The progress test passes only when one and the same media, in one run of the page, was
\* further than before, and fails only when it was where it had been, whatever was
\* switched, reloaded, sought and paused between the requests, and however often
\* (progress_verdict of workbench.py).
THEOREM ProgressHonestCorrect ==
    MCSpec => []ProgressHonest
<1> DEFINE Inv == part = "progress" => ProgressInv
<1>1. MCInit => Inv
  BY ProgressStarts DEF MCInit
<1>2. Inv /\ [MCNext]_MCvars => Inv'
  <2> SUFFICES ASSUME ProgressInv, [MCNext]_MCvars, part = "progress"
               PROVE  ProgressInv'
    BY DEF MCNext, MCvars
  <2>1. [Progress!Next]_WorkbenchVars
    BY DEF MCNext, MCvars
  <2> QED BY <2>1, ProgressInductive
<1>3. Inv => ProgressHonest
  BY DEF ProgressInv, ProgressHonest
<1> HIDE DEF Inv
<1> QED BY <1>1, <1>2, <1>3, PTL DEF MCSpec

-----------------------------------------------------------------------------
(* The time of a command that observes a player more than once             *)

\* What must be left when an observation begins, so that it and those after it can
\* give each of their lanes one unit.
Required ==
    CASE command = "health" -> <<2>>
      [] command = "progress" -> <<Duration + 4, 2>>
      [] command = "bundle" /\ lane = "native" -> <<1>>
      [] command = "bundle" /\ lane # "native" -> <<5, 2, 1>>
      [] command = "provider" -> <<6, 4, 1>>

Stages == Len(Shares!Plan)
Width(s) == Len(Shares!Plan[s])
Needed(s) == Required[s]

\* The pause between the samples of the progress test.
Pause == IF command = "progress" /\ stage = 1 THEN Duration ELSE 0

OfThePlan ==
    /\ command \in {"health", "progress", "bundle", "provider"}
    /\ lane \in {"web", "native", "auto"}
    /\ workbenchNow \in Nat /\ stageEnd \in Nat /\ laneEnd \in Nat
    /\ stage \in Nat \ {0} /\ turn \in Nat
    /\ workbenchPc \in {"stage", "lane", "ask", "wait", "sleep", "save", "end"}
    /\ times \in Seq(Nat)
    /\ command = "progress" /\ stage = 1 =>
         /\ workbenchPc = "stage" => workbenchNow = 0 /\ times = <<>>
         /\ workbenchPc \in {"lane", "ask", "wait"} => Len(times) = 1

\* Between two observations: what is left is enough for the next one.
EnoughLeft ==
    /\ workbenchPc = "stage" /\ stage <= Stages =>
         workbenchNow + Needed(stage) <= ShareBudget
    /\ workbenchPc = "sleep" =>
         /\ command = "progress" /\ stage = 2
         /\ Len(times) = 2 /\ times[2] + Duration + 2 <= ShareBudget
         /\ workbenchNow <= times[2] + Duration

\* During one: what is left of it is enough for the lanes to come, and it ends
\* early enough for the next.
EnoughShared ==
    /\ workbenchPc \in {"lane", "ask", "wait"} =>
         /\ stage \in 1..Stages /\ turn \in 1..Width(stage)
         /\ stage < Stages => stageEnd + Pause + Needed(stage + 1) <= ShareBudget
    /\ workbenchPc = "lane" =>
         workbenchNow + Width(stage) + 1 - turn <= stageEnd
    /\ workbenchPc \in {"ask", "wait"} =>
         /\ workbenchNow <= laneEnd
         /\ laneEnd + Width(stage) - turn <= stageEnd

\* Whoever waits has asked, and whoever has an outcome.
HasAsked ==
    /\ workbenchPc \in {"stage", "lane", "sleep"} => step = 1
    /\ workbenchPc = "ask" /\ step = 1 => workbenchNow < laneEnd
    /\ workbenchPc = "wait" \/ (workbenchPc = "ask" /\ step # 1) =>
         <<stage, Shares!Lane>> \in asked
    /\ \E S : workbenchRows \in Seq(S)
    /\ \A i \in 1..Len(workbenchRows) :
         workbenchRows[i].status # "not_bound" =>
             <<workbenchRows[i].stage, workbenchRows[i].lane>> \in asked

SharesInv == OfThePlan /\ EnoughLeft /\ EnoughShared /\ HasAsked

\* The unit of time is small enough: a command has six of them, and the progress test
\* four beyond its pause, which the code makes longer than a second.
EnoughTime == ShareBudget >= 6 /\ ShareBudget >= Duration + 4

LEMMA Divided ==
    ASSUME NEW x \in Nat, NEW d \in Nat \ {0}
    PROVE  x \div d \in Nat /\ d * (x \div d) <= x /\ x < d * (x \div d) + d
  OBVIOUS

LEMMA LanesCounted ==
    ASSUME OfThePlan
    PROVE  Len(Shares!Lanes(lane)) = IF lane = "auto" THEN 2 ELSE 1
  BY DEF OfThePlan, Shares!Lanes

\* A share of what is left leaves the others theirs.
LEMMA WindowFits ==
    ASSUME OfThePlan, EnoughLeft, workbenchPc = "stage", stage <= Stages
    PROVE  /\ Shares!Window \in Nat /\ stage \in 1..Stages
           /\ Width(stage) \in 1..2 /\ Shares!Window >= Width(stage)
           /\ stage < Stages =>
                workbenchNow + Shares!Window + Pause + Needed(stage + 1) <= ShareBudget
<1>0. /\ ShareBudget \in Nat /\ Duration \in Nat
      /\ workbenchNow \in Nat /\ stage \in Nat \ {0}
      /\ workbenchNow + Required[stage] <= ShareBudget /\ stage <= Len(Shares!Plan)
  BY SharesConstants DEF Stages, Needed, Shares!WorkbenchAssumption, OfThePlan, EnoughLeft
<1> DEFINE lanes == Len(Shares!Plan[stage])
<1>7. SUFFICES /\ Shares!Window \in Nat /\ stage \in 1..Len(Shares!Plan)
               /\ lanes \in 1..2 /\ Shares!Window >= lanes
               /\ stage < Len(Shares!Plan) =>
                    workbenchNow + Shares!Window + Pause + Required[stage + 1] <= ShareBudget
  BY DEF Stages, Width, Needed
<1> HIDE DEF lanes
<1>6. Len(Shares!Lanes(lane)) = 1 \/ Len(Shares!Lanes(lane)) = 2
  BY LanesCounted
<1>1. CASE command = "health"
  <2>1. Shares!Plan = <<Shares!Lanes(lane)>> /\ Required = <<2>>
    BY <1>1 DEF Shares!Plan, Required
  <2>2. stage = 1 /\ Len(Shares!Plan) = 1 /\ Shares!Plan[stage] = Shares!Lanes(lane)
    BY <1>0, <2>1
  <2>3. workbenchNow + 2 <= ShareBudget
    BY <1>0, <2>1, <2>2
  <2>4. Shares!Window = ShareBudget - workbenchNow
    BY <1>0, <1>1, <2>2, <2>3 DEF Shares!Window, Shares!Left
  <2>9. lanes = 1 \/ lanes = 2
    BY <2>2, <1>6 DEF lanes
  <2> QED BY <1>0, <2>2, <2>3, <2>4, <2>9
<1>2. CASE command = "progress"
  <2>1. Shares!Plan = <<Shares!Lanes(lane), Shares!Lanes(lane)>>
        /\ Required = <<Duration + 4, 2>>
    BY <1>2 DEF Shares!Plan, Required
  <2>2. stage \in {1, 2} /\ Len(Shares!Plan) = 2 /\ Shares!Plan[stage] = Shares!Lanes(lane)
    BY <1>0, <2>1
  <2>3. CASE stage = 1
    <3>1. workbenchNow = 0 /\ Required[stage] = Duration + 4 /\ Required[stage + 1] = 2
      BY <1>2, <2>1, <2>3 DEF OfThePlan
    <3>2. Shares!Window = (ShareBudget - Duration) \div 2 /\ Pause = Duration
      BY <1>2, <2>3 DEF Shares!Window, Pause
    <3>3. Shares!Window \in Nat /\ Shares!Window >= 2
          /\ Shares!Window + Duration + 2 <= ShareBudget
      <4> DEFINE x == ShareBudget - Duration
                 q == x \div 2
      <4>1. x \in Nat
        BY <1>0, <3>1
      <4>2. q \in Nat /\ 2 * q <= x /\ x < 2 * q + 2
        BY <1>0, <4>1, Divided
      <4>3. Shares!Window = q
        BY <3>2
      <4> HIDE DEF q
      <4> QED BY <1>0, <3>1, <4>2, <4>3
    <3>9. lanes = 1 \/ lanes = 2
      BY <2>2, <3>1, <1>6 DEF lanes
    <3> QED BY <1>0, <2>2, <2>3, <3>1, <3>2, <3>3, <3>9
  <2>4. CASE stage = 2
    <3>1. workbenchNow + 2 <= ShareBudget
      BY <1>0, <2>1, <2>4
    <3>2. Shares!Window = ShareBudget - workbenchNow
      BY <1>0, <1>2, <2>2, <2>4, <3>1 DEF Shares!Window, Shares!Left
    <3>9. lanes = 1 \/ lanes = 2
      BY <2>2, <3>1, <1>6 DEF lanes
    <3> QED BY <1>0, <2>2, <2>4, <3>1, <3>2, <3>9
  <2> QED BY <2>2, <2>3, <2>4
<1>3. CASE command = "bundle" /\ lane = "native"
  <2>1. Shares!Plan = <<Shares!Lanes(lane)>> /\ Required = <<1>>
    BY <1>3 DEF Shares!Plan, Required
  <2>2. stage = 1 /\ Len(Shares!Plan) = 1 /\ Shares!Plan[stage] = Shares!Lanes(lane)
    BY <1>0, <2>1
  <2>3. workbenchNow + 1 <= ShareBudget
    BY <1>0, <2>1, <2>2
  <2>4. Shares!Window = ShareBudget - workbenchNow
    BY <1>0, <1>3, <2>2, <2>3 DEF Shares!Window, Shares!Left
  <2>9. lanes = 1
    BY <1>3, <2>2, LanesCounted DEF lanes
  <2> QED BY <1>0, <1>3, <2>2, <2>3, <2>4, <2>9
<1>4. CASE command = "bundle" /\ lane # "native"
  <2>1. Shares!Plan = <<Shares!Lanes(lane), <<"web">>, <<"web">>>> /\ Required = <<5, 2, 1>>
    BY <1>4 DEF Shares!Plan, Required
  <2>2. stage \in {1, 2, 3} /\ Len(Shares!Plan) = 3
    BY <1>0, <2>1
  <2>3. CASE stage = 1
    <3>1. /\ workbenchNow + 5 <= ShareBudget /\ Required[stage + 1] = 2
          /\ Shares!Plan[stage] = Shares!Lanes(lane)
      BY <1>0, <2>1, <2>3
    <3>2. Shares!Window = ((ShareBudget - workbenchNow) * 3) \div 4 /\ Pause = 0
      BY <1>0, <1>4, <2>2, <2>3, <3>1 DEF Shares!Window, Shares!Part, Shares!Left, Pause
    <3>3. Shares!Window \in Nat /\ Shares!Window >= 2
          /\ workbenchNow + Shares!Window + 2 <= ShareBudget
      <4> DEFINE x == (ShareBudget - workbenchNow) * 3
                 q == x \div 4
      <4>1. x \in Nat
        BY <1>0, <3>1
      <4>2. q \in Nat /\ 4 * q <= x /\ x < 4 * q + 4
        BY <1>0, <4>1, Divided
      <4>3. Shares!Window = q
        BY <3>2
      <4> HIDE DEF q
      <4> QED BY <1>0, <3>1, <4>2, <4>3
    <3>9. lanes = 1 \/ lanes = 2
      BY <2>2, <3>1, <1>6 DEF lanes
    <3> QED BY <1>0, <2>2, <2>3, <3>1, <3>2, <3>3, <3>9
  <2>4. CASE stage = 2
    <3>1. /\ workbenchNow + 2 <= ShareBudget /\ Required[stage + 1] = 1
          /\ Shares!Plan[stage] = <<"web">>
      BY <1>0, <2>1, <2>4
    <3>2. Shares!Window = ((ShareBudget - workbenchNow) * 1) \div 2 /\ Pause = 0
      BY <1>0, <1>4, <2>2, <2>4, <3>1 DEF Shares!Window, Shares!Part, Shares!Left, Pause
    <3>3. Shares!Window \in Nat /\ Shares!Window >= 1
          /\ workbenchNow + Shares!Window + 1 <= ShareBudget
      BY <1>0, <3>1, <3>2
    <3>9. lanes = 1
      BY <3>1 DEF lanes
    <3> QED BY <1>0, <2>2, <2>4, <3>1, <3>2, <3>3, <3>9
  <2>5. CASE stage = 3
    <3>1. workbenchNow + 1 <= ShareBudget /\ Shares!Plan[stage] = <<"web">>
      BY <1>0, <2>1, <2>5
    <3>2. Shares!Window = ShareBudget - workbenchNow
      BY <1>0, <1>4, <2>2, <2>5, <3>1 DEF Shares!Window, Shares!Left
    <3>9. lanes = 1
      BY <3>1 DEF lanes
    <3> QED BY <1>0, <2>2, <2>5, <3>1, <3>2, <3>9
  <2> QED BY <2>2, <2>3, <2>4, <2>5
<1>5. CASE command = "provider"
  <2>1. Shares!Plan = <<<<"web">>, Shares!Lanes(lane), <<"web">>>> /\ Required = <<6, 4, 1>>
    BY <1>5 DEF Shares!Plan, Required
  <2>2. stage \in {1, 2, 3} /\ Len(Shares!Plan) = 3
    BY <1>0, <2>1
  <2>3. CASE stage = 1
    <3>1. /\ workbenchNow + 6 <= ShareBudget /\ Required[stage + 1] = 4
          /\ Shares!Plan[stage] = <<"web">>
      BY <1>0, <2>1, <2>3
    <3>2. Shares!Window = ((ShareBudget - workbenchNow) * 2) \div 5 /\ Pause = 0
      BY <1>0, <1>5, <2>2, <2>3, <3>1 DEF Shares!Window, Shares!Part, Shares!Left, Pause
    <3>3. Shares!Window \in Nat /\ Shares!Window >= 1
          /\ workbenchNow + Shares!Window + 4 <= ShareBudget
      BY <1>0, <3>1, <3>2
    <3>9. lanes = 1
      BY <3>1 DEF lanes
    <3> QED BY <1>0, <2>2, <2>3, <3>1, <3>2, <3>3, <3>9
  <2>4. CASE stage = 2
    <3>1. /\ workbenchNow + 4 <= ShareBudget /\ Required[stage + 1] = 1
          /\ Shares!Plan[stage] = Shares!Lanes(lane)
      BY <1>0, <2>1, <2>4
    <3>2. Shares!Window = ((ShareBudget - workbenchNow) * 3) \div 5 /\ Pause = 0
      BY <1>0, <1>5, <2>2, <2>4, <3>1 DEF Shares!Window, Shares!Part, Shares!Left, Pause
    <3>3. Shares!Window \in Nat /\ Shares!Window >= 2
          /\ workbenchNow + Shares!Window + 1 <= ShareBudget
      <4> DEFINE x == (ShareBudget - workbenchNow) * 3
                 q == x \div 5
      <4>1. x \in Nat
        BY <1>0, <3>1
      <4>2. q \in Nat /\ 5 * q <= x /\ x < 5 * q + 5
        BY <1>0, <4>1, Divided
      <4>3. Shares!Window = q
        BY <3>2
      <4> HIDE DEF q
      <4> QED BY <1>0, <3>1, <4>2, <4>3
    <3>9. lanes = 1 \/ lanes = 2
      BY <2>2, <3>1, <1>6 DEF lanes
    <3> QED BY <1>0, <2>2, <2>4, <3>1, <3>2, <3>3, <3>9
  <2>5. CASE stage = 3
    <3>1. workbenchNow + 1 <= ShareBudget /\ Shares!Plan[stage] = <<"web">>
      BY <1>0, <2>1, <2>5
    <3>2. Shares!Window = ShareBudget - workbenchNow
      BY <1>0, <1>5, <2>2, <2>5, <3>1 DEF Shares!Window, Shares!Left
    <3>9. lanes = 1
      BY <3>1 DEF lanes
    <3> QED BY <1>0, <2>2, <2>5, <3>1, <3>2, <3>9
  <2> QED BY <2>2, <2>3, <2>4, <2>5
<1> QED BY <1>1, <1>2, <1>3, <1>4, <1>5 DEF OfThePlan

\* The plan is the command's, and does not change.
LEMMA PlanKept ==
    ASSUME UNCHANGED <<command, lane>>
    PROVE  /\ Stages' = Stages /\ Shares!Plan' = Shares!Plan
           /\ \A s : Width(s)' = Width(s) /\ Needed(s)' = Needed(s)
<1>1. Shares!Plan' = Shares!Plan /\ Required' = Required
  BY DEF Shares!Plan, Shares!Lanes, Required
<1> QED BY <1>1 DEF Stages, Width, Needed

LEMMA PlanCounted ==
    ASSUME OfThePlan
    PROVE  /\ Stages \in 1..3
           /\ \A s \in 1..Stages : Width(s) \in 1..2 /\ Needed(s) \in Nat
<1>0. /\ command \in {"health", "progress", "bundle", "provider"}
      /\ lane \in {"web", "native", "auto"} /\ Duration \in Nat
  BY SharesConstants DEF OfThePlan, Shares!WorkbenchAssumption
<1> DEFINE own == Shares!Lanes(lane)
<1>1. Len(own) \in 1..2
  BY LanesCounted
<1>2. Len(<<"web">>) = 1
  OBVIOUS
<1> HIDE DEF own
<1>3. CASE command = "health" \/ (command = "bundle" /\ lane = "native")
  <2>1. Shares!Plan = <<own>> /\ (Required = <<2>> \/ Required = <<1>>)
    BY <1>3 DEF Shares!Plan, Required, own
  <2>2. Stages = 1 /\ Shares!Plan[1] = own /\ Required[1] \in Nat
    BY <2>1 DEF Stages
  <2> QED BY <1>1, <2>2 DEF Width, Needed
<1>4. CASE command = "progress"
  <2>1. Shares!Plan = <<own, own>> /\ Required = <<Duration + 4, 2>>
    BY <1>4 DEF Shares!Plan, Required, own
  <2>2. /\ Stages = 2 /\ Shares!Plan[1] = own /\ Shares!Plan[2] = own
        /\ Required[1] \in Nat /\ Required[2] \in Nat
    BY <1>0, <2>1 DEF Stages
  <2> QED BY <1>1, <2>2 DEF Width, Needed
<1>5. CASE command = "bundle" /\ lane # "native"
  <2>1. Shares!Plan = <<own, <<"web">>, <<"web">>>> /\ Required = <<5, 2, 1>>
    BY <1>5 DEF Shares!Plan, Required, own
  <2>2. /\ Stages = 3
        /\ Shares!Plan[1] = own /\ Shares!Plan[2] = <<"web">> /\ Shares!Plan[3] = <<"web">>
        /\ Required[1] \in Nat /\ Required[2] \in Nat /\ Required[3] \in Nat
    BY <2>1 DEF Stages
  <2> QED BY <1>1, <1>2, <2>2 DEF Width, Needed
<1>6. CASE command = "provider"
  <2>1. Shares!Plan = <<<<"web">>, own, <<"web">>>> /\ Required = <<6, 4, 1>>
    BY <1>6 DEF Shares!Plan, Required, own
  <2>2. /\ Stages = 3
        /\ Shares!Plan[1] = <<"web">> /\ Shares!Plan[2] = own /\ Shares!Plan[3] = <<"web">>
        /\ Required[1] \in Nat /\ Required[2] \in Nat /\ Required[3] \in Nat
    BY <2>1 DEF Stages
  <2> QED BY <1>1, <1>2, <2>2 DEF Width, Needed
<1> QED BY <1>0, <1>3, <1>4, <1>5, <1>6

LEMMA SharesStart ==
    ASSUME Shares!Init, EnoughTime
    PROVE  SharesInv
<1>1. /\ workbenchNow = 0 /\ stage = 1 /\ turn = 0 /\ stageEnd = 0 /\ laneEnd = 0
      /\ workbenchPc = "stage" /\ workbenchRows = <<>> /\ times = <<>> /\ step = 1
      /\ command \in {"health", "progress", "bundle", "provider"}
      /\ lane \in {"web", "native", "auto"}
  BY DEF Shares!Init
<1>2. workbenchRows \in Seq({}) /\ times \in Seq(Nat) /\ Len(workbenchRows) = 0
  BY <1>1, EmptySeq
<1>3. OfThePlan
  BY <1>1, <1>2 DEF OfThePlan
<1>4. Needed(1) <= ShareBudget
  <2>1. ShareBudget \in Nat /\ Duration \in Nat
    BY SharesConstants DEF Shares!WorkbenchAssumption
  <2>2. Required[1] \in {1, 2, 5, 6, Duration + 4}
    BY <1>1 DEF Required
  <2> QED BY <2>1, <2>2 DEF EnoughTime, Needed
<1>5. EnoughLeft
  <2>1. Needed(1) \in Nat
    BY <1>3, PlanCounted
  <2> QED BY <1>1, <1>4, <2>1 DEF EnoughLeft
<1>6. EnoughShared
  BY <1>1 DEF EnoughShared
<1>7. HasAsked
  BY <1>1, <1>2 DEF HasAsked
<1> QED BY <1>3, <1>5, <1>6, <1>7 DEF SharesInv

\* Time passes only until the wait is over.
LEMMA SharesWorld ==
    ASSUME SharesInv, Shares!World
    PROVE  SharesInv'
<1>1. /\ UNCHANGED <<command, lane, workbenchPc, stage, turn, stageEnd, laneEnd, step,
                     workbenchRows, times, asked>>
      /\ \/ UNCHANGED workbenchNow
         \/ /\ workbenchPc \in {"wait", "sleep"} /\ workbenchNow' = workbenchNow + 1
            /\ workbenchNow < IF workbenchPc = "wait" THEN laneEnd ELSE times[2] + Duration
  BY DEF Shares!World, Shares!Tick, Shares!SwitchMedia, Shares!Reload, Shares!Seek,
     Shares!Stall, Shares!ClockJump, Shares!Happens, Shares!asking, Shares!position,
     Shares!Waiting, Shares!Until
<1>2. /\ workbenchNow \in Nat /\ laneEnd \in Nat /\ Duration \in Nat /\ times \in Seq(Nat)
  BY SharesConstants DEF SharesInv, OfThePlan, Shares!WorkbenchAssumption
<1>3. workbenchPc = "sleep" => times[2] \in Nat
  <2>1. workbenchPc = "sleep" => 2 \in 1..Len(times)
    BY DEF SharesInv, EnoughLeft
  <2> QED BY <1>2, <2>1, ElementOfSeq
<1>4. Stages' = Stages /\ Shares!Plan' = Shares!Plan /\ Pause' = Pause
      /\ \A s : Width(s)' = Width(s) /\ Needed(s)' = Needed(s)
  BY <1>1, PlanKept DEF Pause
<1>5. OfThePlan'
  BY <1>1, <1>2 DEF SharesInv, OfThePlan
<1>6. EnoughLeft'
  BY <1>1, <1>2, <1>3, <1>4 DEF SharesInv, EnoughLeft
<1>7. EnoughShared'
  BY <1>1, <1>2, <1>4 DEF SharesInv, EnoughShared
<1>8. HasAsked'
  BY <1>1, <1>4 DEF SharesInv, HasAsked, Shares!Lane
<1> QED BY <1>5, <1>6, <1>7, <1>8 DEF SharesInv

\* An observation begins: at once the bundle's second, which is left out.
LEMMA SharesStage ==
    ASSUME SharesInv, Shares!BeginStage
    PROVE  SharesInv'
<1>0. /\ UNCHANGED <<command, lane, workbenchNow, laneEnd, step, workbenchRows, asked>>
      /\ workbenchPc = "stage" /\ stage <= Stages
  BY DEF Shares!BeginStage, Shares!asking, Stages
<1>1. /\ OfThePlan /\ EnoughLeft /\ HasAsked
      /\ workbenchNow \in Nat /\ stage \in Nat \ {0} /\ stageEnd \in Nat
      /\ times \in Seq(Nat) /\ laneEnd \in Nat /\ turn \in Nat
      /\ ShareBudget \in Nat /\ Duration \in Nat
  BY SharesConstants DEF SharesInv, OfThePlan, Shares!WorkbenchAssumption
<1>2. Stages' = Stages /\ Shares!Plan' = Shares!Plan
      /\ \A s : Width(s)' = Width(s) /\ Needed(s)' = Needed(s)
  BY <1>0, PlanKept
<1>3. HasAsked'
  <2>1. workbenchPc' \in {"stage", "lane"}
    BY <1>0 DEF Shares!BeginStage
  <2> QED BY <1>0, <1>1, <2>1 DEF HasAsked
<1>4. CASE Shares!Skipped
  <2>1. /\ command = "bundle" /\ stage = 2 /\ stage' = 3
        /\ UNCHANGED <<workbenchPc, stageEnd, turn, times>>
    BY <1>4 DEF Shares!BeginStage, Shares!Skipped
  <2>2. OfThePlan'
    BY <1>0, <1>1, <2>1 DEF OfThePlan
  <2>3. Stages >= 3 => Needed(2) = 2 /\ Needed(3) = 1
    <3>1. CASE lane = "native"
      BY <2>1, <3>1 DEF Stages, Shares!Plan
    <3>2. CASE lane # "native"
      BY <2>1, <3>2 DEF Needed, Required
    <3> QED BY <3>1, <3>2
  <2>4. EnoughLeft'
    <3>1. workbenchNow + Needed(stage) <= ShareBudget
      BY <1>0, <1>1 DEF EnoughLeft
    <3>2. Stages \in 1..3
      BY <1>1, PlanCounted
    <3> QED BY <1>0, <1>1, <1>2, <2>1, <2>3, <3>1, <3>2 DEF EnoughLeft
  <2>5. EnoughShared'
    BY <1>0, <2>1 DEF EnoughShared
  <2> QED BY <1>3, <2>2, <2>4, <2>5 DEF SharesInv
<1>5. CASE ~Shares!Skipped
  <2> DEFINE window == Shares!Window
  <2>1. /\ stageEnd' = workbenchNow + window /\ turn' = 1 /\ workbenchPc' = "lane"
        /\ times' = Append(times, workbenchNow) /\ stage' = stage
    BY <1>5 DEF Shares!BeginStage
  <2>2. /\ window \in Nat /\ stage \in 1..Stages /\ Width(stage) \in 1..2
        /\ window >= Width(stage)
        /\ stage < Stages => workbenchNow + window + Pause + Needed(stage + 1) <= ShareBudget
    BY <1>0, <1>1, WindowFits
  <2> HIDE DEF window
  <2>3. times' \in Seq(Nat) /\ Len(times') = Len(times) + 1
    BY <1>1, <2>1, AppendProperties
  <2>4. times = <<>> => Len(times) = 0
    OBVIOUS
  <2>5. OfThePlan'
    BY <1>0, <1>1, <2>1, <2>2, <2>3, <2>4 DEF OfThePlan
  <2>6. EnoughLeft'
    BY <2>1 DEF EnoughLeft
  <2>7. EnoughShared'
    <3>1. Pause' = Pause
      BY <1>0, <2>1 DEF Pause
    <3>2. stage < Stages => stageEnd' + Pause + Needed(stage + 1) <= ShareBudget
      BY <2>1, <2>2
    <3>3. workbenchNow + Width(stage) <= stageEnd'
      BY <1>1, <2>1, <2>2
    <3> QED BY <1>0, <1>1, <1>2, <2>1, <2>2, <3>1, <3>2, <3>3 DEF EnoughShared
  <2> QED BY <1>3, <2>5, <2>6, <2>7 DEF SharesInv
<1> QED BY <1>4, <1>5

\* A lane is done early enough for the next one, and the last of an observation
\* for the next observation.
LEMMA SharesDone ==
    ASSUME SharesInv, NEW row, Shares!Done(row),
           UNCHANGED <<command, lane, workbenchNow, stageEnd>>, laneEnd' \in Nat,
           workbenchPc \in {"lane", "ask", "wait"},
           workbenchNow + Width(stage) - turn <= stageEnd,
           asked \subseteq asked',
           row.status # "not_bound" => <<row.stage, row.lane>> \in asked'
    PROVE  SharesInv'
<1>1. /\ workbenchNow \in Nat /\ stage \in Nat \ {0} /\ stageEnd \in Nat /\ turn \in Nat
      /\ times \in Seq(Nat) /\ ShareBudget \in Nat /\ Duration \in Nat
      /\ command = "progress" /\ stage = 1 => Len(times) = 1
  BY SharesConstants DEF SharesInv, OfThePlan, Shares!WorkbenchAssumption
<1>2. Stages' = Stages /\ Shares!Plan' = Shares!Plan
      /\ \A s : Width(s)' = Width(s) /\ Needed(s)' = Needed(s)
  BY PlanKept
<1>3. /\ stage \in 1..Stages /\ turn \in 1..Width(stage)
      /\ stage < Stages => stageEnd + Pause + Needed(stage + 1) <= ShareBudget
  BY DEF SharesInv, EnoughShared
<1>4. /\ Stages \in 1..3 /\ Width(stage) \in 1..2
      /\ stage < Stages => Needed(stage + 1) \in Nat
  <2>2. Stages \in 1..3 /\ OfThePlan
    BY PlanCounted DEF SharesInv
  <2>1. stage < Stages => stage + 1 \in 1..Stages
    BY <1>1, <2>2
  <2> QED BY <1>3, <2>1, <2>2, PlanCounted
<1>5. HasAsked'
  <2>1. PICK S : workbenchRows \in Seq(S)
    BY DEF SharesInv, HasAsked
  <2>2. workbenchRows \in Seq(S \cup {row})
    BY <2>1, SeqMonotonic
  <2>3. workbenchRows' = Append(workbenchRows, row) /\ step' = 1
        /\ workbenchPc' \in {"lane", "sleep", "stage"}
    BY DEF Shares!Done
  <2>4. /\ workbenchRows' \in Seq(S \cup {row}) /\ Len(workbenchRows') = Len(workbenchRows) + 1
        /\ \A i \in 1..Len(workbenchRows) : workbenchRows'[i] = workbenchRows[i]
        /\ workbenchRows'[Len(workbenchRows) + 1] = row /\ Len(workbenchRows) \in Nat
    BY <2>2, <2>3, AppendProperties
  <2>5. ASSUME NEW i \in 1..Len(workbenchRows'), workbenchRows'[i].status # "not_bound"
        PROVE  <<workbenchRows'[i].stage, workbenchRows'[i].lane>> \in asked'
    <3>1. CASE i = Len(workbenchRows) + 1
      BY <2>4, <2>5, <3>1
    <3>2. CASE i # Len(workbenchRows) + 1
      <4>1. i \in 1..Len(workbenchRows)
        BY <2>4, <3>2
      <4> QED BY <2>4, <2>5, <4>1 DEF SharesInv, HasAsked
    <3> QED BY <3>1, <3>2
  <2> QED BY <2>3, <2>4, <2>5 DEF HasAsked
<1>6. CASE turn < Width(stage)
  <2>1. workbenchPc' = "lane" /\ turn' = turn + 1 /\ UNCHANGED <<stage, times>>
    BY <1>6 DEF Shares!Done, Width
  <2>2. OfThePlan'
    BY <1>1, <2>1 DEF SharesInv, OfThePlan
  <2>3. EnoughLeft'
    BY <2>1 DEF EnoughLeft
  <2>4. EnoughShared'
    <3>1. Pause' = Pause
      BY <2>1 DEF Pause
    <3> QED BY <1>1, <1>2, <1>3, <1>4, <1>6, <2>1, <3>1 DEF EnoughShared
  <2> QED BY <1>5, <2>2, <2>3, <2>4 DEF SharesInv
<1>7. CASE ~(turn < Width(stage))
  <2>1. /\ stage' = stage + 1 /\ turn' = turn /\ times' = Append(times, workbenchNow)
        /\ workbenchPc' = IF command = "progress" /\ stage = 1 THEN "sleep" ELSE "stage"
    BY <1>7 DEF Shares!Done, Width
  <2>2. workbenchNow <= stageEnd
    BY <1>1, <1>3, <1>4, <1>7
  <2>3. /\ times' \in Seq(Nat) /\ Len(times') = Len(times) + 1
        /\ times'[Len(times) + 1] = workbenchNow
    BY <1>1, <2>1, AppendProperties
  <2>4. OfThePlan'
    BY <1>1, <2>1, <2>3 DEF SharesInv, OfThePlan
  <2>5. EnoughLeft'
    <3>1. CASE command = "progress" /\ stage = 1
      <4>1. Stages = 2 /\ Needed(2) = 2 /\ Pause = Duration
        BY <3>1 DEF Stages, Shares!Plan, Needed, Required, Pause
      <4>2. stageEnd + Duration + 2 <= ShareBudget
        BY <1>3, <3>1, <4>1
      <4>3. times'[2] = workbenchNow /\ Len(times') = 2
        <5> DEFINE n == Len(times)
        <5>1. n = 1 /\ times'[n + 1] = workbenchNow /\ Len(times') = n + 1
          BY <1>1, <2>3, <3>1
        <5> HIDE DEF n
        <5> QED BY <5>1
      <4> QED BY <1>1, <2>1, <2>2, <3>1, <4>2, <4>3 DEF EnoughLeft
    <3>2. CASE ~(command = "progress" /\ stage = 1)
      <4>1. Pause = 0 /\ workbenchPc' = "stage"
        BY <2>1, <3>2 DEF Pause
      <4>2. stage < Stages => workbenchNow + Needed(stage + 1) <= ShareBudget
        BY <1>1, <1>3, <1>4, <2>2, <4>1
      <4> QED BY <1>1, <1>2, <1>3, <1>4, <2>1, <4>1, <4>2 DEF EnoughLeft
    <3> QED BY <3>1, <3>2
  <2>6. EnoughShared'
    BY <2>1 DEF EnoughShared
  <2> QED BY <1>5, <2>4, <2>5, <2>6 DEF SharesInv
<1> QED BY <1>6, <1>7

\* A lane gets its share of what is left, which is one unit at least.
LEMMA SharesLane ==
    ASSUME SharesInv, Shares!BeginLane
    PROVE  SharesInv'
<1>0. /\ UNCHANGED <<command, lane, workbenchNow, stageEnd, asked>>
      /\ workbenchPc = "lane" /\ laneEnd' = workbenchNow + Shares!Share
  BY DEF Shares!BeginLane, Shares!asking, Shares!Done
<1>1. /\ workbenchNow \in Nat /\ stage \in Nat \ {0} /\ stageEnd \in Nat /\ turn \in Nat
      /\ OfThePlan
  BY DEF SharesInv, OfThePlan
<1>2. /\ stage \in 1..Stages /\ turn \in 1..Width(stage)
      /\ workbenchNow + Width(stage) + 1 - turn <= stageEnd
  BY <1>0 DEF SharesInv, EnoughShared
<1>3. Stages' = Stages /\ Shares!Plan' = Shares!Plan
      /\ \A s : Width(s)' = Width(s) /\ Needed(s)' = Needed(s)
  BY <1>0, PlanKept
<1> DEFINE width == Width(stage)
           lanes == width + 1 - turn
           time == stageEnd - workbenchNow
           share == time \div lanes
<1>4. width \in 1..2
  BY <1>1, <1>2, PlanCounted
<1> HIDE DEF width
<1>5. turn \in 1..width /\ workbenchNow + width + 1 - turn <= stageEnd
  BY <1>2 DEF width
<1>6. lanes \in 1..2 /\ time \in Nat /\ lanes <= time
  BY <1>1, <1>4, <1>5
<1>7. Shares!Share = share
  <2>1. Shares!Left(stageEnd) = time
    BY <1>1, <1>4, <1>5, <1>6 DEF Shares!Left
  <2>2. Len(Shares!Plan[stage]) = width
    BY DEF Width, width
  <2> QED BY <2>1, <2>2 DEF Shares!Share
<1>8. share \in Nat /\ share >= 1 /\ share + lanes - 1 <= time
  <2>1. CASE lanes = 1
    <3>1. time \div 1 = time
      BY <1>6
    <3> QED BY <1>6, <2>1, <3>1
  <2>2. CASE lanes = 2
    <3> DEFINE half == time \div 2
    <3>1. half \in Nat /\ 2 * half <= time /\ time < 2 * half + 2
      BY <1>6, Divided
    <3>2. share = half
      BY <2>2
    <3> HIDE DEF half, share
    <3> QED BY <1>6, <2>2, <3>1, <3>2
  <2> QED BY <1>6, <2>1, <2>2
<1> HIDE DEF share
<1>9. laneEnd' = workbenchNow + share
  BY <1>0, <1>7
<1>10. /\ laneEnd' \in Nat /\ workbenchNow < laneEnd' /\ laneEnd' + width - turn <= stageEnd
  BY <1>1, <1>4, <1>5, <1>6, <1>8, <1>9
<1>11. CASE Shares!Done(Shares!Row("not_bound", Shares!NoSample, FALSE))
  <2>1. workbenchNow + Width(stage) - turn <= stageEnd
    BY <1>1, <1>4, <1>5 DEF width
  <2>2. Shares!Row("not_bound", Shares!NoSample, FALSE).status = "not_bound"
    BY DEF Shares!Row
  <2> QED BY <1>0, <1>10, <1>11, <2>1, <2>2, SharesDone
<1>12. CASE workbenchPc' = "ask" /\ UNCHANGED <<stage, turn, step, workbenchRows, times>>
  <2>0. step = 1
    BY <1>0 DEF SharesInv, HasAsked
  <2>1. OfThePlan'
    BY <1>0, <1>1, <1>10, <1>12 DEF OfThePlan, SharesInv
  <2>2. EnoughLeft'
    BY <1>12 DEF EnoughLeft
  <2>3. EnoughShared'
    <3>1. Pause' = Pause
      BY <1>0, <1>12 DEF Pause
    <3>2. laneEnd' + Width(stage) - turn <= stageEnd
      BY <1>10 DEF width
    <3> QED BY <1>0, <1>1, <1>2, <1>3, <1>10, <1>12, <3>1, <3>2 DEF SharesInv, EnoughShared
  <2>4. HasAsked'
    BY <1>0, <1>10, <1>12, <2>0 DEF SharesInv, HasAsked
  <2> QED BY <2>1, <2>2, <2>3, <2>4 DEF SharesInv
<1> QED BY <1>11, <1>12 DEF Shares!BeginLane

\* A request is sent when there is time for it.
LEMMA SharesAsk ==
    ASSUME SharesInv, Shares!Ask
    PROVE  SharesInv'
<1>0. /\ UNCHANGED <<command, lane, workbenchNow, stageEnd, laneEnd>> /\ workbenchPc = "ask"
  BY DEF Shares!Ask, Shares!asking, Shares!Done, Shares!position
<1>1. /\ workbenchNow \in Nat /\ stageEnd \in Nat /\ turn \in Nat /\ laneEnd \in Nat
      /\ OfThePlan
  BY DEF SharesInv, OfThePlan
<1>2. /\ stage \in 1..Stages /\ Width(stage) \in 1..2
      /\ workbenchNow <= laneEnd /\ laneEnd + Width(stage) - turn <= stageEnd
  BY <1>0, <1>1, PlanCounted DEF SharesInv, EnoughShared
<1>3. workbenchNow + Width(stage) - turn <= stageEnd
  BY <1>1, <1>2
<1>4. CASE laneEnd <= workbenchNow
  <2> DEFINE row == Shares!Row("unknown", Shares!NoSample, step = 2 /\ Shares!Lane = "web")
  <2>1. Shares!Done(row) /\ asked' = asked
    BY <1>4 DEF Shares!Ask
  <2>2. step # 1
    BY <1>0, <1>1, <1>4 DEF SharesInv, HasAsked
  <2>3. row.stage = stage /\ row.lane = Shares!Lane
    BY DEF Shares!Row
  <2>4. <<row.stage, row.lane>> \in asked'
    BY <1>0, <2>1, <2>2, <2>3 DEF SharesInv, HasAsked
  <2> HIDE DEF row
  <2> QED BY <1>0, <1>1, <1>3, <2>1, <2>4, SharesDone
<1>5. CASE ~(laneEnd <= workbenchNow)
  <2>1. /\ workbenchPc' = "wait" /\ asked' = asked \cup {<<stage, Shares!Lane>>}
        /\ UNCHANGED <<stage, turn, step, workbenchRows, times>>
    BY <1>5 DEF Shares!Ask, Shares!position
  <2>2. Stages' = Stages /\ Shares!Plan' = Shares!Plan /\ Pause' = Pause
        /\ \A s : Width(s)' = Width(s) /\ Needed(s)' = Needed(s)
    BY <1>0, <2>1, PlanKept DEF Pause
  <2>3. OfThePlan'
    BY <1>0, <1>1, <2>1 DEF OfThePlan
  <2>4. EnoughLeft'
    BY <2>1 DEF EnoughLeft
  <2>5. EnoughShared'
    BY <1>0, <2>1, <2>2 DEF SharesInv, EnoughShared
  <2>6. HasAsked'
    BY <1>0, <2>1, <2>2 DEF SharesInv, HasAsked, Shares!Lane
  <2> QED BY <2>3, <2>4, <2>5, <2>6 DEF SharesInv
<1> QED BY <1>4, <1>5

\* The answer, and none.
LEMMA SharesReply ==
    ASSUME SharesInv, Shares!Take \/ Shares!Answered \/ Shares!Unanswered
    PROVE  SharesInv'
<1>0. /\ UNCHANGED <<command, lane, workbenchNow, stageEnd, laneEnd, asked>>
      /\ workbenchPc = "wait"
  BY DEF Shares!Take, Shares!Answered, Shares!Unanswered, Shares!asking
<1>1. /\ workbenchNow \in Nat /\ stageEnd \in Nat /\ turn \in Nat /\ laneEnd \in Nat
      /\ OfThePlan
  BY DEF SharesInv, OfThePlan
<1>2. /\ stage \in 1..Stages /\ Width(stage) \in 1..2 /\ <<stage, Shares!Lane>> \in asked
      /\ workbenchNow <= laneEnd /\ laneEnd + Width(stage) - turn <= stageEnd
  BY <1>0, <1>1, PlanCounted DEF SharesInv, EnoughShared, HasAsked
<1>3. workbenchNow + Width(stage) - turn <= stageEnd
  BY <1>1, <1>2
<1>4. ASSUME NEW result, NEW sample, NEW caps, Shares!Done(Shares!Row(result, sample, caps))
      PROVE  SharesInv'
  <2> DEFINE row == Shares!Row(result, sample, caps)
  <2>1. row.stage = stage /\ row.lane = Shares!Lane
    BY DEF Shares!Row
  <2>2. <<row.stage, row.lane>> \in asked'
    BY <1>0, <1>2, <2>1
  <2>3. Shares!Done(row)
    BY <1>4
  <2> HIDE DEF row
  <2> QED BY <1>0, <1>1, <1>3, <2>2, <2>3, SharesDone
<1>5. CASE /\ UNCHANGED <<stage, turn, workbenchRows, times>>
           /\ workbenchPc' = "wait" \/ (workbenchPc' = "ask" /\ step' # 1)
  <2>1. Stages' = Stages /\ Shares!Plan' = Shares!Plan /\ Pause' = Pause
        /\ \A s : Width(s)' = Width(s) /\ Needed(s)' = Needed(s)
    BY <1>0, <1>5, PlanKept DEF Pause
  <2>2. OfThePlan'
    BY <1>0, <1>1, <1>5 DEF OfThePlan
  <2>3. EnoughLeft'
    BY <1>5 DEF EnoughLeft
  <2>4. EnoughShared'
    BY <1>0, <1>5, <2>1 DEF SharesInv, EnoughShared
  <2>5. HasAsked'
    BY <1>0, <1>2, <1>5, <2>1 DEF SharesInv, HasAsked, Shares!Lane
  <2> QED BY <2>2, <2>3, <2>4, <2>5 DEF SharesInv
<1> QED BY <1>0, <1>4, <1>5 DEF Shares!Take, Shares!Answered, Shares!Unanswered

\* The pause is over, and what is left is the second observation's.
LEMMA SharesRest ==
    ASSUME SharesInv, Shares!SleepEnds \/ Shares!Conclude \/ Shares!Save
    PROVE  SharesInv'
<1>0. /\ UNCHANGED <<command, lane, workbenchNow, stage, turn, stageEnd, laneEnd, step,
                     workbenchRows, times, asked>>
      /\ workbenchPc' \in {"stage", "save", "end"}
      /\ workbenchPc' = "stage" => workbenchPc = "sleep"
  BY DEF Shares!SleepEnds, Shares!Conclude, Shares!Save, Shares!asking, Shares!position
<1>1. Stages' = Stages /\ \A s : Needed(s)' = Needed(s)
  BY <1>0, PlanKept
<1>2. OfThePlan'
  BY <1>0 DEF SharesInv, OfThePlan, EnoughLeft
<1>3. EnoughLeft'
  <2>1. CASE workbenchPc' = "stage"
    <3>1. /\ command = "progress" /\ stage = 2 /\ Len(times) = 2
          /\ times[2] + Duration + 2 <= ShareBudget /\ workbenchNow <= times[2] + Duration
      BY <1>0, <2>1 DEF SharesInv, EnoughLeft
    <3>2. /\ workbenchNow \in Nat /\ ShareBudget \in Nat /\ Duration \in Nat
          /\ times \in Seq(Nat)
      BY SharesConstants DEF SharesInv, OfThePlan, Shares!WorkbenchAssumption
    <3>3. times[2] \in Nat
      <4>1. 2 \in 1..Len(times)
        BY <3>1
      <4> QED BY <3>2, <4>1, ElementOfSeq
    <3>4. Needed(2) = 2
      BY <3>1 DEF Needed, Required
    <3>5. workbenchNow + 2 <= ShareBudget
      BY <3>1, <3>2, <3>3
    <3> QED BY <1>0, <1>1, <2>1, <3>1, <3>4, <3>5 DEF EnoughLeft
  <2>2. CASE workbenchPc' # "stage"
    BY <1>0, <2>2 DEF EnoughLeft
  <2> QED BY <2>1, <2>2
<1>4. EnoughShared'
  BY <1>0 DEF EnoughShared
<1>5. HasAsked'
  BY <1>0 DEF SharesInv, HasAsked
<1> QED BY <1>2, <1>3, <1>4, <1>5 DEF SharesInv

LEMMA SharesInductive ==
    ASSUME SharesInv, [Shares!Next]_WorkbenchVars
    PROVE  SharesInv'
<1>1. CASE UNCHANGED WorkbenchVars
  <2>1. UNCHANGED <<command, lane, workbenchNow, workbenchPc, stage, turn, stageEnd, laneEnd,
                    step, workbenchRows, times, asked>>
    BY <1>1 DEF WorkbenchVars
  <2>2. Stages' = Stages /\ Shares!Plan' = Shares!Plan /\ Pause' = Pause
        /\ \A s : Width(s)' = Width(s) /\ Needed(s)' = Needed(s)
    BY <2>1, PlanKept DEF Pause
  <2>3. OfThePlan'
    BY <2>1 DEF SharesInv, OfThePlan
  <2>4. EnoughLeft'
    BY <2>1, <2>2 DEF SharesInv, EnoughLeft
  <2>5. EnoughShared'
    BY <2>1, <2>2 DEF SharesInv, EnoughShared
  <2>6. HasAsked'
    BY <2>1, <2>2 DEF SharesInv, HasAsked, Shares!Lane
  <2> QED BY <2>3, <2>4, <2>5, <2>6 DEF SharesInv
<1>2. CASE Shares!Next
  BY <1>2, SharesWorld, SharesStage, SharesLane, SharesAsk, SharesReply, SharesRest
     DEF Shares!Next
<1> QED BY <1>1, <1>2

\* However slowly the others answer, every observation of the plan is asked for: the
\* shares of observe and run in workbench.py leave every lane of every observation a
\* unit of time, for any budget that has six of them and four beyond the pause.
THEOREM NoneStarvedCorrect ==
    ASSUME EnoughTime
    PROVE  MCSpec => []NoneStarved
<1> DEFINE Inv == part = "shares" => SharesInv
<1>1. MCInit => Inv
  BY SharesStart DEF MCInit
<1>2. Inv /\ [MCNext]_MCvars => Inv'
  <2> SUFFICES ASSUME SharesInv, [MCNext]_MCvars, part = "shares"
               PROVE  SharesInv'
    BY DEF MCNext, MCvars
  <2>1. [Shares!Next]_WorkbenchVars
    BY DEF MCNext, MCvars
  <2> QED BY <2>1, SharesInductive
<1>3. Inv => NoneStarved
  BY DEF SharesInv, HasAsked, NoneStarved, Shares!NoneStarved
<1> HIDE DEF Inv
<1> QED BY <1>1, <1>2, <1>3, PTL DEF MCSpec

-----------------------------------------------------------------------------
(* The programme search                                                    *)

GuideTimes == [start : Nat, end : Nat]
SearchRecords == [catalog : Nat, generation : 0..MaxGeneration, attempt : Nat, splits : Nat,
                  fast : BOOLEAN, until : Nat, cached : BOOLEAN]

SearchTypes ==
    /\ searchNow \in Nat /\ catalog \in Nat
    /\ guide \in [Search!Services -> [1..MaxGeneration -> [Channels -> GuideTimes]]]
    /\ generation \in [Search!Services -> 1..MaxGeneration]
    /\ service \in Search!Services /\ search \in SearchRecords
    /\ \A k \in mappings : k.generation \in 1..MaxGeneration /\ k.until \in Nat
    /\ \A k \in results :
         k.service \in Search!Services /\ k.generation \in 1..MaxGeneration /\ k.until \in Nat

\* A row is what a generation of a guide says of its channel.
Said(s, n, r, mode) == r.channel \in Channels /\ r = Search!Row(guide[s][n], r.channel, mode)

\* A recording that the guide knows and that was probed for a catalogue.
Probed(s, n, revision, r) ==
    /\ Said(s, n, r, "archive")
    /\ [catalog |-> revision, channel |-> r.channel, start |-> guide[s][n][r.channel].start]
         \in probes

\* Nothing is on from now until a time.
Quiet(s, n, until) ==
    \A t \in Nat : searchNow <= t /\ t < until => Search!Current(guide[s][n], t) = {}

\* What is kept of a search stays true until it expires.
ResultsSound ==
    \A k \in results :
        /\ \A r \in k.rows : Probed(k.service, k.generation, k.catalog, r)
        /\ Quiet(k.service, k.generation, k.until)

RowsSound ==
    /\ searchPc \in {"catalog", "results", "mapping", "history"} => searchRows = {}
    /\ searchPc = "catalog" => search.generation = 0
    /\ searchPc = "current" =>
         /\ search.generation = 0 => searchRows = {}
         /\ \A r \in searchRows : Said(service, search.generation, r, "live")
    /\ searchPc \in {"history", "verify", "confirm"} => search.generation # 0
    /\ searchPc \in {"verify", "confirm"} =>
         \A r \in searchRows : \/ Said(service, search.generation, r, "live")
                               \/ Probed(service, search.generation, search.catalog, r)
    /\ searchPc \in {"catalog", "current", "results", "mapping", "history", "verify"} =>
         ~search.cached
    /\ searchPc = "confirm" /\ search.cached =>
         Quiet(service, search.generation, search.until)
    /\ searchPc = "choose" => search.generation # 0 /\ at \in Nat
    /\ searchPc # "done" => played = {}

SearchInv == SearchTypes /\ ResultsSound /\ RowsSound /\ Search!SoundSelection

LEMMA SearchesTyped ==
    ASSUME SearchInv
    PROVE  /\ searchNow \in Nat /\ catalog \in Nat /\ MaxGeneration \in Nat \ {0}
           /\ Retention \in Nat /\ Lifetime \in Nat
           /\ guide \in [Search!Services -> [1..MaxGeneration -> [Channels -> GuideTimes]]]
           /\ generation \in [Search!Services -> 1..MaxGeneration]
           /\ service \in Search!Services /\ search \in SearchRecords
           /\ search.catalog \in Nat /\ search.generation \in 0..MaxGeneration
           /\ search.until \in Nat /\ search.cached \in BOOLEAN
  BY SearchConstants DEF SearchInv, SearchTypes, SearchRecords, Search!SearchAssumption

\* What was true of guide and probes stays true: a guide does not change what a
\* generation says, and no probe is forgotten.
LEMMA FactsKept ==
    ASSUME guide' = guide, probes \subseteq probes',
           searchNow \in Nat, searchNow' \in Nat, searchNow <= searchNow'
    PROVE  /\ \A s, n, r, mode : Said(s, n, r, mode)' = Said(s, n, r, mode)
           /\ \A s, n, c, r : Probed(s, n, c, r) => Probed(s, n, c, r)'
           /\ \A s, n, until : Quiet(s, n, until) => Quiet(s, n, until)'
<1>1. \A s, n, r, mode : Said(s, n, r, mode)' = Said(s, n, r, mode)
  BY DEF Said, Search!Row
<1>2. \A s, n, c, r : Probed(s, n, c, r) => Probed(s, n, c, r)'
  BY <1>1 DEF Probed
<1>3. ASSUME NEW s, NEW n, NEW until, Quiet(s, n, until)
      PROVE  Quiet(s, n, until)'
  BY <1>3 DEF Quiet, Search!Current, Search!Row
<1> QED BY <1>1, <1>2, <1>3

\* A programme on now is a row the guide says.
LEMMA CurrentSaid ==
    ASSUME NEW s, NEW n, NEW t, NEW r
    PROVE  r \in Search!Current(guide[s][n], t) <=>
             /\ Said(s, n, r, "live")
             /\ guide[s][n][r.channel].start <= t /\ t < guide[s][n][r.channel].end
<1>1. \A c : Search!Row(guide[s][n], c, "live").channel = c
  BY DEF Search!Row
<1> QED BY <1>1 DEF Search!Current, Said

\* So is a recording.
LEMMA RecordingSaid ==
    ASSUME NEW s, NEW n, NEW t, NEW r, Said(s, n, r, "archive"), Search!Kept(r, t)
    PROVE  r \in Search!Recordings(guide[s][n], t)
  BY DEF Search!Recordings, Said

LEMMA SearchStarts ==
    ASSUME Search!Init
    PROVE  SearchInv
<1>1. /\ searchNow = 0 /\ catalog = 1 /\ guide \in Plans
      /\ generation = [s \in Search!Services |-> 1] /\ service = "remote"
      /\ search = Search!NoSearch /\ mappings = {} /\ results = {} /\ played = {}
      /\ searchPc = "idle"
  BY DEF Search!Init
<1>2. MaxGeneration \in Nat \ {0}
      /\ Plans \subseteq [Search!Services -> [1..MaxGeneration -> [Channels -> GuideTimes]]]
  BY SearchConstants DEF Search!SearchAssumption, GuideTimes
<1>3. Search!NoSearch \in SearchRecords
  BY <1>2 DEF Search!NoSearch, SearchRecords
<1>4. SearchTypes
  <2>1. generation \in [Search!Services -> 1..MaxGeneration]
    BY <1>1, <1>2
  <2>2. service \in Search!Services
    BY <1>1 DEF Search!Services
  <2> QED BY <1>1, <1>2, <1>3, <2>1, <2>2 DEF SearchTypes
<1> QED BY <1>1, <1>4 DEF SearchInv, ResultsSound, RowsSound, Search!SoundSelection

\* Steps that only let the world move.
LEMMA SearchWorld ==
    ASSUME SearchInv,
           \/ Search!Tick \/ (\E s \in Search!Services : Search!Publish(s))
           \/ Search!ChangeCatalog
    PROVE  SearchInv'
<1>0. /\ UNCHANGED <<guide, mappings, histories, probes, results, searchPc, service, search,
                     searchRows, at, report, played>>
      /\ searchNow' \in {searchNow, searchNow + 1} /\ catalog' \in {catalog, catalog + 1}
  BY DEF Search!Tick, Search!Publish, Search!ChangeCatalog, Search!caches, Search!query
<1>1. generation' \in [Search!Services -> 1..MaxGeneration]
  <2>1. CASE UNCHANGED generation
    BY <2>1, SearchesTyped
  <2>2. ASSUME NEW s \in Search!Services, Search!Publish(s)
        PROVE  generation' \in [Search!Services -> 1..MaxGeneration]
    <3>1. generation' = [generation EXCEPT ![s] = generation[s] + 1]
          /\ generation[s] < MaxGeneration
      BY <2>2 DEF Search!Publish
    <3>2. generation[s] + 1 \in 1..MaxGeneration
      BY <3>1, SearchesTyped
    <3> QED BY <3>1, <3>2, SearchesTyped
  <2> QED BY <2>1, <2>2 DEF Search!Tick, Search!ChangeCatalog
<1>2. searchNow' \in Nat /\ searchNow <= searchNow' /\ catalog' \in Nat
  BY <1>0, SearchesTyped
<1>3. SearchTypes'
  BY <1>0, <1>1, <1>2 DEF SearchInv, SearchTypes
<1>4. /\ \A s, n, r, mode : Said(s, n, r, mode)' = Said(s, n, r, mode)
      /\ \A s, n, c, r : Probed(s, n, c, r) => Probed(s, n, c, r)'
      /\ \A s, n, until : Quiet(s, n, until) => Quiet(s, n, until)'
  BY <1>0, <1>2, SearchesTyped, FactsKept
<1>5. ResultsSound'
  BY <1>0, <1>4 DEF SearchInv, ResultsSound
<1>6. RowsSound'
  BY <1>0, <1>4 DEF SearchInv, RowsSound
<1>7. Search!SoundSelection'
  BY <1>0 DEF SearchInv, Search!SoundSelection, Search!Current, Search!Recordings, Search!Used,
     Search!Row, Search!Kept, Search!Probe
<1> QED BY <1>3, <1>5, <1>6, <1>7 DEF SearchInv

\* A search that ends offers nothing, and has played nothing.
LEMMA SearchEnds ==
    ASSUME SearchInv, NEW what, Search!Ends(what), searchPc # "done",
           UNCHANGED <<searchNow, catalog, guide, generation, mappings, results, probes, played>>
    PROVE  SearchInv'
<1>1. /\ searchPc' = "done" /\ service' = "remote" /\ search' = Search!NoSearch /\ played' = {}
  BY DEF Search!Ends, SearchInv, RowsSound
<1>2. search' \in SearchRecords
  BY <1>1, SearchesTyped DEF Search!NoSearch, SearchRecords
<1>3. SearchTypes'
  BY <1>1, <1>2 DEF SearchInv, SearchTypes, Search!Services
<1>4. ResultsSound'
  BY DEF SearchInv, ResultsSound, Probed, Said, Quiet, Search!Current, Search!Row
<1> QED BY <1>1, <1>3, <1>4 DEF SearchInv, RowsSound, Search!SoundSelection

\* A step before the choice that leaves the world and what is kept of it alone.
LEMMA SearchMoves ==
    ASSUME SearchInv, search' \in SearchRecords, service' \in Search!Services,
           UNCHANGED <<searchNow, catalog, guide, generation, results>>,
           probes \subseteq probes', RowsSound',
           \A k \in mappings' : k.generation \in 1..MaxGeneration /\ k.until \in Nat,
           searchPc' \notin {"choose", "done"}
    PROVE  SearchInv'
<1>1. SearchTypes'
  BY DEF SearchInv, SearchTypes
<1>2. /\ \A s, n, c, r : Probed(s, n, c, r) => Probed(s, n, c, r)'
      /\ \A s, n, until : Quiet(s, n, until) => Quiet(s, n, until)'
  BY SearchesTyped, FactsKept
<1>3. ResultsSound'
  BY <1>2 DEF SearchInv, ResultsSound
<1>4. Search!SoundSelection'
  BY DEF RowsSound, Search!SoundSelection
<1> QED BY <1>1, <1>3, <1>4 DEF SearchInv

\* A search begins, and reads the catalogue.
LEMMA SearchBegins ==
    ASSUME SearchInv, Search!Begin \/ Search!ReadCatalog
    PROVE  SearchInv'
<1>0. UNCHANGED <<searchNow, catalog, guide, generation, mappings, results, probes>>
  BY DEF Search!Begin, Search!ReadCatalog, Search!world, Search!caches
<1>1. CASE Search!Begin
  <2>1. PICK f \in BOOLEAN : search' = [Search!NoSearch EXCEPT !.fast = f]
    BY <1>1 DEF Search!Begin
  <2>2. search' = [catalog |-> 0, generation |-> 0, attempt |-> 1, splits |-> 0, fast |-> f,
                   until |-> 0, cached |-> FALSE]
    BY <2>1 DEF Search!NoSearch
  <2>3. search' \in SearchRecords
    BY <2>2, SearchesTyped DEF SearchRecords
  <2>4. search'.generation = 0 /\ search'.cached = FALSE
    BY <2>2
  <2>5. /\ searchPc' = "catalog" /\ service' = "remote" /\ searchRows' = {} /\ played' = {}
    BY <1>1 DEF Search!Begin
  <2>6. RowsSound'
    BY <2>4, <2>5 DEF RowsSound
  <2>7. service' \in Search!Services
    BY <2>5 DEF Search!Services
  <2> QED BY <1>0, <2>3, <2>5, <2>6, <2>7, SearchMoves DEF SearchInv, SearchTypes
<1>2. CASE Search!ReadCatalog
  <2>1. /\ searchPc = "catalog" /\ searchPc' = "current"
        /\ search' = [search EXCEPT !.catalog = catalog]
        /\ UNCHANGED <<service, searchRows, played>>
    BY <1>2 DEF Search!ReadCatalog
  <2>2. search' \in SearchRecords /\ search'.generation = search.generation
        /\ search'.cached = search.cached
    BY <2>1, SearchesTyped DEF SearchRecords
  <2>3. RowsSound'
    BY <2>1, <2>2 DEF SearchInv, RowsSound
  <2> QED BY <1>0, <2>1, <2>2, <2>3, SearchMoves DEF SearchInv, SearchTypes
<1> QED BY <1>1, <1>2

\* Every batch is of the generation of the first.
LEMMA SearchBatch ==
    ASSUME SearchInv, Search!Batch
    PROVE  SearchInv'
<1>0. /\ UNCHANGED <<searchNow, catalog, guide, generation, mappings, results, probes, played>>
      /\ searchPc = "current"
  BY DEF Search!Batch, Search!world, Search!caches
<1> DEFINE g == generation[service]
<1>1. CASE search.generation \notin {0, g}
  <2>1. Search!Ends("failed")
    BY <1>1 DEF Search!Batch
  <2> QED BY <1>0, <2>1, SearchEnds
<1>2. CASE search.generation \in {0, g}
  <2>1. /\ search' = [search EXCEPT !.generation = g] /\ UNCHANGED <<searchPc, service>>
        /\ searchRows' = searchRows \cup {r \in Search!Current(guide[service][g], searchNow) :
                                            r.channel \in Head(batches)}
    BY <1>2 DEF Search!Batch
  <2>2. g \in 1..MaxGeneration /\ g' = g
    BY <1>0, <2>1, SearchesTyped
  <2> HIDE DEF g
  <2>3. search' \in SearchRecords /\ search'.generation = g /\ search'.cached = search.cached
    <3>1. search' = [search EXCEPT !.generation = g]
      BY <2>1
    <3>2. search \in SearchRecords /\ g \in 0..MaxGeneration
      BY <2>2, SearchesTyped
    <3> QED BY <3>1, <3>2 DEF SearchRecords
  <2>4. ASSUME NEW r \in searchRows'
        PROVE  Said(service, g, r, "live")
    <3>1. CASE r \in searchRows
      BY <1>0, <1>2, <3>1 DEF SearchInv, RowsSound
    <3>2. CASE r \in Search!Current(guide[service][g], searchNow)
      BY <3>2, CurrentSaid
    <3> QED BY <2>1, <3>1, <3>2
  <2>5. \A r \in searchRows' : Said(service, g, r, "live")'
    BY <1>0, <2>1, <2>2, <2>4, SearchesTyped, FactsKept
  <2>6. RowsSound'
    BY <1>0, <2>1, <2>2, <2>3, <2>5, SearchesTyped DEF SearchInv, RowsSound
  <2> QED BY <1>0, <2>1, <2>3, <2>6, SearchesTyped, SearchMoves DEF SearchInv, SearchTypes
<1> QED BY <1>1, <1>2

\* A batch is divided, a guide is out of reach.
LEMMA SearchDivided ==
    ASSUME SearchInv, Search!Split \/ Search!Unavailable
    PROVE  SearchInv'
<1>0. UNCHANGED <<searchNow, catalog, guide, generation, mappings, results, probes, played>>
  BY DEF Search!Split, Search!Unavailable, Search!world, Search!caches
<1>1. CASE Search!Split
  <2>1. /\ search' = [search EXCEPT !.splits = search.splits + 1] /\ searchPc = "current"
        /\ UNCHANGED <<searchPc, service, searchRows>>
    BY <1>1 DEF Search!Split
  <2>2. search.splits + 1 \in Nat
    BY SearchesTyped DEF SearchRecords
  <2>3. search' \in SearchRecords /\ search'.generation = search.generation
        /\ search'.cached = search.cached
    BY <2>1, <2>2, SearchesTyped DEF SearchRecords
  <2>4. RowsSound'
    BY <1>0, <2>1, <2>3, SearchesTyped, FactsKept DEF SearchInv, RowsSound
  <2> QED BY <1>0, <2>1, <2>3, <2>4, SearchesTyped, SearchMoves DEF SearchInv, SearchTypes
<1>2. CASE Search!Unavailable /\ service = "remote"
  <2>1. /\ service' = "local" /\ searchPc' = "catalog" /\ searchRows' = {}
        /\ search' = [Search!NoSearch EXCEPT !.fast = search.fast]
        /\ searchPc \in {"current", "mapping", "history"}
    BY <1>2 DEF Search!Unavailable
  <2>2. search' = [catalog |-> 0, generation |-> 0, attempt |-> 1, splits |-> 0,
                   fast |-> search.fast, until |-> 0, cached |-> FALSE]
    BY <2>1 DEF Search!NoSearch
  <2>3. search.fast \in BOOLEAN
    BY SearchesTyped DEF SearchRecords
  <2>4. search' \in SearchRecords
    BY <2>2, <2>3, SearchesTyped DEF SearchRecords
  <2>5. search'.generation = 0 /\ search'.cached = FALSE
    BY <2>2
  <2>6. RowsSound'
    BY <1>0, <2>1, <2>5 DEF SearchInv, RowsSound
  <2>7. service' \in Search!Services
    BY <2>1 DEF Search!Services
  <2> QED BY <1>0, <2>1, <2>4, <2>6, <2>7, SearchMoves DEF SearchInv, SearchTypes
<1>3. CASE Search!Unavailable /\ service # "remote"
  <2>1. Search!Ends("failed") /\ searchPc # "done"
    BY <1>3 DEF Search!Unavailable
  <2> QED BY <1>0, <2>1, SearchEnds
<1> QED BY <1>1, <1>2, <1>3

\* The programmes on now, of all the channels.
LEMMA SearchListed ==
    ASSUME SearchInv, Search!Listed
    PROVE  SearchInv'
<1>0. /\ UNCHANGED <<searchNow, catalog, guide, generation, mappings, results, probes, played,
                     service, search>>
      /\ searchPc = "current"
  BY DEF Search!Listed, Search!world, Search!caches
<1> DEFINE live == {r \in searchRows : r.start <= searchNow /\ searchNow < r.end}
<1>1. CASE live = {}
  <2>1. searchPc' = "results" /\ searchRows' = {}
    BY <1>1 DEF Search!Listed
  <2>2. RowsSound'
    BY <1>0, <2>1 DEF SearchInv, RowsSound
  <2> QED BY <1>0, <2>1, <2>2, SearchesTyped, SearchMoves DEF SearchInv, SearchTypes
<1>2. CASE live # {}
  <2>1. searchPc' = "choose" /\ searchRows' = live /\ at' = searchNow
    BY <1>2 DEF Search!Listed
  <2>2. SearchTypes'
    BY <1>0 DEF SearchInv, SearchTypes
  <2>3. search.generation # 0
    BY <1>0, <1>2 DEF SearchInv, RowsSound
  <2>4. RowsSound'
    BY <1>0, <2>1, <2>3, SearchesTyped DEF SearchInv, RowsSound
  <2>5. ResultsSound'
    BY <1>0, SearchesTyped, FactsKept DEF SearchInv, ResultsSound
  <2>6. live \subseteq Search!Current(Search!Used, searchNow)
    <3>1. ASSUME NEW r \in live
          PROVE  r \in Search!Current(Search!Used, searchNow)
      <4>1. Said(service, search.generation, r, "live")
        BY <1>0 DEF SearchInv, RowsSound
      <4>2. r.start = guide[service][search.generation][r.channel].start
            /\ r.end = guide[service][search.generation][r.channel].end
        BY <4>1 DEF Said, Search!Row
      <4> QED BY <4>1, <4>2, CurrentSaid DEF Search!Used
    <3> QED BY <3>1
  <2>7. Search!SoundSelection'
    <3>1. Search!Current(Search!Used, at)' = Search!Current(Search!Used, searchNow)
      BY <1>0, <2>1 DEF Search!Current, Search!Row, Search!Used
    <3>2. played' = {}
      BY <1>0 DEF SearchInv, RowsSound
    <3> HIDE DEF live
    <3> QED BY <1>2, <2>1, <2>6, <3>1, <3>2 DEF Search!SoundSelection
  <2> QED BY <2>2, <2>4, <2>5, <2>7 DEF SearchInv
<1> QED BY <1>1, <1>2

\* A result found before is what it was when it was found.
LEMMA SearchCached ==
    ASSUME SearchInv, Search!Cached
    PROVE  SearchInv'
<1>0. /\ UNCHANGED <<searchNow, catalog, guide, generation, mappings, results, probes, played,
                     service>>
      /\ searchPc = "results" /\ searchRows = {} /\ search.cached = FALSE
  BY SearchesTyped DEF Search!Cached, Search!world, Search!caches, SearchInv, RowsSound
<1>1. ASSUME NEW k \in results, k.service = service, k.catalog = search.catalog,
             searchRows' = k.rows, searchPc' = "confirm",
             search' = [search EXCEPT !.cached = TRUE, !.until = k.until,
                                      !.generation = k.generation]
      PROVE  SearchInv'
  <2>1. /\ k.generation \in 1..MaxGeneration /\ k.until \in Nat
        /\ \A r \in k.rows : Probed(k.service, k.generation, k.catalog, r)
        /\ Quiet(k.service, k.generation, k.until)
    BY DEF SearchInv, SearchTypes, ResultsSound
  <2>2. /\ search' \in SearchRecords /\ search'.generation = k.generation
        /\ search'.until = k.until /\ search'.catalog = search.catalog
    <3>1. search \in SearchRecords /\ k.generation \in 0..MaxGeneration
      BY <2>1, SearchesTyped
    <3> QED BY <1>1, <2>1, <3>1 DEF SearchRecords
  <2>3. /\ \A r \in searchRows' : Probed(service, search.generation, search.catalog, r)'
        /\ Quiet(service, search.generation, search.until)'
    BY <1>0, <1>1, <2>1, <2>2, SearchesTyped, FactsKept
  <2>4. RowsSound'
    BY <1>0, <1>1, <2>1, <2>2, <2>3 DEF SearchInv, RowsSound
  <2> QED BY <1>0, <1>1, <2>2, <2>4, SearchesTyped, SearchMoves DEF SearchInv, SearchTypes
<1>2. CASE searchPc' = "mapping" /\ UNCHANGED <<searchRows, search>>
  <2>1. RowsSound'
    BY <1>0, <1>2 DEF SearchInv, RowsSound
  <2> QED BY <1>0, <1>2, <2>1, SearchesTyped, SearchMoves DEF SearchInv, SearchTypes
<1> QED BY <1>1, <1>2 DEF Search!Cached

\* The generation of the mapping is that of the search.
LEMMA SearchMapping ==
    ASSUME SearchInv, Search!Mapping
    PROVE  SearchInv'
<1>0. /\ UNCHANGED <<searchNow, catalog, guide, generation, results, probes, played, service,
                     searchRows>>
      /\ searchPc = "mapping" /\ searchPc' = "history"
  BY DEF Search!Mapping, Search!world
<1>1. ASSUME NEW n \in 1..MaxGeneration, NEW until \in Nat,
             search' = [search EXCEPT !.generation = n, !.until = until],
             \A k \in mappings' : k.generation \in 1..MaxGeneration /\ k.until \in Nat
      PROVE  SearchInv'
  <2>1. /\ search' \in SearchRecords /\ search'.generation = n
        /\ search'.cached = search.cached
    <3>1. search \in SearchRecords /\ n \in 0..MaxGeneration
      BY SearchesTyped
    <3> QED BY <1>1, <3>1 DEF SearchRecords
  <2>2. RowsSound'
    BY <1>0, <2>1 DEF SearchInv, RowsSound
  <2> QED BY <1>0, <1>1, <2>1, <2>2, SearchesTyped, SearchMoves
<1>2. CASE \E k \in mappings :
             /\ search' = [search EXCEPT !.generation = k.generation, !.until = k.until]
             /\ UNCHANGED mappings
  BY <1>1, <1>2 DEF SearchInv, SearchTypes
<1>3. CASE /\ search' = [search EXCEPT !.generation = generation[service],
                                       !.until = searchNow + Lifetime]
           /\ mappings' = {k \in mappings : k.service # service} \cup
                {[service |-> service, generation |-> generation[service],
                  until |-> searchNow + Lifetime]}
  <2>1. generation[service] \in 1..MaxGeneration /\ searchNow + Lifetime \in Nat
    BY SearchesTyped
  <2>2. \A k \in mappings' : k.generation \in 1..MaxGeneration /\ k.until \in Nat
    BY <1>3, <2>1 DEF SearchInv, SearchTypes
  <2> QED BY <1>1, <1>3, <2>1, <2>2
<1> QED BY <1>2, <1>3 DEF Search!Mapping

\* A history is read, of that generation or not at all.
LEMMA SearchHistory ==
    ASSUME SearchInv, NEW c \in Channels, Search!History(c)
    PROVE  SearchInv'
<1>0. /\ UNCHANGED <<searchNow, catalog, guide, generation, mappings, results, probes, played>>
      /\ searchPc = "history"
  BY DEF Search!History, Search!world
<1>1. CASE UNCHANGED <<searchPc, service, search, searchRows>>
  <2>1. RowsSound'
    BY <1>0, <1>1 DEF SearchInv, RowsSound
  <2> QED BY <1>0, <1>1, <2>1, SearchesTyped, SearchMoves DEF SearchInv, SearchTypes
<1>2. CASE /\ searchPc' = "mapping" /\ search' = [search EXCEPT !.attempt = 2]
           /\ UNCHANGED <<service, searchRows>>
  <2>1. search' \in SearchRecords /\ search'.generation = search.generation
        /\ search'.cached = search.cached
    BY <1>2, SearchesTyped DEF SearchRecords
  <2>2. RowsSound'
    BY <1>0, <1>2, <2>1 DEF SearchInv, RowsSound
  <2> QED BY <1>0, <1>2, <2>1, <2>2, SearchesTyped, SearchMoves DEF SearchInv, SearchTypes
<1>3. CASE Search!Ends("failed")
  BY <1>0, <1>3, SearchEnds
<1> QED BY <1>1, <1>2, <1>3 DEF Search!History

LEMMA SearchSelect ==
    ASSUME SearchInv, Search!Select
    PROVE  SearchInv'
<1>0. /\ UNCHANGED <<searchNow, catalog, guide, generation, mappings, results, probes, played,
                     service, search>>
      /\ searchPc = "history" /\ searchPc' = "verify"
      /\ searchRows' = Search!Current(Search!Used, searchNow)
  BY DEF Search!Select, Search!world, Search!caches
<1>1. \A r \in searchRows' : Said(service, search.generation, r, "live")
  BY <1>0, CurrentSaid DEF Search!Used
<1>2. \A r \in searchRows' : Said(service, search.generation, r, "live")'
  BY <1>0, <1>1, SearchesTyped, FactsKept
<1>3. RowsSound'
  BY <1>0, <1>2 DEF SearchInv, RowsSound
<1> QED BY <1>0, <1>3, SearchesTyped, SearchMoves DEF SearchInv, SearchTypes

\* A recording is found when it has been probed.
LEMMA SearchVerify ==
    ASSUME SearchInv, NEW c \in Channels, Search!Verify(c)
    PROVE  SearchInv'
<1> DEFINE row == Search!Row(Search!Used, c, "archive")
<1>0. /\ UNCHANGED <<searchNow, catalog, guide, generation, mappings, results, played, searchPc,
                     service, search>>
      /\ searchPc = "verify" /\ probes \subseteq probes'
      /\ \/ searchRows' = searchRows
         \/ searchRows' = searchRows \cup {row} /\ Search!Probe(c) \in probes'
  BY DEF Search!Verify, Search!world
<1>1. row.channel = c /\ Said(service, search.generation, row, "archive")
  BY DEF Said, Search!Row, Search!Used
<1>2. Search!Probe(c) \in probes' =>
        Probed(service, search.generation, search.catalog, row)'
  <2>1. Said(service, search.generation, row, "archive")'
    BY <1>0, <1>1 DEF Said, Search!Row, Search!Used
  <2>2. row' = row
    BY <1>0 DEF Search!Row, Search!Used
  <2> QED BY <1>0, <1>1, <2>1, <2>2 DEF Probed, Search!Probe, Search!Used
<1>3. ASSUME NEW r \in searchRows'
      PROVE  \/ Said(service, search.generation, r, "live")'
             \/ Probed(service, search.generation, search.catalog, r)'
  <2>1. CASE r \in searchRows
    <3>1. \/ Said(service, search.generation, r, "live")
          \/ Probed(service, search.generation, search.catalog, r)
      BY <1>0, <2>1 DEF SearchInv, RowsSound
    <3> QED BY <1>0, <3>1, SearchesTyped, FactsKept
  <2>2. CASE r \notin searchRows
    <3>1. r = row /\ Search!Probe(c) \in probes'
      BY <1>0, <2>2
    <3>2. row' = row
      BY <1>0 DEF Search!Row, Search!Used
    <3> HIDE DEF row
    <3> QED BY <1>2, <3>1, <3>2
  <2> QED BY <2>1, <2>2
<1>4. RowsSound'
  BY <1>0, <1>3 DEF SearchInv, RowsSound
<1> QED BY <1>0, <1>4, SearchesTyped, SearchMoves DEF SearchInv, SearchTypes

\* Nothing begins or ends before the next start or end.
LEMMA QuietUntilBoundary ==
    ASSUME NEW g \in [Channels -> GuideTimes], NEW now \in Nat, NEW expiry \in Nat,
           NEW until, until = Search!Earliest({expiry} \cup Search!Boundaries(g, now)),
           Search!Current(g, now) = {}
    PROVE  /\ until \in Nat
           /\ \A t \in Nat : now <= t /\ t < until => Search!Current(g, t) = {}
<1> DEFINE moments == {expiry} \cup Search!Boundaries(g, now)
<1>0. \A c \in Channels : g[c].start \in Nat /\ g[c].end \in Nat
  BY DEF GuideTimes
<1>1. moments \in SUBSET Nat /\ moments # {}
  BY <1>0 DEF Search!Boundaries
<1>2. until \in moments /\ \A y \in moments : until <= y
  <2>1. \E n \in moments : \A k \in moments : n <= k
    BY <1>1, LeastNumber
  <2> QED BY <2>1 DEF Search!Earliest
<1>3. ASSUME NEW t \in Nat, now <= t, t < until, Search!Current(g, t) # {}
      PROVE  FALSE
  <2>1. PICK c \in Channels : g[c].start <= t /\ t < g[c].end
    BY <1>3 DEF Search!Current
  <2>2. ~(g[c].start <= now /\ now < g[c].end)
    <3>1. CASE g[c].start <= now /\ now < g[c].end
      <4>1. Search!Row(g, c, "live") \in Search!Current(g, now)
        BY <3>1 DEF Search!Current
      <4> QED BY <4>1
    <3> QED BY <3>1
  <2>3. g[c].start \in Nat /\ g[c].end \in Nat
    BY <1>0
  <2>4. g[c].start > now
    BY <1>3, <2>1, <2>2, <2>3
  <2>5. g[c].start \in moments
    BY <2>4 DEF Search!Boundaries
  <2>6. until \in Nat /\ until <= g[c].start
    BY <1>1, <1>2, <2>5
  <2> QED BY <1>3, <2>1, <2>3, <2>6
<1> QED BY <1>1, <1>2, <1>3

LEMMA UsedTyped ==
    ASSUME SearchInv, search.generation # 0
    PROVE  /\ search.generation \in 1..MaxGeneration
           /\ Search!Used \in [Channels -> GuideTimes]
<1>1. search.generation \in 1..MaxGeneration
  BY SearchesTyped
<1> QED BY <1>1, SearchesTyped DEF Search!Used

\* A result is kept until something begins or ends.
LEMMA SearchSettle ==
    ASSUME SearchInv, Search!Settle
    PROVE  SearchInv'
<1> DEFINE live == Search!Current(Search!Used, searchNow)
           kept == {r \in searchRows : r.mode = "archive" /\ Search!Kept(r, searchNow)}
           until == Search!Earliest({search.until} \cup
                                      Search!Boundaries(Search!Used, searchNow))
           entry == [service |-> service, catalog |-> search.catalog,
                     generation |-> search.generation, rows |-> kept, until |-> until]
<1>0. /\ UNCHANGED <<searchNow, catalog, guide, generation, mappings, probes, played, service,
                     search>>
      /\ searchPc = "verify" /\ searchPc' = "confirm"
      /\ searchRows' = IF live # {} THEN live ELSE kept
      /\ \/ results' = results
         \/ /\ live = {}
            /\ results' = {k \in results : k.service # service \/ k.catalog # search.catalog}
                            \cup {entry}
  BY DEF Search!Settle, Search!world
<1>1. /\ search.generation # 0 /\ search.cached = FALSE
      /\ \A r \in searchRows : \/ Said(service, search.generation, r, "live")
                               \/ Probed(service, search.generation, search.catalog, r)
  BY <1>0, SearchesTyped DEF SearchInv, RowsSound
<1>2. /\ \A s, n, r, mode : Said(s, n, r, mode)' = Said(s, n, r, mode)
      /\ \A s, n, c, r : Probed(s, n, c, r) => Probed(s, n, c, r)'
      /\ \A s, n, u : Quiet(s, n, u) => Quiet(s, n, u)'
  BY <1>0, SearchesTyped, FactsKept
<1>3. /\ \A r \in live : Said(service, search.generation, r, "live")
      /\ \A r \in kept : Probed(service, search.generation, search.catalog, r)
  <2>1. \A r \in live : Said(service, search.generation, r, "live")
    BY CurrentSaid DEF Search!Used
  <2>2. \A r \in kept : ~Said(service, search.generation, r, "live")
    BY DEF Said, Search!Row
  <2> QED BY <1>1, <2>1, <2>2
<1> HIDE DEF live, kept, until
<1>4. RowsSound'
  <2>1. /\ \A r \in live : Said(service, search.generation, r, "live")
        /\ \A r \in kept : Probed(service, search.generation, search.catalog, r)
    BY <1>3
  <2>2. ASSUME NEW r \in searchRows'
        PROVE  \/ Said(service, search.generation, r, "live")'
               \/ Probed(service, search.generation, search.catalog, r)'
    <3>1. r \in live \/ r \in kept
      BY <1>0
    <3> QED BY <1>0, <1>2, <2>1, <3>1
  <2> QED BY <1>0, <1>1, <2>2 DEF SearchInv, RowsSound
<1>5. live = {} => until \in Nat /\ Quiet(service, search.generation, until)
  <2>1. Search!Used \in [Channels -> GuideTimes]
    BY <1>1, UsedTyped
  <2>2. search.until \in Nat /\ searchNow \in Nat
    BY SearchesTyped
  <2> QED BY <2>1, <2>2, QuietUntilBoundary DEF live, until, Quiet, Search!Used
<1>6. ASSUME NEW k \in results'
      PROVE  /\ k.service \in Search!Services /\ k.generation \in 1..MaxGeneration
             /\ k.until \in Nat
             /\ \A r \in k.rows : Probed(k.service, k.generation, k.catalog, r)'
             /\ Quiet(k.service, k.generation, k.until)'
  <2>1. CASE k \in results
    BY <1>2, <2>1 DEF SearchInv, SearchTypes, ResultsSound
  <2>2. CASE k = entry /\ live = {}
    <3>1. /\ k.service = service /\ k.catalog = search.catalog
          /\ k.generation = search.generation /\ k.rows = kept /\ k.until = until
      BY <2>2
    <3>2. service \in Search!Services /\ search.generation \in 1..MaxGeneration
      BY <1>1, UsedTyped, SearchesTyped
    <3>3. /\ \A r \in k.rows : Probed(k.service, k.generation, k.catalog, r)
          /\ Quiet(k.service, k.generation, k.until) /\ k.until \in Nat
      BY <1>3, <1>5, <2>2, <3>1
    <3> QED BY <1>2, <3>1, <3>2, <3>3
  <2> QED BY <1>0, <2>1, <2>2
<1>7. SearchTypes'
  BY <1>0, <1>6 DEF SearchInv, SearchTypes
<1>8. ResultsSound'
  BY <1>6 DEF ResultsSound
<1>9. Search!SoundSelection'
  BY <1>0, <1>4 DEF RowsSound, Search!SoundSelection
<1> QED BY <1>4, <1>7, <1>8, <1>9 DEF SearchInv

\* What is offered is looked at once more.
LEMMA SearchConfirm ==
    ASSUME SearchInv, Search!Confirm
    PROVE  SearchInv'
<1> DEFINE live == IF search.cached THEN {} ELSE Search!Current(Search!Used, searchNow)
           kept == IF search.cached /\ searchNow >= search.until THEN {}
                   ELSE {r \in searchRows : r.mode = "archive" /\ Search!Kept(r, searchNow)}
           final == IF live # {} THEN live ELSE kept
<1>0. /\ UNCHANGED <<searchNow, catalog, guide, generation, mappings, results, probes, played>>
      /\ searchPc = "confirm"
      /\ \/ Search!Ends("failed") \/ Search!Ends("nothing")
         \/ /\ final # {} /\ searchRows' = final /\ at' = searchNow /\ searchPc' = "choose"
            /\ UNCHANGED <<service, search>>
  BY DEF Search!Confirm, Search!world, Search!caches
<1>1. CASE Search!Ends("failed") \/ Search!Ends("nothing")
  BY <1>0, <1>1, SearchEnds
<1>2. CASE /\ final # {} /\ searchRows' = final /\ at' = searchNow /\ searchPc' = "choose"
           /\ UNCHANGED <<service, search>>
  <2>1. /\ search.generation # 0 /\ search.cached \in BOOLEAN /\ searchNow \in Nat
        /\ search.until \in Nat
        /\ \A r \in searchRows : \/ Said(service, search.generation, r, "live")
                                 \/ Probed(service, search.generation, search.catalog, r)
        /\ search.cached => Quiet(service, search.generation, search.until)
        /\ played' = {}
    BY <1>0, SearchesTyped DEF SearchInv, RowsSound
  <2>2. ASSUME live # {} PROVE Search!SoundSelection'
    <3>1. searchRows' = Search!Current(Search!Used, searchNow)
      BY <1>2, <2>2
    <3>2. Search!Current(Search!Used, at)' = Search!Current(Search!Used, searchNow)
      BY <1>0, <1>2 DEF Search!Current, Search!Row, Search!Used
    <3>3. searchRows' # {} /\ searchRows' \subseteq Search!Current(Search!Used, at)'
      BY <1>2, <2>2, <3>1, <3>2
    <3> QED BY <2>1, <3>3 DEF Search!SoundSelection
  <2>3. ASSUME live = {} PROVE Search!SoundSelection'
    <3>1. searchRows' = kept /\ kept # {}
      BY <1>2, <2>3
    <3>2. Search!Current(Search!Used, searchNow) = {}
      <4>1. CASE ~search.cached
        BY <2>3, <4>1
      <4>2. CASE search.cached
        <5>1. searchNow < search.until
          BY <2>1, <3>1, <4>2
        <5> QED BY <2>1, <4>2, <5>1 DEF Quiet, Search!Used
      <4> QED BY <4>1, <4>2
    <3>3. ASSUME NEW r \in kept
          PROVE  /\ r \in Search!Recordings(Search!Used, searchNow)
                 /\ Search!Probe(r.channel) \in probes
      <4>1. r \in searchRows /\ r.mode = "archive" /\ Search!Kept(r, searchNow)
        OBVIOUS
      <4>2. ~Said(service, search.generation, r, "live")
        BY <4>1 DEF Said, Search!Row
      <4>3. Probed(service, search.generation, search.catalog, r)
        BY <2>1, <4>1, <4>2
      <4> QED BY <4>1, <4>3, RecordingSaid DEF Probed, Search!Used, Search!Probe
    <3>4. /\ Search!Current(Search!Used, at)' = {}
          /\ Search!Recordings(Search!Used, at)' = Search!Recordings(Search!Used, searchNow)
          /\ \A c : Search!Probe(c)' = Search!Probe(c)
      BY <1>0, <1>2, <3>2 DEF Search!Current, Search!Recordings, Search!Kept, Search!Row,
         Search!Used, Search!Probe
    <3> HIDE DEF kept
    <3> QED BY <1>0, <2>1, <3>1, <3>3, <3>4 DEF Search!SoundSelection
  <2>4. Search!SoundSelection'
    BY <2>2, <2>3
  <2>5. RowsSound'
    BY <1>2, <2>1 DEF RowsSound
  <2>6. SearchTypes'
    BY <1>0, <1>2 DEF SearchInv, SearchTypes
  <2>7. ResultsSound'
    BY <1>0, SearchesTyped, FactsKept DEF SearchInv, ResultsSound
  <2> QED BY <2>4, <2>5, <2>6, <2>7 DEF SearchInv
<1> QED BY <1>0, <1>1, <1>2

\* One programme is played, if it is on and of the catalogue that was searched.
LEMMA SearchPlay ==
    ASSUME SearchInv, Search!Play
    PROVE  SearchInv'
<1>0. /\ UNCHANGED <<searchNow, catalog, guide, generation, mappings, results, probes, service,
                     search>>
      /\ searchPc = "choose" /\ searchPc' = "done" /\ played = {}
  BY DEF Search!Play, Search!world, Search!caches, SearchInv, RowsSound
<1>1. ASSUME NEW p \in played'
      PROVE  /\ p.mode = "live" => p.start <= p.at /\ p.at < p.end
             /\ p.catalog = search.catalog /\ report' \in {"played", "unconfirmed"}
  <2>1. PICK r \in searchRows :
          /\ p = [channel |-> r.channel, start |-> r.start, end |-> r.end, mode |-> r.mode,
                  catalog |-> catalog, at |-> searchNow]
          /\ r.mode = "live" => r.start <= searchNow /\ searchNow < r.end
          /\ catalog = search.catalog /\ report' \in {"played", "unconfirmed"}
    BY <1>0, <1>1 DEF Search!Play
  <2>2. /\ p.mode = r.mode /\ p.start = r.start /\ p.end = r.end /\ p.at = searchNow
        /\ p.catalog = catalog
    BY <2>1
  <2> QED BY <2>1, <2>2
<1>2. SearchTypes'
  BY <1>0 DEF SearchInv, SearchTypes
<1>3. ResultsSound'
  BY <1>0, SearchesTyped, FactsKept DEF SearchInv, ResultsSound
<1>4. RowsSound'
  BY <1>0 DEF RowsSound
<1>5. Search!SoundSelection'
  BY <1>0, <1>1 DEF Search!SoundSelection
<1> QED BY <1>2, <1>3, <1>4, <1>5 DEF SearchInv

LEMMA SearchInductive ==
    ASSUME SearchInv, [Search!Next]_SearchVars
    PROVE  SearchInv'
<1>1. CASE UNCHANGED SearchVars
  <2>1. /\ UNCHANGED <<searchNow, catalog, guide, generation, mappings, probes, results,
                       searchPc, service, search, searchRows, at, report, played>>
    BY <1>1 DEF SearchVars
  <2>2. SearchTypes'
    BY <2>1 DEF SearchInv, SearchTypes
  <2>3. /\ \A s, n, r, mode : Said(s, n, r, mode)' = Said(s, n, r, mode)
        /\ \A s, n, c, r : Probed(s, n, c, r) => Probed(s, n, c, r)'
        /\ \A s, n, until : Quiet(s, n, until) => Quiet(s, n, until)'
    BY <2>1, SearchesTyped, FactsKept
  <2>4. ResultsSound'
    BY <2>1, <2>3 DEF SearchInv, ResultsSound
  <2>5. RowsSound'
    BY <2>1, <2>3 DEF SearchInv, RowsSound
  <2>6. Search!SoundSelection'
    BY <2>1 DEF SearchInv, Search!SoundSelection, Search!Current, Search!Recordings,
       Search!Used, Search!Row, Search!Kept, Search!Probe
  <2> QED BY <2>2, <2>4, <2>5, <2>6 DEF SearchInv
<1>2. CASE Search!List \/ Search!Stop
  <2>1. PICK what : Search!Ends(what)
    BY <1>2 DEF Search!List, Search!Stop
  <2>2. /\ UNCHANGED <<searchNow, catalog, guide, generation, mappings, results, probes, played>>
        /\ searchPc # "done"
    BY <1>2 DEF Search!List, Search!Stop, Search!world, Search!caches
  <2> QED BY <2>1, <2>2, SearchEnds
<1>3. CASE Search!Next
  BY <1>2, <1>3, SearchBegins, SearchBatch, SearchDivided, SearchListed, SearchCached,
     SearchMapping, SearchHistory, SearchVerify, SearchSelect, SearchSettle, SearchConfirm,
     SearchPlay, SearchWorld DEF Search!Next
<1> QED BY <1>1, <1>3

\* What a search offers is true when it is offered, whichever guide answers, however often
\* it or the catalogue changes and whatever the caches hold (_server_programs of ott.py
\* and programme_search.py).
THEOREM SoundSelectionCorrect ==
    MCSpec => []SoundSelection
<1> DEFINE Inv == part = "search" => SearchInv
<1>1. MCInit => Inv
  BY SearchStarts DEF MCInit
<1>2. Inv /\ [MCNext]_MCvars => Inv'
  <2> SUFFICES ASSUME SearchInv, [MCNext]_MCvars, part = "search"
               PROVE  SearchInv'
    BY DEF MCNext, MCvars
  <2>1. [Search!Next]_SearchVars
    BY DEF MCNext, MCvars
  <2> QED BY <2>1, SearchInductive
<1>3. Inv => SoundSelection
  BY DEF SearchInv, SoundSelection
<1> HIDE DEF Inv
<1> QED BY <1>1, <1>2, <1>3, PTL DEF MCSpec
=============================================================================
