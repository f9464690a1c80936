--------------------------- MODULE AgentOperations ---------------------------
(***************************************************************************)
(* How the native Android agent carries out requests                       *)
(* (native/android-agent/main.go, operations.go), with the part of the     *)
(* control server it talks to.                                             *)
(*                                                                         *)
(* The agent polls; a request is delivered again until its result is       *)
(* stored.  A direct operation acts while it is processed.  A deferred one *)
(* (a restart, a reboot, an update) is prepared, and acts only when the    *)
(* controller acknowledged the result that accepts it.  Two files survive  *)
(* the agent: the execution journal, which keeps a request from acting     *)
(* twice, and the receipts an operator reads afterwards.                   *)
(*                                                                         *)
(* The agent has one goroutine: a step here is one write, one message or   *)
(* one action on the player, and everything else may happen between two of *)
(* them.  A clock tick stands for seconds.  What operations do, the byte   *)
(* limits, the 64 receipts and their 24 hours are left out.                *)
(***************************************************************************)
EXTENDS Naturals, FiniteSets

CONSTANTS
    Requests,
    Kind,        \* "direct", "deferred" or "capture", which changes nothing
    Deadline,    \* expires_at
    None,
    MaxEntries,  \* entries of the execution journal
    MaxTime,     \* bound of the model: the controller's clock
    MaxFaults    \* bound of the model: failures and crashes

ASSUME AgentAssumption ==
    /\ Kind \in [Requests -> {"direct", "deferred", "capture"}]
    /\ Deadline \in [Requests -> Nat]
    /\ IsFiniteSet(Requests) /\ None \notin Requests
    /\ MaxEntries \in Nat \ {0} /\ MaxTime \in Nat /\ MaxFaults \in Nat

VARIABLES
    now,          \* the controller's clock
    place,        \* the order in which requests were queued
    ctl,          \* what the controller does with each request
    told,         \* the result it stored first
    journalFile, receiptFile,
    journal, receipts,
    effects,      \* prepared operations: Agent.effects
    serverTime,   \* the clock in the last poll
    batch,        \* requests of that poll not yet processed
    pc,           \* what the agent does next
    cur, entry,   \* the request it processes, with its journal entry
    acted,        \* how often each operation acted
    finished,     \* operations that acted without an error
    faults        \* failures so far

controller == <<now, place, ctl, told>>
files == <<journalFile, receiptFile, journal, receipts>>
poll == <<serverTime, batch>>
history == <<acted, finished>>
vars == <<controller, files, poll, effects, pc, cur, entry, history, faults>>

EntryStates == {"started", "completed", "prepared", "claimed", "failed"}
Entries == [state : EntryStates, result : {"ok", "rejected"}]
NoEntry == [state |-> "none"]
Started == [state |-> "started", result |-> "rejected"]
Refused == [state |-> "completed", result |-> "rejected"]

ReceiptStates == {"started", "accepted", "handler_completed", "rejected", "claimed", "failed"}
Receipts == [state : ReceiptStates, current : BOOLEAN]  \* of this runtime
NoReceipt == [state |-> "none"]

Fault == faults < MaxFaults /\ faults' = faults + 1

-----------------------------------------------------------------------------
(* The two files                                                           *)

\* An entry outlives its request by a moment.
Current(r) == Deadline[r] + 1 > serverTime

Pruned == [r \in Requests |-> IF Current(r) THEN journal[r] ELSE NoEntry]
Kept == {r \in Requests : Pruned[r] # NoEntry}
JournalFull(r) == r \notin Kept /\ Cardinality(Kept) >= MaxEntries

Remember(r, e) ==
    LET next == [Pruned EXCEPT ![r] = e]
    IN  /\ ~JournalFull(r)
        /\ journal' = next /\ journalFile' = next
        /\ UNCHANGED <<receipts, receiptFile, faults>>

\* Nothing is remembered, but the file may have been replaced.
RememberFails(r, e) ==
    /\ \/ JournalFull(r) /\ UNCHANGED <<journalFile, faults>>
       \/ /\ ~JournalFull(r) /\ Fault
          /\ journalFile' \in {journalFile, [Pruned EXCEPT ![r] = e]}
    /\ UNCHANGED <<journal, receipts, receiptFile>>

\* Only operations that change something have a receipt.
Receipted(r) == Kind[r] # "capture"

WithReceipt(r, state) ==
    IF Receipted(r)
    THEN [receipts EXCEPT ![r] =
             [state |-> state, current |-> @ = NoReceipt \/ @.current]]
    ELSE receipts

Record(r, state) ==
    /\ receipts' = WithReceipt(r, state) /\ receiptFile' = receipts'
    /\ UNCHANGED <<journal, journalFile, faults>>

RecordFails(r, state) ==
    /\ Receipted(r) /\ Fault
    /\ receiptFile' \in {receiptFile, WithReceipt(r, state)}
    /\ UNCHANGED <<receipts, journal, journalFile>>

\* operationHistory: what the agent reports of an operation.
Shown(r) ==
    LET row == receipts[r]
    IN  IF \/ row.state \in {"started", "claimed"}
           \/ row.state = "accepted" /\ ~row.current
        THEN "unknown" ELSE row.state

-----------------------------------------------------------------------------
(* The control server                                                      *)

Waiting(r) == ctl[r] = "queued" /\ now < Deadline[r]

Enqueue(r) ==
    /\ ctl[r] = "unsent" /\ now < Deadline[r]
    /\ ctl' = [ctl EXCEPT ![r] = "queued"]
    /\ place' = [place EXCEPT ![r] = Cardinality({q \in Requests : ctl[q] # "unsent"})]
    /\ UNCHANGED <<now, told, files, poll, effects, pc, cur, entry, history, faults>>

\* A result is retained for a minute; a restart or a revocation drops requests.
Forget(r) ==
    /\ ctl[r] \in {"queued", "answered"}
    /\ ctl' = [ctl EXCEPT ![r] = "gone"]
    /\ UNCHANGED <<now, place, told, files, poll, effects, pc, cur, entry, history, faults>>

Tick ==
    /\ now < MaxTime /\ now' = now + 1
    /\ UNCHANGED <<place, ctl, told, files, poll, effects, pc, cur, entry, history, faults>>

\* receiveResult: the first result settles a request, a repeated one is
\* acknowledged again.
StoreResult(r, result) ==
    \/ /\ Waiting(r)
       /\ ctl' = [ctl EXCEPT ![r] = "answered"]
       /\ told' = [told EXCEPT ![r] = result]
    \/ ctl[r] = "answered" /\ UNCHANGED <<ctl, told>>

-----------------------------------------------------------------------------
(* The agent polls                                                         *)

Poll ==
    /\ pc = "idle"
    /\ serverTime' = now
    /\ batch' = {r \in Requests : Waiting(r)}
    /\ pc' = "flush"
    /\ UNCHANGED <<controller, files, effects, cur, entry, history, faults>>

PollFails ==
    /\ pc = "idle" /\ Fault
    /\ pc' = "drop"
    /\ UNCHANGED <<controller, files, poll, effects, cur, entry, history>>

Deliver(r, e) == cur' = r /\ entry' = e /\ pc' = "post"
Return == cur' = None /\ entry' = Started /\ pc' = "next"

Unsettled == {r \in effects : journal[r].state = "prepared" /\ now < Deadline[r]}

\* The controller may have stored a result and lost the acknowledgement.
Flush ==
    /\ pc = "flush"
    /\ \/ \E r \in Unsettled : Deliver(r, journal[r])
       \/ Unsettled = {} /\ pc' = "next" /\ UNCHANGED <<cur, entry>>
    /\ UNCHANGED <<controller, files, poll, effects, history, faults>>

\* Nothing new while an operation waits for its acknowledgement.
EndBatch ==
    /\ pc = "next"
    /\ batch = {} \/ effects # {}
    /\ batch' = {} /\ pc' = "drop"
    /\ UNCHANGED <<controller, files, serverTime, effects, cur, entry, history, faults>>

\* Mutant: a batch is processed to its end.
OldestOfAll(r) ==
    /\ pc = "next"
    /\ r \in batch /\ \A q \in batch : place[r] <= place[q]
    /\ batch' = batch \ {r}

\* The next request of the batch.
Oldest(r) ==
    /\ pc = "next" /\ effects = {}
    /\ r \in batch /\ \A q \in batch : place[r] <= place[q]
    /\ batch' = batch \ {r}

Skip(r) ==
    /\ Oldest(r) /\ now >= Deadline[r]
    /\ UNCHANGED <<controller, files, serverTime, effects, pc, cur, entry, history, faults>>

\* Mutant: an interrupted request is processed again.
KnownFinished(r) == journal[r].state \notin {"none", "started"}

Known(r) == journal[r] # NoEntry

\* Mutant: a processed request is not answered again.
Ignore(r) ==
    /\ Oldest(r) /\ now < Deadline[r] /\ Known(r)
    /\ UNCHANGED <<controller, files, serverTime, effects, pc, cur, entry, history, faults>>

Redeliver(r) ==
    /\ Oldest(r) /\ now < Deadline[r] /\ Known(r)
    /\ Deliver(r, journal[r])
    /\ UNCHANGED <<controller, files, serverTime, effects, history, faults>>

Begin(r) ==
    /\ Oldest(r) /\ now < Deadline[r] /\ ~Known(r)
    /\ \/ Remember(r, Started) /\ cur' = r /\ pc' = "start"
       \/ RememberFails(r, Started) /\ UNCHANGED <<cur, pc>>
    /\ UNCHANGED <<controller, serverTime, effects, entry, history>>

-----------------------------------------------------------------------------
(* One request is carried out                                              *)

\* Without a receipt nothing is done.
Start ==
    /\ pc = "start"
    /\ \/ Record(cur, "started") /\ pc' = "execute" /\ UNCHANGED entry
       \/ RecordFails(cur, "started") /\ pc' = "store" /\ entry' = Refused
    /\ UNCHANGED <<controller, poll, effects, cur, history>>

Act(r, fine) ==
    /\ acted' = [acted EXCEPT ![r] = @ + 1]
    /\ finished' = IF fine THEN finished \cup {r} ELSE finished

Accepted == [state |-> "prepared", result |-> "ok"]
Done == [state |-> "completed", result |-> "ok"]

\* execute: refused, acted on with or without an answer of the player, or
\* prepared.
Execute ==
    /\ pc = "execute"
    /\ pc' = "receipt"
    /\ \/ entry' = Refused /\ UNCHANGED history
       \/ Kind[cur] = "direct" /\ entry' = Done /\ Act(cur, TRUE)
       \/ Kind[cur] = "direct" /\ entry' = Refused /\ Act(cur, FALSE)
       \/ Kind[cur] = "deferred" /\ entry' = Accepted /\ UNCHANGED history
       \/ Kind[cur] = "capture" /\ entry' = Done /\ UNCHANGED history
    /\ UNCHANGED <<controller, files, poll, effects, cur, faults>>

\* Mutant: what was accepted is reported as completed.
ReceiptOfResult(e) == IF e.result = "ok" THEN "handler_completed" ELSE "rejected"

ReceiptState(e) ==
    IF e.state = "prepared" THEN "accepted"
    ELSE IF e.result = "ok" THEN "handler_completed" ELSE "rejected"

Receipt ==
    /\ pc = "receipt"
    /\ pc' = "store"
    /\ \/ Record(cur, ReceiptState(entry)) /\ UNCHANGED entry
       \/ RecordFails(cur, ReceiptState(entry)) /\ entry' = Refused
    /\ UNCHANGED <<controller, poll, effects, cur, history>>

\* A picture is sent once and not kept.
Retained == IF Kind[cur] = "capture" THEN Refused ELSE entry

Store ==
    /\ pc = "store"
    /\ \/ /\ Remember(cur, Retained)
          /\ effects' = IF entry.state = "prepared" THEN effects \cup {cur} ELSE effects
          /\ pc' = "post" /\ UNCHANGED <<cur, entry>>
       \/ RememberFails(cur, Retained) /\ Return /\ UNCHANGED effects
    /\ UNCHANGED <<controller, poll, history>>

-----------------------------------------------------------------------------
(* Its result is delivered                                                 *)

\* Mutant: the prepared result is sent although nothing can follow it.
AnswerOf(r, e) == e.result

\* An operation that was interrupted is not promised.
Answer(r, e) ==
    IF e.state = "started" \/ (e.state = "prepared" /\ r \notin effects)
    THEN "rejected" ELSE e.result

\* What was acknowledged: a prepared operation is claimed.
Proceed ==
    IF entry.state = "prepared" /\ cur \in effects
    THEN pc' = "claim" /\ UNCHANGED <<cur, entry>> ELSE Return

\* The result is stored and acknowledged; or stored with the acknowledgement
\* lost or too late; or not stored.
Post ==
    /\ pc = "post"
    /\ \/ StoreResult(cur, Answer(cur, entry)) /\ Proceed /\ UNCHANGED faults
       \/ StoreResult(cur, Answer(cur, entry)) /\ Return /\ Fault
       \/ Return /\ Fault /\ UNCHANGED <<ctl, told>>
       \/ /\ ~Waiting(cur) /\ ctl[cur] # "answered"
          /\ Return /\ UNCHANGED <<ctl, told, faults>>
    /\ UNCHANGED <<now, place, files, poll, effects, history>>

Claimed == [state |-> "claimed", result |-> "ok"]

\* Claimed on disk before it acts.
Claim ==
    /\ pc = "claim"
    /\ \/ /\ Remember(cur, Claimed)
          /\ effects' = effects \ {cur} /\ entry' = Claimed /\ pc' = "mark"
          /\ UNCHANGED cur
       \/ RememberFails(cur, Claimed) /\ Return /\ UNCHANGED effects
    /\ UNCHANGED <<controller, poll, history>>

Mark ==
    /\ pc = "mark"
    /\ \/ Record(cur, "claimed") /\ pc' = "effect" /\ UNCHANGED <<cur, entry>>
       \/ RecordFails(cur, "claimed") /\ Return
    /\ UNCHANGED <<controller, poll, effects, history>>

Effect ==
    /\ pc = "effect"
    /\ pc' = "report"
    /\ \E fine \in BOOLEAN :
          /\ Act(cur, fine)
          /\ entry' = [entry EXCEPT !.state = IF fine THEN "completed" ELSE "failed"]
    /\ UNCHANGED <<controller, files, poll, effects, cur, faults>>

Report ==
    LET state == IF entry.state = "failed" THEN "failed" ELSE "handler_completed"
    IN  /\ pc = "report"
        /\ pc' = "settle"
        /\ Record(cur, state) \/ RecordFails(cur, state)
        /\ UNCHANGED <<controller, poll, effects, cur, entry, history>>

Settle ==
    /\ pc = "settle" /\ Return
    /\ Remember(cur, entry) \/ RememberFails(cur, entry)
    /\ UNCHANGED <<controller, poll, effects, history>>

\* Mutant: what was accepted waits for its acknowledgement for ever.
DropNothing ==
    /\ pc = "drop"
    /\ pc' = "idle"
    /\ UNCHANGED <<controller, files, poll, effects, cur, entry, history, faults>>

\* The end of a poll: accepted operations whose entry has expired are dropped.
Drop ==
    /\ pc = "drop"
    /\ effects' = {r \in effects : journal[r] # NoEntry /\ Current(r)}
    /\ pc' = "idle"
    /\ UNCHANGED <<controller, files, poll, cur, entry, history, faults>>

-----------------------------------------------------------------------------
(* Restarts                                                                *)

\* The process ends anywhere, as it does when the operation is a reboot.
Crash ==
    /\ pc # "down" /\ Fault
    /\ pc' = "down"
    /\ effects' = {} /\ batch' = {} /\ serverTime' = 0
    /\ cur' = None /\ entry' = Started
    /\ journal' = journalFile /\ receipts' = receiptFile
    /\ UNCHANGED <<controller, journalFile, receiptFile, history>>

Stale(rows) ==
    [r \in Requests |->
        IF rows[r] = NoReceipt THEN NoReceipt ELSE [rows[r] EXCEPT !.current = FALSE]]

\* A damaged history is set aside.
Boot ==
    /\ pc = "down"
    /\ pc' = "idle"
    /\ \/ receipts' = Stale(receipts) /\ UNCHANGED <<receiptFile, faults>>
       \/ /\ Fault
          /\ receipts' = [r \in Requests |-> NoReceipt] /\ receiptFile' = receipts'
    /\ UNCHANGED <<controller, journal, journalFile, poll, effects, cur, entry, history>>

-----------------------------------------------------------------------------
Init ==
    /\ now = 0 /\ place = [r \in Requests |-> 0]
    /\ ctl = [r \in Requests |-> "unsent"] /\ told = [r \in Requests |-> "none"]
    /\ journal = [r \in Requests |-> NoEntry] /\ journalFile = journal
    /\ receipts = [r \in Requests |-> NoReceipt] /\ receiptFile = receipts
    /\ effects = {} /\ serverTime = 0 /\ batch = {}
    /\ pc = "down" /\ cur = None /\ entry = Started
    /\ acted = [r \in Requests |-> 0] /\ finished = {} /\ faults = 0

Agent ==
    \/ Poll \/ Flush \/ EndBatch
    \/ \E r \in Requests : Skip(r) \/ Redeliver(r) \/ Begin(r)
    \/ Start \/ Execute \/ Receipt \/ Store
    \/ Post \/ Claim \/ Mark \/ Effect \/ Report \/ Settle \/ Drop \/ Boot

Next ==
    \/ Agent \/ PollFails \/ Crash
    \/ \E r \in Requests : Enqueue(r) \/ Forget(r)
    \/ Tick

Spec == Init /\ [][Next]_vars

\* The agent runs, its supervisor starts it again, and the clock goes on.
FairSpec == Spec /\ WF_vars(Agent) /\ WF_vars(Tick)

-----------------------------------------------------------------------------
(* Properties                                                              *)

TypeOK ==
    /\ now \in 0..MaxTime /\ serverTime \in 0..now
    /\ place \in [Requests -> Nat]
    /\ ctl \in [Requests -> {"unsent", "queued", "answered", "gone"}]
    /\ told \in [Requests -> {"none", "ok", "rejected"}]
    /\ {journal, journalFile} \subseteq [Requests -> Entries \cup {NoEntry}]
    /\ {receipts, receiptFile} \subseteq [Requests -> Receipts \cup {NoReceipt}]
    /\ effects = {} \/ \E r \in Requests : effects = {r} /\ journal[r].state = "prepared"
    /\ batch \subseteq Requests
    /\ pc \in {"down", "idle", "flush", "next", "start", "execute", "receipt",
               "store", "post", "claim", "mark", "effect", "report", "settle", "drop"}
    /\ cur \in Requests \cup {None} /\ entry \in Entries
    /\ cur = None <=> pc \in {"down", "idle", "flush", "next", "drop"}
    /\ acted \in [Requests -> Nat] /\ finished \subseteq Requests
    /\ faults \in 0..MaxFaults

\* However often a request is delivered and wherever the agent stops, its
\* operation acts at most once.
ActsOnce == \A r \in Requests : acted[r] <= 1

\* A deferred operation acts only when the controller has its acceptance, so
\* that one reported as rejected never acts.
AcceptedFirst ==
    \A r \in Requests : Kind[r] = "deferred" /\ acted[r] > 0 => told[r] = "ok"

\* The agent promises only what it did or still holds.
HonestAnswer ==
    [][\A r \in Requests : told[r] = "none" /\ told'[r] = "ok" =>
          CASE Kind[r] = "direct"   -> r \in finished
            [] Kind[r] = "deferred" -> r \in effects
            [] OTHER                -> TRUE]_vars

\* A receipt never says more than what happened, whichever writes failed.
HonestReceipt ==
    \A r \in Requests :
        /\ Shown(r) = "handler_completed" => r \in finished
        /\ Shown(r) = "accepted" => acted[r] = 0

\* No operation acts while an accepted one waits for its acknowledgement.
NothingOvertakes ==
    [][\A r \in Requests : acted'[r] # acted[r] => effects = {}]_vars

\* An operation acts once, in its turn and after it was accepted where that is
\* promised, and the agent never claims more than what it did or still holds.
HonestAgent ==
    /\ []ActsOnce /\ []AcceptedFirst /\ []HonestReceipt
    /\ HonestAnswer /\ NothingOvertakes

\* An accepted operation whose deadline has passed stops holding up the others,
\* however its acknowledgements were lost.
Unblocks ==
    \A r \in Requests : r \in effects /\ now >= Deadline[r] ~> r \notin effects

\* A request that does not expire is answered, unless the controller drops it.
Answered ==
    \A r \in Requests : ctl[r] = "queued" ~> ctl[r] # "queued" \/ now >= Deadline[r]

\* No request waits for ever, for its own answer or behind another operation.
EveryRequestEnds == Unblocks /\ Answered
=============================================================================
