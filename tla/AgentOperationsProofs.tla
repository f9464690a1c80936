------------------------ MODULE AgentOperationsProofs ------------------------
(***************************************************************************)
(* Proofs about AgentOperations: for any requests, deadlines, sizes of the *)
(* journal and numbers of failures.                                        *)
(*                                                                         *)
(* The inductive invariant says what both files still know of a request    *)
(* that acted, was answered or is held: an entry is replaced or pruned,    *)
(* but it is missing only when the request has expired.                    *)
(***************************************************************************)
EXTENDS AgentOperations, FiniteSetTheorems, TLAPS

Resting == {"down", "idle", "flush", "next", "drop"}
Busy == {"start", "execute", "receipt", "store", "mark", "effect", "report", "settle"}

\* What is held while the agent works.
Control ==
    /\ pc \in Busy => effects = {}
    /\ pc = "post" => effects \subseteq {cur} /\ (cur \in effects => entry.state = "prepared")
    /\ pc = "claim" => effects = {cur}
    /\ cur = None => entry = Started

\* Answers of the controller are final.
Final ==
    \A r \in Requests :
        /\ ctl[r] = "answered" => told[r] # "none"
        /\ told[r] # "none" => ctl[r] \in {"answered", "gone"}

\* An entry is missing only when its request has expired.
Safe(j, r) == j[r] # NoEntry \/ Deadline[r] < now

Involved(r) == acted[r] > 0 \/ told[r] # "none" \/ r = cur \/ r \in effects

Journaled ==
    \A r \in Requests :
        /\ journal[r] # NoEntry => Safe(journalFile, r)
        /\ Involved(r) => Safe(journal, r) /\ Safe(journalFile, r)

\* What may still act has not acted, and was not refused.
Fresh ==
    /\ \A r \in effects :
          acted[r] = 0 /\ Kind[r] = "deferred" /\ told[r] # "rejected"
    /\ pc \in {"start", "execute"} => acted[cur] = 0
    /\ pc \in {"start", "execute", "receipt", "store"} => told[cur] = "none"
    /\ pc \in {"receipt", "store"} /\ entry.state = "prepared" => acted[cur] = 0
    /\ pc \in {"mark", "effect"} => acted[cur] = 0
    /\ pc \in {"claim", "mark", "effect", "report", "settle"} =>
          Kind[cur] = "deferred" /\ told[cur] = "ok"

\* What an entry promises was done, was promised before, or is prepared.
Vouched(r, e) ==
    /\ e.state = "prepared" => Kind[r] = "deferred" /\ e.result = "ok"
    /\ e # NoEntry =>
          (e.result = "ok" =>
              /\ Kind[r] = "direct" => r \in finished
              /\ Kind[r] = "deferred" => e.state = "prepared" \/ told[r] = "ok")

Vouching ==
    /\ \A r \in Requests : Vouched(r, journal[r]) /\ Vouched(r, journalFile[r])
    /\ cur # None => Vouched(cur, entry)

\* What a receipt says.
Witnessed(r, row) ==
    /\ row.state = "handler_completed" => r \in finished
    /\ row.state = "accepted" => Kind[r] = "deferred" /\ acted[r] = 0

Receipting ==
    /\ \A r \in Requests : Witnessed(r, receipts[r]) /\ Witnessed(r, receiptFile[r])
    /\ pc = "effect" =>
          receipts[cur].state = "claimed" /\ receiptFile[cur].state = "claimed"
    /\ pc = "report" => (entry.state # "failed" => cur \in finished)

IInv ==
    /\ TypeOK /\ Control /\ Final /\ Journaled /\ Fresh /\ Vouching /\ Receipting
    /\ ActsOnce /\ AcceptedFirst

-----------------------------------------------------------------------------
(* What a write leaves                                                     *)

LEMMA NoEntryFresh == NoEntry \notin Entries /\ NoReceipt \notin Receipts
BY DEF NoEntry, Entries, NoReceipt, Receipts

LEMMA SomeEntries ==
    /\ Started \in Entries /\ Refused \in Entries /\ Accepted \in Entries
    /\ Done \in Entries /\ Claimed \in Entries
BY DEF Started, Refused, Accepted, Done, Claimed, Entries, EntryStates

LEMMA FaultCounted ==
    ASSUME TypeOK, Fault
    PROVE  faults' \in 0..MaxFaults
BY AgentAssumption DEF TypeOK, Fault

\* A remembered entry is in both files; every other entry stays or has expired.
JournalLeft(r, e) ==
    /\ journal' \in [Requests -> Entries \cup {NoEntry}]
    /\ journalFile' \in [Requests -> Entries \cup {NoEntry}]
    /\ \A q \in Requests : journal'[q] # NoEntry => Safe(journalFile, q)'
    /\ \A q \in Requests : Safe(journal, q) => Safe(journal, q)'
    /\ \A q \in Requests :
          Safe(journal, q) /\ Safe(journalFile, q) => Safe(journalFile, q)'
    /\ \A q \in Requests :
          /\ \/ journal'[q] \in {journal[q], NoEntry}
             \/ q = r /\ journal'[q] = e
          /\ \/ journalFile'[q] \in {journalFile[q], journal[q], NoEntry}
             \/ q = r /\ journalFile'[q] = e
    /\ Remember(r, e) => journal'[r] = e /\ journalFile'[r] = e
    /\ RememberFails(r, e) => journal' = journal
    /\ faults' \in 0..MaxFaults
    /\ receipts' = receipts /\ receiptFile' = receiptFile

LEMMA JournalWritten ==
    ASSUME IInv, NEW r \in Requests, NEW e \in Entries, now' = now,
           Remember(r, e) \/ RememberFails(r, e)
    PROVE  JournalLeft(r, e)
<1> DEFINE next == [Pruned EXCEPT ![r] = e]
<1>1. next \in [Requests -> Entries \cup {NoEntry}]
  BY DEF IInv, TypeOK, Pruned
<1>2. /\ journal' = journal \/ (journal' = next /\ journalFile' = next)
      /\ journalFile' \in {journalFile, next}
  BY DEF Remember, RememberFails
<1>3. \A q \in Requests : next[q] = IF q = r THEN e ELSE
                            IF Current(q) THEN journal[q] ELSE NoEntry
  BY DEF Pruned
<1>4. \A q \in Requests : Current(q) \/ Deadline[q] < now
  BY AgentAssumption DEF IInv, TypeOK, Current
<1>5. \A q \in Requests : Safe(journal, q) => next[q] # NoEntry \/ Deadline[q] < now
  BY <1>3, <1>4, NoEntryFresh DEF Safe
<1>6. faults' \in 0..MaxFaults
  BY FaultCounted DEF IInv, TypeOK, Remember, RememberFails
<1>7. receipts' = receipts /\ receiptFile' = receiptFile
  BY DEF Remember, RememberFails
<1> HIDE DEF next
<1>8. journal' \in [Requests -> Entries \cup {NoEntry}]
      /\ journalFile' \in [Requests -> Entries \cup {NoEntry}]
  BY <1>1, <1>2 DEF IInv, TypeOK
<1>9. \A q \in Requests : journal'[q] # NoEntry => Safe(journalFile, q)'
  BY <1>2, <1>5 DEF IInv, Journaled, Safe
<1>10. \A q \in Requests : Safe(journal, q) => Safe(journal, q)'
  BY <1>2, <1>5 DEF Safe
<1>11. \A q \in Requests :
          Safe(journal, q) /\ Safe(journalFile, q) => Safe(journalFile, q)'
  BY <1>2, <1>5 DEF Safe
<1>12. \A q \in Requests :
          /\ \/ journal'[q] \in {journal[q], NoEntry}
             \/ q = r /\ journal'[q] = e
          /\ \/ journalFile'[q] \in {journalFile[q], journal[q], NoEntry}
             \/ q = r /\ journalFile'[q] = e
  BY <1>2, <1>3
<1>13. Remember(r, e) => journal'[r] = e /\ journalFile'[r] = e
  BY <1>3 DEF Remember, next
<1>14. RememberFails(r, e) => journal' = journal
  BY DEF RememberFails
<1> QED
  BY <1>6, <1>7, <1>8, <1>9, <1>10, <1>11, <1>12, <1>13, <1>14 DEF JournalLeft

\* A receipt that is recorded is in both files; every other one stays.
ReceiptLeft(r, state) ==
    /\ receipts' \in [Requests -> Receipts \cup {NoReceipt}]
    /\ receiptFile' \in [Requests -> Receipts \cup {NoReceipt}]
    /\ \A q \in Requests :
          /\ \/ receipts'[q] = receipts[q]
             \/ q = r /\ receipts'[q].state = state /\ Kind[r] # "capture"
          /\ \/ receiptFile'[q] \in {receipts[q], receiptFile[q]}
             \/ q = r /\ receiptFile'[q].state = state /\ Kind[r] # "capture"
    /\ Record(r, state) /\ Kind[r] # "capture" =>
          receipts'[r].state = state /\ receiptFile'[r].state = state
    /\ faults' \in 0..MaxFaults
    /\ journal' = journal /\ journalFile' = journalFile

LEMMA ReceiptWritten ==
    ASSUME IInv, NEW r \in Requests, NEW state \in ReceiptStates,
           Record(r, state) \/ RecordFails(r, state)
    PROVE  ReceiptLeft(r, state)
<1> DEFINE next == WithReceipt(r, state)
<1>1. /\ next \in [Requests -> Receipts \cup {NoReceipt}]
      /\ \A q \in Requests :
            \/ next[q] = receipts[q]
            \/ q = r /\ next[q].state = state /\ Kind[r] # "capture"
      /\ Kind[r] # "capture" => next[r].state = state
  <2>1. receipts \in [Requests -> Receipts \cup {NoReceipt}]
    BY DEF IInv, TypeOK
  <2>2. CASE ~Receipted(r)
    BY <2>1, <2>2 DEF WithReceipt, Receipted
  <2>3. CASE Receipted(r)
    <3> DEFINE row == [state |-> state,
                       current |-> receipts[r] = NoReceipt \/ receipts[r].current]
    <3>1. next = [receipts EXCEPT ![r] = row]
      BY <2>3 DEF WithReceipt
    <3>2. row.state = state /\ row \in Receipts
      <4>1. (receipts[r] = NoReceipt \/ receipts[r].current) \in BOOLEAN
        BY <2>1 DEF Receipts
      <4> QED
        BY <4>1 DEF Receipts
    <3> HIDE DEF next, row
    <3> QED
      BY <2>1, <2>3, <3>1, <3>2 DEF Receipted
  <2> QED
    BY <2>2, <2>3
<1>2. /\ receipts' \in {receipts, next} /\ receiptFile' \in {receiptFile, next}
      /\ Record(r, state) => receipts' = next /\ receiptFile' = next
  BY DEF Record, RecordFails
<1>3. journal' = journal /\ journalFile' = journalFile /\ faults' \in 0..MaxFaults
  BY FaultCounted DEF IInv, TypeOK, Record, RecordFails
<1> HIDE DEF next
<1> QED
  BY <1>1, <1>2, <1>3 DEF IInv, TypeOK, ReceiptLeft

LEMMA QueueCounted == \A S \in SUBSET Requests : Cardinality(S) \in Nat
BY FS_Subset, FS_CardinalityType, AgentAssumption

LEMMA StaleReceipts ==
    ASSUME IInv
    PROVE  /\ Stale(receipts) \in [Requests -> Receipts \cup {NoReceipt}]
           /\ \A r \in Requests : Stale(receipts)[r].state = receipts[r].state
<1>1. receipts \in [Requests -> Receipts \cup {NoReceipt}]
  BY DEF IInv, TypeOK
<1>2. \A row \in Receipts : /\ [row EXCEPT !.current = FALSE] \in Receipts
                            /\ [row EXCEPT !.current = FALSE].state = row.state
  BY DEF Receipts
<1>3. \A r \in Requests :
         Stale(receipts)[r] = IF receipts[r] = NoReceipt THEN NoReceipt
                              ELSE [receipts[r] EXCEPT !.current = FALSE]
  BY DEF Stale
<1>4. \A r \in Requests : /\ Stale(receipts)[r] \in Receipts \cup {NoReceipt}
                          /\ Stale(receipts)[r].state = receipts[r].state
  BY <1>1, <1>2, <1>3
<1> QED
  BY <1>4 DEF Stale

\* What the delivery of a result can do.
LEMMA PostOutcome ==
    ASSUME IInv, Post
    PROVE  /\ pc = "post" /\ cur \in Requests
           /\ UNCHANGED <<now, place, journal, journalFile, receipts, receiptFile,
                          serverTime, batch, effects, acted, finished>>
           /\ faults' \in 0..MaxFaults
           /\ Answer(cur, entry) \in {"ok", "rejected"}
           /\ cur \in effects => Answer(cur, entry) = "ok"
           /\ \/ ctl' = ctl /\ told' = told
              \/ /\ told[cur] = "none"
                 /\ ctl' = [ctl EXCEPT ![cur] = "answered"]
                 /\ told' = [told EXCEPT ![cur] = Answer(cur, entry)]
           /\ \/ /\ pc' = "claim" /\ cur' = cur /\ entry' = entry
                 /\ entry.state = "prepared" /\ cur \in effects /\ told'[cur] = "ok"
              \/ pc' = "next" /\ cur' = None /\ entry' = Started
<1>1. pc = "post" /\ cur \in Requests /\ entry \in Entries
  BY DEF IInv, TypeOK, Post
<1>2. UNCHANGED <<now, place, journal, journalFile, receipts, receiptFile,
                  serverTime, batch, effects, acted, finished>>
  BY DEF Post, files, poll, history
<1>3. faults' \in 0..MaxFaults
  BY FaultCounted DEF IInv, TypeOK, Post
<1>4. Answer(cur, entry) \in {"ok", "rejected"}
  BY <1>1 DEF Answer, Entries
<1>5. cur \in effects => Answer(cur, entry) = "ok"
  BY <1>1, AgentAssumption DEF IInv, Control, Vouching, Vouched, Answer
<1>6. \/ ctl' = ctl /\ told' = told
      \/ /\ told[cur] = "none"
         /\ ctl' = [ctl EXCEPT ![cur] = "answered"]
         /\ told' = [told EXCEPT ![cur] = Answer(cur, entry)]
  BY <1>1 DEF IInv, Final, Post, StoreResult, Waiting
<1>7. ASSUME cur \in effects, StoreResult(cur, Answer(cur, entry))
      PROVE  told'[cur] = "ok"
  BY <1>5, <1>7 DEF IInv, TypeOK, Final, Fresh, StoreResult
<1>8. \/ /\ pc' = "claim" /\ cur' = cur /\ entry' = entry
         /\ entry.state = "prepared" /\ cur \in effects /\ told'[cur] = "ok"
      \/ pc' = "next" /\ cur' = None /\ entry' = Started
  BY <1>7 DEF Post, Proceed, Return
<1> QED
  BY <1>1, <1>2, <1>3, <1>4, <1>5, <1>6, <1>8

LEMMA EnqueueStep ==
    ASSUME IInv, NEW r \in Requests, Enqueue(r)
    PROVE  IInv'
<1>1. TypeOK'
  BY QueueCounted DEF IInv, TypeOK, Enqueue, files, poll, history
<1>2. Control'
  BY DEF IInv, Enqueue, Control
<1>3. Final'
  BY DEF IInv, Enqueue, Final
<1>4. Journaled'
  BY DEF IInv, Enqueue, Journaled, Safe, Involved, files, history
<1>5. Fresh'
  BY DEF IInv, Enqueue, Fresh, history
<1>6. Vouching'
  BY DEF IInv, Enqueue, Vouching, Vouched, files, history
<1>7. Receipting'
  BY DEF IInv, Enqueue, Receipting, Witnessed, files, history
<1>8. ActsOnce'
  BY DEF IInv, Enqueue, ActsOnce, history
<1>9. AcceptedFirst'
  BY DEF IInv, Enqueue, AcceptedFirst, history
<1> QED
  BY <1>1, <1>2, <1>3, <1>4, <1>5, <1>6, <1>7, <1>8, <1>9 DEF IInv

LEMMA ForgetStep ==
    ASSUME IInv, NEW r \in Requests, Forget(r)
    PROVE  IInv'
<1>1. TypeOK'
  BY DEF IInv, TypeOK, Forget, files, poll, history
<1>2. Control'
  BY DEF IInv, Forget, Control
<1>3. Final'
  BY DEF IInv, Forget, Final
<1>4. Journaled'
  BY DEF IInv, Forget, Journaled, Safe, Involved, files, history
<1>5. Fresh'
  BY DEF IInv, Forget, Fresh, history
<1>6. Vouching'
  BY DEF IInv, Forget, Vouching, Vouched, files, history
<1>7. Receipting'
  BY DEF IInv, Forget, Receipting, Witnessed, files, history
<1>8. ActsOnce'
  BY DEF IInv, Forget, ActsOnce, history
<1>9. AcceptedFirst'
  BY DEF IInv, Forget, AcceptedFirst, history
<1> QED
  BY <1>1, <1>2, <1>3, <1>4, <1>5, <1>6, <1>7, <1>8, <1>9 DEF IInv

LEMMA TickStep ==
    ASSUME IInv, Tick
    PROVE  IInv'
<1>1. TypeOK'
  BY AgentAssumption DEF IInv, TypeOK, Tick, files, poll, history
<1>2. Control'
  BY DEF IInv, Tick, Control
<1>3. Final'
  BY DEF IInv, Tick, Final
<1>4. Journaled'
  BY AgentAssumption DEF IInv, TypeOK, Tick, Journaled, Safe, Involved, files, history
<1>5. Fresh'
  BY DEF IInv, Tick, Fresh, history
<1>6. Vouching'
  BY DEF IInv, Tick, Vouching, Vouched, files, history
<1>7. Receipting'
  BY DEF IInv, Tick, Receipting, Witnessed, files, history
<1>8. ActsOnce'
  BY DEF IInv, Tick, ActsOnce, history
<1>9. AcceptedFirst'
  BY DEF IInv, Tick, AcceptedFirst, history
<1> QED
  BY <1>1, <1>2, <1>3, <1>4, <1>5, <1>6, <1>7, <1>8, <1>9 DEF IInv

LEMMA PollStep ==
    ASSUME IInv, Poll
    PROVE  IInv'
<1>1. TypeOK'
  BY DEF IInv, TypeOK, Poll, controller, files, history
<1>2. Control'
  BY DEF IInv, Poll, Control, Busy
<1>3. Final'
  BY DEF IInv, Poll, Final, controller
<1>4. Journaled'
  BY DEF IInv, Poll, Journaled, Safe, Involved, controller, files, history
<1>5. Fresh'
  BY DEF IInv, Poll, Fresh, controller, history
<1>6. Vouching'
  BY DEF IInv, Poll, Vouching, Vouched, controller, files, history
<1>7. Receipting'
  BY DEF IInv, Poll, Receipting, Witnessed, files, history
<1>8. ActsOnce'
  BY DEF IInv, Poll, ActsOnce, history
<1>9. AcceptedFirst'
  BY DEF IInv, Poll, AcceptedFirst, controller, history
<1> QED
  BY <1>1, <1>2, <1>3, <1>4, <1>5, <1>6, <1>7, <1>8, <1>9 DEF IInv

LEMMA PollFailsStep ==
    ASSUME IInv, PollFails
    PROVE  IInv'
<1>1. TypeOK'
  BY FaultCounted DEF IInv, TypeOK, PollFails, controller, files, poll, history
<1>2. Control'
  BY DEF IInv, PollFails, Control, Busy
<1>3. Final'
  BY DEF IInv, PollFails, Final, controller
<1>4. Journaled'
  BY DEF IInv, PollFails, Journaled, Safe, Involved, controller, files, history
<1>5. Fresh'
  BY DEF IInv, PollFails, Fresh, controller, history
<1>6. Vouching'
  BY DEF IInv, PollFails, Vouching, Vouched, controller, files, history
<1>7. Receipting'
  BY DEF IInv, PollFails, Receipting, Witnessed, files, history
<1>8. ActsOnce'
  BY DEF IInv, PollFails, ActsOnce, history
<1>9. AcceptedFirst'
  BY DEF IInv, PollFails, AcceptedFirst, controller, history
<1> QED
  BY <1>1, <1>2, <1>3, <1>4, <1>5, <1>6, <1>7, <1>8, <1>9 DEF IInv

LEMMA FlushStep ==
    ASSUME IInv, Flush
    PROVE  IInv'
<1>1. TypeOK'
  BY AgentAssumption DEF IInv, TypeOK, Flush, controller, files, poll, history,
     Unsettled, Deliver, NoEntry
<1>2. Control'
  BY AgentAssumption DEF IInv, TypeOK, Flush, Control, Busy, Unsettled, Deliver
<1>3. Final'
  BY DEF IInv, Flush, Final, controller
<1>4. Journaled'
  BY DEF IInv, Flush, Journaled, Safe, Involved, controller, files, history,
     Unsettled, Deliver
<1>5. Fresh'
  BY DEF IInv, Flush, Fresh, controller, history, Deliver
<1>6. Vouching'
  BY DEF IInv, TypeOK, Flush, Vouching, Vouched, controller, files, history,
     Unsettled, Deliver
<1>7. Receipting'
  BY DEF IInv, Flush, Receipting, Witnessed, files, history, Deliver
<1>8. ActsOnce'
  BY DEF IInv, Flush, ActsOnce, history
<1>9. AcceptedFirst'
  BY DEF IInv, Flush, AcceptedFirst, controller, history
<1> QED
  BY <1>1, <1>2, <1>3, <1>4, <1>5, <1>6, <1>7, <1>8, <1>9 DEF IInv

LEMMA EndBatchStep ==
    ASSUME IInv, EndBatch
    PROVE  IInv'
<1>1. TypeOK'
  BY DEF IInv, TypeOK, EndBatch, controller, files, history
<1>2. Control'
  BY DEF IInv, EndBatch, Control, Busy
<1>3. Final'
  BY DEF IInv, EndBatch, Final, controller
<1>4. Journaled'
  BY DEF IInv, EndBatch, Journaled, Safe, Involved, controller, files, history
<1>5. Fresh'
  BY DEF IInv, EndBatch, Fresh, controller, history
<1>6. Vouching'
  BY DEF IInv, EndBatch, Vouching, Vouched, controller, files, history
<1>7. Receipting'
  BY DEF IInv, EndBatch, Receipting, Witnessed, files, history
<1>8. ActsOnce'
  BY DEF IInv, EndBatch, ActsOnce, history
<1>9. AcceptedFirst'
  BY DEF IInv, EndBatch, AcceptedFirst, controller, history
<1> QED
  BY <1>1, <1>2, <1>3, <1>4, <1>5, <1>6, <1>7, <1>8, <1>9 DEF IInv

LEMMA SkipStep ==
    ASSUME IInv, NEW r \in Requests, Skip(r)
    PROVE  IInv'
<1>1. TypeOK'
  BY DEF IInv, TypeOK, Skip, controller, files, history, Oldest
<1>2. Control'
  BY DEF IInv, Skip, Control
<1>3. Final'
  BY DEF IInv, Skip, Final, controller
<1>4. Journaled'
  BY DEF IInv, Skip, Journaled, Safe, Involved, controller, files, history
<1>5. Fresh'
  BY DEF Skip, Fresh, Oldest
<1>6. Vouching'
  BY DEF IInv, Skip, Vouching, Vouched, controller, files, history
<1>7. Receipting'
  BY DEF IInv, Skip, Receipting, Witnessed, files, history
<1>8. ActsOnce'
  BY DEF IInv, Skip, ActsOnce, history
<1>9. AcceptedFirst'
  BY DEF IInv, Skip, AcceptedFirst, controller, history
<1> QED
  BY <1>1, <1>2, <1>3, <1>4, <1>5, <1>6, <1>7, <1>8, <1>9 DEF IInv

LEMMA RedeliverStep ==
    ASSUME IInv, NEW r \in Requests, Redeliver(r)
    PROVE  IInv'
<1>1. TypeOK'
  BY AgentAssumption DEF IInv, TypeOK, Redeliver, controller, files, history, Oldest,
     Known, Deliver
<1>2. Control'
  BY AgentAssumption DEF Redeliver, Control, Oldest, Deliver
<1>3. Final'
  BY DEF IInv, Redeliver, Final, controller
<1>4. Journaled'
  BY DEF IInv, Redeliver, Journaled, Safe, Involved, controller, files, history,
     Known, Deliver
<1>5. Fresh'
  BY DEF Redeliver, Fresh, Oldest, Deliver
<1>6. Vouching'
  BY DEF IInv, Redeliver, Vouching, Vouched, controller, files, history, Deliver
<1>7. Receipting'
  BY DEF IInv, Redeliver, Receipting, Witnessed, files, history, Deliver
<1>8. ActsOnce'
  BY DEF IInv, Redeliver, ActsOnce, history
<1>9. AcceptedFirst'
  BY DEF IInv, Redeliver, AcceptedFirst, controller, history
<1> QED
  BY <1>1, <1>2, <1>3, <1>4, <1>5, <1>6, <1>7, <1>8, <1>9 DEF IInv

LEMMA BeginStep ==
    ASSUME IInv, NEW r \in Requests, Begin(r)
    PROVE  IInv'
<1>a. r \in Requests /\ Started \in Entries
  BY SomeEntries
<1>b. Remember(r, Started) \/ RememberFails(r, Started)
  BY DEF Begin
<1>c. now' = now
  BY DEF Begin, controller
<1>d. JournalLeft(r, Started)
  BY <1>a, <1>b, <1>c, JournalWritten
<1>1. TypeOK'
  BY AgentAssumption, <1>d DEF IInv, TypeOK, Begin, controller, history, Oldest,
     JournalLeft
<1>2. Control'
  BY DEF IInv, TypeOK, Begin, Control, Oldest
<1>3. Final'
  BY DEF IInv, Begin, Final, controller
<1>4. Journaled'
  BY NoEntryFresh, <1>a, <1>d DEF IInv, Begin, Journaled, Safe, Involved, controller,
     history, JournalLeft
<1>5. Fresh'
  BY AgentAssumption DEF IInv, TypeOK, Begin, Fresh, controller, history, Known,
     Journaled, Safe, Involved
<1>6. Vouching'
  BY <1>a, <1>d, AgentAssumption DEF IInv, TypeOK, Begin, Vouching, Vouched,
     controller, history, Oldest, Started, NoEntry, JournalLeft, Control
<1>7. Receipting'
  BY <1>d DEF IInv, Begin, Receipting, Witnessed, history, JournalLeft
<1>8. ActsOnce'
  BY DEF IInv, Begin, ActsOnce, history
<1>9. AcceptedFirst'
  BY DEF IInv, Begin, AcceptedFirst, controller, history
<1> QED
  BY <1>1, <1>2, <1>3, <1>4, <1>5, <1>6, <1>7, <1>8, <1>9 DEF IInv

LEMMA StartStep ==
    ASSUME IInv, Start
    PROVE  IInv'
<1>a. cur \in Requests /\ "started" \in ReceiptStates
  BY DEF IInv, TypeOK, Start, ReceiptStates
<1>b. Record(cur, "started") \/ RecordFails(cur, "started")
  BY DEF Start
<1>d. ReceiptLeft(cur, "started")
  BY <1>a, <1>b, ReceiptWritten
<1>1. TypeOK'
  BY SomeEntries, <1>d DEF IInv, TypeOK, Start, controller, poll, history, ReceiptLeft
<1>2. Control'
  BY DEF IInv, TypeOK, Start, Control, Busy
<1>3. Final'
  BY DEF IInv, Start, Final, controller
<1>4. Journaled'
  BY <1>d DEF IInv, Start, Journaled, Safe, Involved, controller, history, ReceiptLeft
<1>5. Fresh'
  BY DEF IInv, Start, Fresh, controller, history
<1>6. Vouching'
  BY <1>d DEF IInv, Start, Vouching, Vouched, controller, history, ReceiptLeft,
     Refused
<1>7. Receipting'
  BY <1>d DEF IInv, Start, Receipting, Witnessed, history, ReceiptLeft
<1>8. ActsOnce'
  BY DEF IInv, Start, ActsOnce, history
<1>9. AcceptedFirst'
  BY DEF IInv, Start, AcceptedFirst, controller, history
<1> QED
  BY <1>1, <1>2, <1>3, <1>4, <1>5, <1>6, <1>7, <1>8, <1>9 DEF IInv

LEMMA ExecuteStep ==
    ASSUME IInv, Execute
    PROVE  IInv'
<1>1. TypeOK'
  BY SomeEntries DEF IInv, TypeOK, Execute, controller, files, poll, history, Act
<1>2. Control'
  BY DEF IInv, TypeOK, Execute, Control, Busy
<1>3. Final'
  BY DEF IInv, Execute, Final, controller
<1>4. Journaled'
  BY DEF IInv, TypeOK, Execute, Journaled, Safe, Involved, controller, files, history,
     Act
<1>5. Fresh'
  BY DEF IInv, TypeOK, Execute, Fresh, controller, history, Act, Refused, Done
<1>6. Vouching'
  BY DEF IInv, Execute, Vouching, Vouched, controller, files, history, Act, Refused,
     Done, Accepted
<1>7. Receipting'
  BY DEF IInv, TypeOK, Execute, Receipting, Witnessed, files, history, Act
<1>8. ActsOnce'
  BY DEF IInv, TypeOK, Execute, ActsOnce, history, Act, Fresh
<1>9. AcceptedFirst'
  BY DEF IInv, TypeOK, Execute, AcceptedFirst, controller, history, Act
<1> QED
  BY <1>1, <1>2, <1>3, <1>4, <1>5, <1>6, <1>7, <1>8, <1>9 DEF IInv

LEMMA ReceiptStep ==
    ASSUME IInv, Receipt
    PROVE  IInv'
<1>a. cur \in Requests /\ ReceiptState(entry) \in ReceiptStates
  BY DEF IInv, TypeOK, Receipt, ReceiptStates, ReceiptState
<1>b. Record(cur, ReceiptState(entry)) \/ RecordFails(cur, ReceiptState(entry))
  BY DEF Receipt
<1>d. ReceiptLeft(cur, ReceiptState(entry))
  BY <1>a, <1>b, ReceiptWritten
<1>e. /\ ReceiptState(entry) = "handler_completed" /\ Kind[cur] # "capture" => cur \in finished
      /\ ReceiptState(entry) = "accepted" => Kind[cur] = "deferred" /\ acted[cur] = 0
  <2>1. pc = "receipt" /\ entry \in Entries /\ Kind[cur] \in {"direct", "deferred", "capture"}
    BY AgentAssumption DEF IInv, TypeOK, Receipt
  <2>2. Vouched(cur, entry) /\ entry # NoEntry
    BY <1>a, <2>1, AgentAssumption, NoEntryFresh DEF IInv, Vouching
  <2>3. told[cur] = "none" /\ (entry.state = "prepared" => acted[cur] = 0)
    BY <2>1 DEF IInv, Fresh
  <2>4. CASE entry.state = "prepared"
    <3>1. ReceiptState(entry) = "accepted"
      BY <2>4 DEF ReceiptState
    <3>2. Kind[cur] = "deferred" /\ acted[cur] = 0
      BY <2>2, <2>3, <2>4 DEF Vouched
    <3> QED
      BY <3>1, <3>2
  <2>5. CASE entry.state # "prepared" /\ entry.result = "ok"
    BY <2>1, <2>2, <2>3 DEF Vouched, ReceiptState
  <2>6. CASE entry.state # "prepared" /\ entry.result # "ok"
    BY <2>6 DEF ReceiptState
  <2> QED
    BY <2>4, <2>5, <2>6
<1>1. TypeOK'
  BY SomeEntries, <1>d DEF IInv, TypeOK, Receipt, controller, poll, history,
     ReceiptLeft
<1>2. Control'
  BY DEF IInv, TypeOK, Receipt, Control, Busy
<1>3. Final'
  BY DEF IInv, Receipt, Final, controller
<1>4. Journaled'
  BY <1>d DEF IInv, Receipt, Journaled, Safe, Involved, controller, history,
     ReceiptLeft
<1>5. Fresh'
  BY DEF IInv, Receipt, Fresh, controller, history, Refused
<1>6. Vouching'
  BY <1>d DEF IInv, Receipt, Vouching, Vouched, controller, history, ReceiptLeft,
     Refused
<1>7. Receipting'
  BY <1>d, <1>e DEF IInv, Receipt, Receipting, Witnessed, history, ReceiptLeft
<1>8. ActsOnce'
  BY DEF IInv, Receipt, ActsOnce, history
<1>9. AcceptedFirst'
  BY DEF IInv, Receipt, AcceptedFirst, controller, history
<1> QED
  BY <1>1, <1>2, <1>3, <1>4, <1>5, <1>6, <1>7, <1>8, <1>9 DEF IInv

LEMMA StoreStep ==
    ASSUME IInv, Store
    PROVE  IInv'
<1>a. cur \in Requests /\ Retained \in Entries
  BY SomeEntries DEF IInv, TypeOK, Store, Retained
<1>b. Remember(cur, Retained) \/ RememberFails(cur, Retained)
  BY DEF Store
<1>c. now' = now
  BY DEF Store, controller
<1>d. JournalLeft(cur, Retained)
  BY <1>a, <1>b, <1>c, JournalWritten
<1>1. TypeOK'
  BY SomeEntries, <1>d DEF IInv, TypeOK, Store, controller, poll, history, Return,
     JournalLeft, Control, Busy, Retained, Vouching, Vouched
<1>2. Control'
  BY DEF IInv, Store, Control, Busy, Return
<1>3. Final'
  BY DEF IInv, Store, Final, controller
<1>4. Journaled'
  BY <1>d, AgentAssumption DEF IInv, Store, Journaled, Involved, controller, history,
     Return, JournalLeft
<1>5. Fresh'
  BY DEF IInv, TypeOK, Store, Fresh, controller, history, Return, Vouching, Vouched
<1>6. Vouching'
  <2>1. Vouched(cur, Retained) /\ Vouched(cur, entry)
    BY <1>a, AgentAssumption DEF IInv, Vouching, Vouched, Retained, Refused
  <2>2. told' = told /\ finished' = finished
    BY DEF Store, controller, history
  <2>3. \A r \in Requests : Vouched(r, journal[r])' /\ Vouched(r, journalFile[r])'
    BY <1>d, <2>1, <2>2 DEF IInv, Vouching, Vouched, JournalLeft, NoEntry
  <2>4. cur' # None => cur' = cur /\ entry' = entry
    BY DEF Store, Return
  <2> QED
    BY <2>1, <2>2, <2>3, <2>4 DEF Vouching, Vouched
<1>7. Receipting'
  BY <1>d DEF IInv, Store, Receipting, Witnessed, history, Return, JournalLeft
<1>8. ActsOnce'
  BY DEF IInv, Store, ActsOnce, history
<1>9. AcceptedFirst'
  BY DEF IInv, Store, AcceptedFirst, controller, history
<1> QED
  BY <1>1, <1>2, <1>3, <1>4, <1>5, <1>6, <1>7, <1>8, <1>9 DEF IInv

LEMMA PostStep ==
    ASSUME IInv, Post
    PROVE  IInv'
<1>1. TypeOK'
  BY SomeEntries, PostOutcome DEF IInv, TypeOK
<1>2. Control'
  BY PostOutcome DEF IInv, Control, Busy
<1>3. Final'
  BY PostOutcome DEF IInv, TypeOK, Final
<1>4. Journaled'
  BY PostOutcome, AgentAssumption DEF IInv, TypeOK, Journaled, Safe, Involved
<1>5. Fresh'
  BY PostOutcome DEF IInv, TypeOK, Fresh
<1>6. Vouching'
  BY PostOutcome DEF IInv, TypeOK, Vouching, Vouched
<1>7. Receipting'
  BY PostOutcome DEF IInv, Receipting, Witnessed
<1>8. ActsOnce'
  BY PostOutcome DEF IInv, ActsOnce
<1>9. AcceptedFirst'
  BY PostOutcome DEF IInv, TypeOK, AcceptedFirst
<1> QED
  BY <1>1, <1>2, <1>3, <1>4, <1>5, <1>6, <1>7, <1>8, <1>9 DEF IInv

LEMMA ClaimStep ==
    ASSUME IInv, Claim
    PROVE  IInv'
<1>a. cur \in Requests /\ Claimed \in Entries
  BY SomeEntries DEF IInv, TypeOK, Claim
<1>b. Remember(cur, Claimed) \/ RememberFails(cur, Claimed)
  BY DEF Claim
<1>c. now' = now
  BY DEF Claim, controller
<1>d. JournalLeft(cur, Claimed)
  BY <1>a, <1>b, <1>c, JournalWritten
<1>1. TypeOK'
  BY SomeEntries, <1>d DEF IInv, TypeOK, Claim, controller, poll, history, Return,
     JournalLeft, Control
<1>2. Control'
  BY DEF IInv, TypeOK, Claim, Control, Busy, Return
<1>3. Final'
  BY DEF IInv, Claim, Final, controller
<1>4. Journaled'
  BY <1>d, AgentAssumption DEF IInv, Claim, Journaled, Involved, controller, history,
     Return, JournalLeft
<1>5. Fresh'
  BY DEF IInv, Claim, Fresh, controller, history, Return, Control
<1>6. Vouching'
  BY <1>d DEF IInv, Claim, Vouching, Vouched, controller, history, Return, NoEntry,
     JournalLeft, Claimed, Fresh
<1>7. Receipting'
  BY <1>d DEF IInv, Claim, Receipting, Witnessed, history, Return, JournalLeft
<1>8. ActsOnce'
  BY DEF IInv, Claim, ActsOnce, history
<1>9. AcceptedFirst'
  BY DEF IInv, Claim, AcceptedFirst, controller, history
<1> QED
  BY <1>1, <1>2, <1>3, <1>4, <1>5, <1>6, <1>7, <1>8, <1>9 DEF IInv

LEMMA MarkStep ==
    ASSUME IInv, Mark
    PROVE  IInv'
<1>a. cur \in Requests /\ "claimed" \in ReceiptStates
  BY DEF IInv, TypeOK, Mark, ReceiptStates
<1>b. Record(cur, "claimed") \/ RecordFails(cur, "claimed")
  BY DEF Mark
<1>d. ReceiptLeft(cur, "claimed")
  BY <1>a, <1>b, ReceiptWritten
<1>1. TypeOK'
  BY SomeEntries, <1>d DEF IInv, TypeOK, Mark, controller, poll, history, Return,
     ReceiptLeft
<1>2. Control'
  BY DEF IInv, Mark, Control, Busy, Return
<1>3. Final'
  BY DEF IInv, Mark, Final, controller
<1>4. Journaled'
  BY <1>d, AgentAssumption DEF IInv, Mark, Journaled, Safe, Involved, controller,
     history, Return, ReceiptLeft
<1>5. Fresh'
  BY DEF IInv, Mark, Fresh, controller, history, Return
<1>6. Vouching'
  BY <1>d DEF IInv, Mark, Vouching, Vouched, controller, history, Return, ReceiptLeft
<1>7. Receipting'
  BY <1>d DEF IInv, Mark, Receipting, Witnessed, history, Return, ReceiptLeft, Fresh
<1>8. ActsOnce'
  BY DEF IInv, Mark, ActsOnce, history
<1>9. AcceptedFirst'
  BY DEF IInv, Mark, AcceptedFirst, controller, history
<1> QED
  BY <1>1, <1>2, <1>3, <1>4, <1>5, <1>6, <1>7, <1>8, <1>9 DEF IInv

LEMMA EffectStep ==
    ASSUME IInv, Effect
    PROVE  IInv'
<1>1. TypeOK'
  BY DEF IInv, TypeOK, Effect, controller, files, poll, Act, Entries, EntryStates
<1>2. Control'
  BY DEF IInv, TypeOK, Effect, Control, Busy
<1>3. Final'
  BY DEF IInv, Effect, Final, controller
<1>4. Journaled'
  BY DEF IInv, Effect, Journaled, Safe, Involved, controller, files, Act
<1>5. Fresh'
  BY DEF IInv, Effect, Fresh, controller, Control, Busy
<1>6. Vouching'
  BY DEF IInv, Effect, Vouching, Vouched, controller, files, Act, Fresh
<1>7. Receipting'
  BY DEF IInv, Effect, Receipting, Witnessed, files, Act
<1>8. ActsOnce'
  BY DEF IInv, Effect, ActsOnce, Act, Fresh
<1>9. AcceptedFirst'
  BY DEF IInv, Effect, AcceptedFirst, controller, Act, Fresh
<1> QED
  BY <1>1, <1>2, <1>3, <1>4, <1>5, <1>6, <1>7, <1>8, <1>9 DEF IInv

LEMMA ReportStep ==
    ASSUME IInv, Report
    PROVE  IInv'
<1> DEFINE state == IF entry.state = "failed" THEN "failed" ELSE "handler_completed"
<1>a. cur \in Requests /\ state \in ReceiptStates
  BY DEF IInv, TypeOK, Report, ReceiptStates
<1>b. Record(cur, state) \/ RecordFails(cur, state)
  BY DEF Report
<1>d. ReceiptLeft(cur, state)
  BY <1>a, <1>b, ReceiptWritten
<1> HIDE DEF state
<1>1. TypeOK'
  BY <1>d DEF IInv, TypeOK, Report, controller, poll, history, ReceiptLeft
<1>2. Control'
  BY DEF IInv, Report, Control, Busy
<1>3. Final'
  BY DEF IInv, Report, Final, controller
<1>4. Journaled'
  BY <1>d DEF IInv, Report, Journaled, Safe, Involved, controller, history,
     ReceiptLeft
<1>5. Fresh'
  BY DEF IInv, Report, Fresh, controller, history
<1>6. Vouching'
  BY <1>d DEF IInv, Report, Vouching, Vouched, controller, history, ReceiptLeft
<1>7. Receipting'
  BY <1>d DEF IInv, Report, Receipting, Witnessed, history, ReceiptLeft, state
<1>8. ActsOnce'
  BY DEF IInv, Report, ActsOnce, history
<1>9. AcceptedFirst'
  BY DEF IInv, Report, AcceptedFirst, controller, history
<1> QED
  BY <1>1, <1>2, <1>3, <1>4, <1>5, <1>6, <1>7, <1>8, <1>9 DEF IInv

LEMMA SettleStep ==
    ASSUME IInv, Settle
    PROVE  IInv'
<1>a. cur \in Requests /\ entry \in Entries
  BY DEF IInv, TypeOK, Settle
<1>b. Remember(cur, entry) \/ RememberFails(cur, entry)
  BY DEF Settle
<1>c. now' = now
  BY DEF Settle, controller
<1>d. JournalLeft(cur, entry)
  BY <1>a, <1>b, <1>c, JournalWritten
<1>1. TypeOK'
  BY SomeEntries, <1>d DEF IInv, TypeOK, Settle, controller, poll, history, Return,
     JournalLeft, Control, Busy
<1>2. Control'
  BY DEF Settle, Control, Busy, Return
<1>3. Final'
  BY DEF IInv, Settle, Final, controller
<1>4. Journaled'
  BY <1>d, AgentAssumption DEF IInv, Settle, Journaled, Involved, controller, history,
     Return, JournalLeft
<1>5. Fresh'
  BY DEF IInv, Settle, Fresh, controller, history, Return
<1>6. Vouching'
  BY <1>d DEF IInv, TypeOK, Settle, Vouching, Vouched, controller, history, Return,
     NoEntry, JournalLeft
<1>7. Receipting'
  BY <1>d DEF IInv, Settle, Receipting, Witnessed, history, Return, JournalLeft
<1>8. ActsOnce'
  BY DEF IInv, Settle, ActsOnce, history
<1>9. AcceptedFirst'
  BY DEF IInv, Settle, AcceptedFirst, controller, history
<1> QED
  BY <1>1, <1>2, <1>3, <1>4, <1>5, <1>6, <1>7, <1>8, <1>9 DEF IInv

LEMMA DropStep ==
    ASSUME IInv, Drop
    PROVE  IInv'
<1>1. TypeOK'
  BY DEF IInv, TypeOK, Drop, controller, files, poll, history
<1>2. Control'
  BY DEF IInv, Drop, Control, Busy
<1>3. Final'
  BY DEF IInv, Drop, Final, controller
<1>4. Journaled'
  BY DEF IInv, Drop, Journaled, Safe, Involved, controller, files, history
<1>5. Fresh'
  BY DEF IInv, Drop, Fresh, controller, history
<1>6. Vouching'
  BY DEF IInv, Drop, Vouching, Vouched, controller, files, history
<1>7. Receipting'
  BY DEF IInv, Drop, Receipting, Witnessed, files, history
<1>8. ActsOnce'
  BY DEF IInv, Drop, ActsOnce, history
<1>9. AcceptedFirst'
  BY DEF IInv, Drop, AcceptedFirst, controller, history
<1> QED
  BY <1>1, <1>2, <1>3, <1>4, <1>5, <1>6, <1>7, <1>8, <1>9 DEF IInv

LEMMA CrashStep ==
    ASSUME IInv, Crash
    PROVE  IInv'
<1>1. TypeOK'
  BY SomeEntries, FaultCounted DEF IInv, TypeOK, Crash, controller, history
<1>2. Control'
  BY DEF Crash, Control
<1>3. Final'
  BY DEF IInv, Crash, Final, controller
<1>4. Journaled'
  BY AgentAssumption DEF IInv, Crash, Journaled, Safe, Involved, controller, history
<1>5. Fresh'
  BY DEF Crash, Fresh
<1>6. Vouching'
  BY DEF IInv, Crash, Vouching, Vouched, controller, history
<1>7. Receipting'
  BY DEF IInv, Crash, Receipting, Witnessed, history
<1>8. ActsOnce'
  BY DEF IInv, Crash, ActsOnce, history
<1>9. AcceptedFirst'
  BY DEF IInv, Crash, AcceptedFirst, controller, history
<1> QED
  BY <1>1, <1>2, <1>3, <1>4, <1>5, <1>6, <1>7, <1>8, <1>9 DEF IInv

LEMMA BootStep ==
    ASSUME IInv, Boot
    PROVE  IInv'
<1>1. TypeOK'
  BY FaultCounted, StaleReceipts DEF IInv, TypeOK, Boot, controller, poll, history
<1>2. Control'
  BY DEF IInv, Boot, Control, Busy
<1>3. Final'
  BY DEF IInv, Boot, Final, controller
<1>4. Journaled'
  BY DEF IInv, Boot, Journaled, Safe, Involved, controller, history
<1>5. Fresh'
  BY DEF IInv, Boot, Fresh, controller, history
<1>6. Vouching'
  BY DEF IInv, Boot, Vouching, Vouched, controller, history
<1>7. Receipting'
  BY StaleReceipts DEF IInv, Boot, Receipting, Witnessed, history, NoReceipt
<1>8. ActsOnce'
  BY DEF IInv, Boot, ActsOnce, history
<1>9. AcceptedFirst'
  BY DEF IInv, Boot, AcceptedFirst, controller, history
<1> QED
  BY <1>1, <1>2, <1>3, <1>4, <1>5, <1>6, <1>7, <1>8, <1>9 DEF IInv

-----------------------------------------------------------------------------
(* The invariant, and what follows from it                                 *)

LEMMA Initially == Init => IInv
<1> SUFFICES ASSUME Init PROVE IInv
  OBVIOUS
<1>1. TypeOK
  BY AgentAssumption, SomeEntries DEF Init, TypeOK
<1> QED
  BY <1>1, AgentAssumption DEF Init, IInv, Control, Final, Journaled, Involved, Fresh,
     Vouching, Vouched, NoEntry, Receipting, Witnessed, NoReceipt, ActsOnce,
     AcceptedFirst

LEMMA Stutters ==
    ASSUME IInv, UNCHANGED vars
    PROVE  IInv'
BY DEF vars, controller, files, poll, history, IInv, TypeOK, Control, Final,
   Journaled, Involved, Safe, Fresh, Vouching, Vouched, Receipting, Witnessed, ActsOnce,
   AcceptedFirst

LEMMA Inductive == IInv /\ [Next]_vars => IInv'
<1> SUFFICES ASSUME IInv, [Next]_vars PROVE IInv'
  OBVIOUS
<1>1. ASSUME NEW r \in Requests, Enqueue(r) PROVE IInv'
  BY <1>1, EnqueueStep
<1>2. ASSUME NEW r \in Requests, Forget(r) PROVE IInv'
  BY <1>2, ForgetStep
<1>3. CASE Tick
  BY <1>3, TickStep
<1>4. CASE Poll
  BY <1>4, PollStep
<1>5. CASE PollFails
  BY <1>5, PollFailsStep
<1>6. CASE Flush
  BY <1>6, FlushStep
<1>7. CASE EndBatch
  BY <1>7, EndBatchStep
<1>8. ASSUME NEW r \in Requests, Skip(r) PROVE IInv'
  BY <1>8, SkipStep
<1>9. ASSUME NEW r \in Requests, Redeliver(r) PROVE IInv'
  BY <1>9, RedeliverStep
<1>10. ASSUME NEW r \in Requests, Begin(r) PROVE IInv'
  BY <1>10, BeginStep
<1>11. CASE Start
  BY <1>11, StartStep
<1>12. CASE Execute
  BY <1>12, ExecuteStep
<1>13. CASE Receipt
  BY <1>13, ReceiptStep
<1>14. CASE Store
  BY <1>14, StoreStep
<1>15. CASE Post
  BY <1>15, PostStep
<1>16. CASE Claim
  BY <1>16, ClaimStep
<1>17. CASE Mark
  BY <1>17, MarkStep
<1>18. CASE Effect
  BY <1>18, EffectStep
<1>19. CASE Report
  BY <1>19, ReportStep
<1>20. CASE Settle
  BY <1>20, SettleStep
<1>21. CASE Drop
  BY <1>21, DropStep
<1>22. CASE Crash
  BY <1>22, CrashStep
<1>23. CASE Boot
  BY <1>23, BootStep
<1> QED
  BY <1>1, <1>2, <1>3, <1>4, <1>5, <1>6, <1>7, <1>8, <1>9, <1>10, <1>11, <1>12, <1>13,
     <1>14, <1>15, <1>16, <1>17, <1>18, <1>19, <1>20, <1>21, <1>22, <1>23, Stutters DEF
     Next, Agent

LEMMA Invariance == Spec => []IInv
<1>1. Init => IInv
  BY Initially
<1>2. IInv /\ [Next]_vars => IInv'
  BY Inductive
<1> QED
  BY <1>1, <1>2, PTL DEF Spec

\* The journal, the receipts and the prepared operations stay well formed; in
\* particular at most one operation is prepared, and its entry says so.
THEOREM TypeCorrect == Spec => []TypeOK
<1>1. IInv => TypeOK
  BY DEF IInv
<1> QED
  BY <1>1, Invariance, PTL

\* However often a request is delivered, whatever writes and messages fail and
\* wherever the agent restarts, its operation acts at most once.
THEOREM ActsOnceCorrect == Spec => []ActsOnce
<1>1. IInv => ActsOnce
  BY DEF IInv
<1> QED
  BY <1>1, Invariance, PTL

\* A deferred operation acts only when the controller holds its acceptance.
THEOREM AcceptedFirstCorrect == Spec => []AcceptedFirst
<1>1. IInv => AcceptedFirst
  BY DEF IInv
<1> QED
  BY <1>1, Invariance, PTL

\* What the agent reports of an operation never says more than what happened.
THEOREM HonestReceiptCorrect == Spec => []HonestReceipt
<1>1. IInv => HonestReceipt
  BY DEF IInv, Receipting, Witnessed, HonestReceipt, Shown
<1> QED
  BY <1>1, Invariance, PTL

\* No operation acts while an accepted one waits for its acknowledgement.
THEOREM NothingOvertakesCorrect == Spec => NothingOvertakes
<1>1. ASSUME IInv, [Next]_vars, NEW r \in Requests, acted'[r] # acted[r]
      PROVE  effects = {}
  <2>1. Execute \/ Effect
    BY <1>1 DEF Next, Agent, vars, history, Enqueue, Forget, Tick, Poll, PollFails,
       Flush, EndBatch, Skip, Redeliver, Begin, Start, Receipt, Store, Post, Claim, Mark,
       Report, Settle, Drop, Crash, Boot
  <2> QED
    BY <1>1, <2>1 DEF IInv, Control, Busy, Execute, Effect
<1>2. IInv /\ [Next]_vars =>
         [\A r \in Requests : acted'[r] # acted[r] => effects = {}]_vars
  BY <1>1
<1> QED
  BY <1>2, Invariance, PTL DEF Spec, NothingOvertakes

\* The agent promises only what it did or still holds.
THEOREM HonestAnswerCorrect == Spec => HonestAnswer
<1> DEFINE Honest ==
       \A r \in Requests : told[r] = "none" /\ told'[r] = "ok" =>
          CASE Kind[r] = "direct"   -> r \in finished
            [] Kind[r] = "deferred" -> r \in effects
            [] OTHER                -> TRUE
<1>1. ASSUME IInv, [Next]_vars, NEW r \in Requests, told[r] = "none", told'[r] = "ok"
      PROVE  /\ Kind[r] = "direct" => r \in finished
             /\ Kind[r] = "deferred" => r \in effects
  <2>1. Post
    BY <1>1 DEF Next, Agent, vars, controller, Enqueue, Forget, Tick, Poll, PollFails,
       Flush, EndBatch, Skip, Redeliver, Begin, Start, Execute, Receipt, Store, Claim,
       Mark, Effect, Report, Settle, Drop, Crash, Boot
  <2>2. r = cur /\ Answer(cur, entry) = "ok"
    BY <1>1, <2>1, PostOutcome DEF IInv, TypeOK
  <2>3. entry \in Entries /\ Vouched(cur, entry)
    BY <1>1, <2>2, AgentAssumption DEF IInv, TypeOK, Vouching
  <2> QED
    BY <1>1, <2>2, <2>3, NoEntryFresh DEF Vouched, Answer
<1>2. IInv /\ [Next]_vars => [Honest]_vars
  BY <1>1
<1> QED
  BY <1>2, Invariance, PTL DEF Spec, HonestAnswer

\* However it is delivered and wherever the agent stops, an operation acts once and
\* in its turn, and the agent never claims more than what it did or still holds.
THEOREM HonestAgentCorrect == Spec => HonestAgent
BY ActsOnceCorrect, AcceptedFirstCorrect, HonestReceiptCorrect,
   HonestAnswerCorrect, NothingOvertakesCorrect DEF HonestAgent
=============================================================================
