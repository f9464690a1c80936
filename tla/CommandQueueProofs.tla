------------------------- MODULE CommandQueueProofs -------------------------
(***************************************************************************)
(* Theorems about CommandQueue, for every number of devices, owners, keys, *)
(* every limit and every deadline.                                         *)
(*                                                                         *)
(* Type correctness and Identified come first; JournalCovers relates the   *)
(* queue to the journal; Answers and Stamped, inductive with the first     *)
(* two, are about results on their way and timestamps.                     *)
(*                                                                         *)
(* The second half is about the journal, in memory and on file: what it    *)
(* answers, for how long, and that queue and journal together implement    *)
(* OperationLedger.                                                        *)
(***************************************************************************)
EXTENDS CommandQueue, FiniteSetTheorems, TLAPS

-----------------------------------------------------------------------------
(* Operators                                                               *)

LEMMA CapturedType ==
    ASSUME TypeOK, NEW t \in Captured
    PROVE  t \in Nat /\ since <= t /\ t <= clock /\ clock <= t + Lag
BY TimesAssumption DEF TypeOK, Captured, Time

LEMMA NoRecordIsNoRecord == NoRecord \notin Records /\ NoRecord.id \notin Ids
BY LimitsAssumption DEF NoRecord, Records, Ids

LEMMA UnixType ==
    ASSUME NEW t \in Nat
    PROVE  /\ Unix(t) \in Nat /\ CeilUnix(t) \in Nat
           /\ 2 * Unix(t) <= t /\ t < 2 * Unix(t) + 2
           /\ t <= 2 * CeilUnix(t)
BY DEF Unix, CeilUnix

LEMMA LiveRowsType ==
    ASSUME NEW rows \in Journals, NEW t
    PROVE  LiveRows(rows, t) \in Journals
BY DEF LiveRows, Journals

LEMMA FinishedType ==
    ASSUME TypeOK, NEW t, NEW ids \in SUBSET Ids,
           NEW state \in States, NEW status \in Statuses \cup {NoStatus}
    PROVE  Finished(ids, state, status, t) \in Journals
<1> DEFINE rows == LiveRows(journal, t)
<1>1. rows \in Journals
  BY LiveRowsType DEF TypeOK
<1>2. ASSUME NEW i \in Intents, rows[i].id \in ids
      PROVE  [rows[i] EXCEPT !.state = state, !.status = status] \in Records
  <2>1. rows[i] \in Records
    BY <1>1, <1>2, NoRecordIsNoRecord DEF Journals
  <2> QED
    BY <2>1 DEF Records
<1> QED
  BY <1>1, <1>2 DEF Finished, Journals

LEMMA BegunType ==
    ASSUME TypeOK, NEW t \in Nat, NEW d \in Devices, NEW o \in Owners,
           NEW k \in Keys, NEW p \in Payloads, nextId \in Ids
    PROVE  Begun(d, o, k, p, t) \in Journals
<1>1. LiveRows(journal, t) \in Journals
  BY LiveRowsType DEF TypeOK
<1>2. CeilUnix(t + Retention) \in Nat /\ CeilUnix(t + TTL) \in Nat
  BY TimesAssumption DEF CeilUnix
<1> QED
  BY <1>1, <1>2 DEF Begun, Journals, Records, States, Intents

LEMMA RecoveredType ==
    ASSUME TypeOK
    PROVE  Recovered \in Journals
<1> DEFINE rows == LiveRows(disk, clock)
<1>1. rows \in Journals
  BY LiveRowsType DEF TypeOK
<1>2. ASSUME NEW i \in Intents, rows[i] # NoRecord
      PROVE  [rows[i] EXCEPT !.state = "unknown"] \in Records
  <2>1. rows[i] \in Records
    BY <1>1, <1>2 DEF Journals
  <2> QED
    BY <2>1 DEF Records, States
<1> QED
  BY <1>1, <1>2 DEF Recovered, Journals

LEMMA UpdateQueueType ==
    ASSUME TypeOK, NEW t, NEW gone, NEW new \in SUBSET Entries, IsFiniteSet(new),
           UpdateQueue(t, gone, new)
    PROVE  queue' \subseteq Entries /\ IsFiniteSet(queue') /\ bytes' \in Int
<1> DEFINE kept == Alive(queue, t) \ gone
<1>1. kept \subseteq queue /\ IsFiniteSet(kept)
  BY FS_Subset DEF Alive, TypeOK
<1>2. IsFiniteSet(queue \ kept)
  BY FS_Difference DEF TypeOK
<1>3. IsFiniteSet(kept \cup new)
  BY <1>1, FS_Union
<1>4. Cardinality(queue \ kept) \in Nat /\ Cardinality(new) \in Nat
  BY <1>2, FS_CardinalityType
<1> QED
  BY <1>1, <1>3, <1>4 DEF UpdateQueue, TypeOK

LEMMA UpdateResultsType ==
    ASSUME TypeOK, NEW t, NEW new \in SUBSET Results, IsFiniteSet(new),
           UpdateResults(t, new)
    PROVE  results' \subseteq Results /\ IsFiniteSet(results') /\ stored' \in Int
<1> DEFINE kept == Unexpired(results, t)
<1>1. kept \subseteq results /\ IsFiniteSet(kept)
  BY FS_Subset DEF Unexpired, TypeOK
<1>2. IsFiniteSet(results \ kept)
  BY FS_Difference DEF TypeOK
<1>3. IsFiniteSet(kept \cup new)
  BY <1>1, FS_Union
<1>4. Cardinality(results \ kept) \in Nat /\ Cardinality(new) \in Nat
  BY <1>2, FS_CardinalityType
<1> QED
  BY <1>1, <1>3, <1>4 DEF UpdateResults, TypeOK

LEMMA ExpireType ==
    ASSUME TypeOK, NEW t, Expire(t)
    PROVE  /\ queue' \subseteq Entries /\ IsFiniteSet(queue') /\ bytes' \in Int
           /\ results' \subseteq Results /\ IsFiniteSet(results') /\ stored' \in Int
BY UpdateQueueType, UpdateResultsType, FS_EmptySet DEF Expire

-----------------------------------------------------------------------------
(* Type correctness                                                        *)

LEMMA FinishSucceedsType ==
    ASSUME TypeOK, NEW t, NEW ids \in SUBSET Ids, NEW state \in States,
           NEW status \in Statuses \cup {NoStatus},
           FinishSucceeds(ids, state, status, t)
    PROVE  journal' \in Journals /\ disk' \in Journals
BY FinishedType DEF FinishSucceeds, SaveSucceeds, TypeOK

LEMMA FinishFailsType ==
    ASSUME TypeOK, NEW t, NEW ids \in SUBSET Ids, NEW state \in States,
           NEW status \in Statuses \cup {NoStatus},
           FinishFails(ids, state, status, t)
    PROVE  journal' \in Journals /\ disk' \in Journals
BY FinishedType DEF FinishFails, SaveFails, TypeOK

LEMMA AliveIds ==
    ASSUME TypeOK, NEW t, NEW es \in SUBSET queue
    PROVE  IdsOf(es) \subseteq Ids
BY DEF TypeOK, Entries, IdsOf

LEMMA NewEntryType ==
    ASSUME TypeOK, NEW t \in Nat, NEW d \in Devices, NEW kind \in Kinds,
           NEW o \in Owners, NEW k \in Keys \cup {NoKey}, nextId \in Ids
    PROVE  NewEntry(d, kind, o, k, t) \in Entries
<1>1. NextTS(t) \in Time \X Nat /\ <<0, 0>> \in Time \X Nat
  BY DEF NextTS, Time, TypeOK
<1> QED
  BY <1>1, TimesAssumption DEF NewEntry, Entries, Time

LEMMA SubmitType ==
    ASSUME TypeOK, NEW t \in Captured, NEW d \in Devices, NEW kind \in Kinds,
           NEW o \in Owners, NEW k \in Keys \cup {NoKey}, NEW p \in Payloads,
           Submit(d, kind, o, k, p, t)
    PROVE  TypeOK'
<1>1. t \in Nat
  BY CapturedType
<1>2. CASE Admit(d, kind, o, k, p, t)
  <2> DEFINE e == NewEntry(d, kind, o, k, t)
  <2>1. nextId \in Ids
    BY <1>2 DEF Admit
  <2>3. e \in Entries
    BY <1>1, <2>1, NewEntryType
  <2>4. lastTS' \in Time \X Nat
    BY <1>2, <2>3 DEF Admit, Entries, TypeOK
  <2>5. IsFiniteSet({e})
    BY FS_Singleton
  <2>6. queue' \subseteq Entries /\ IsFiniteSet(queue') /\ bytes' \in Int
    BY <1>2, <2>3, <2>5, UpdateQueueType DEF Admit
  <2>7. results' \subseteq Results /\ IsFiniteSet(results') /\ stored' \in Int
    BY <1>2, UpdateResultsType, FS_EmptySet DEF Admit
  <2>8. journal' \in Journals /\ disk' \in Journals
    <3>1. CASE k = NoKey
      BY <1>2, <3>1 DEF Admit, TypeOK
    <3>2. CASE k # NoKey
      BY <1>1, <1>2, <2>1, <3>2, BegunType DEF Admit, SaveSucceeds
    <3> QED
      BY <3>1, <3>2
  <2>9. accepted' \subseteq Entries
    BY <1>2, <2>3 DEF Admit, TypeOK
  <2>10. nextId' \in 1..(MaxId + 1)
    BY <1>2, <2>1, LimitsAssumption DEF Admit, Ids
  <2> QED
    BY <1>2, <2>4, <2>6, <2>7, <2>8, <2>9, <2>10 DEF Admit, TypeOK
<1>3. CASE AdmitFails(d, kind, o, k, p, t)
  <2>1. nextId \in Ids /\ k \in Keys
    BY <1>3 DEF AdmitFails
  <2>2. disk' \in Journals
    BY <1>1, <1>3, <2>1, BegunType DEF AdmitFails, SaveFails, TypeOK
  <2>3. nextId' \in 1..(MaxId + 1)
    BY <1>3, <2>1, LimitsAssumption DEF AdmitFails, Ids
  <2>4. Expire(t)
    BY <1>3 DEF AdmitFails
  <2> QED
    BY <1>3, <2>2, <2>3, <2>4, ExpireType DEF AdmitFails, TypeOK, history
<1> QED
  BY <1>2, <1>3 DEF Submit

LEMMA PollAckType ==
    ASSUME TypeOK, NEW t, NEW d \in Devices, PollAck(d, t)
    PROVE  TypeOK'
<1>1. Expire(t)
  BY DEF PollAck
<1>2. delivered' \subseteq Ids
  BY DEF PollAck, TypeOK, QueueOf, Alive, Entries
<1> QED
  BY <1>1, <1>2, ExpireType DEF PollAck, TypeOK

LEMMA PollLegacyType ==
    ASSUME TypeOK, NEW t, NEW d \in Devices, PollLegacy(d, t)
    PROVE  TypeOK'
<1> DEFINE drained == {e \in QueueOf(Alive(queue, t), d) : e.kind = "command"}
<1>1. queue' \subseteq Entries /\ IsFiniteSet(queue') /\ bytes' \in Int
  BY UpdateQueueType, FS_EmptySet DEF PollLegacy
<1>2. results' \subseteq Results /\ IsFiniteSet(results') /\ stored' \in Int
  BY UpdateResultsType, FS_EmptySet DEF PollLegacy
<1>3. delivered' \subseteq Ids
  BY DEF PollLegacy, TypeOK, QueueOf, Alive, Entries
<1> QED
  BY <1>1, <1>2, <1>3 DEF PollLegacy, TypeOK

LEMMA AckType ==
    ASSUME TypeOK, NEW t, NEW d \in Devices, NEW ids,
           Ack(d, ids, t) \/ AckFails(d, ids, t)
    PROVE  TypeOK'
<1> DEFINE gone == Acknowledged(d, ids, t)
<1>1. IdsOf(gone) \in SUBSET Ids
  BY DEF Acknowledged, QueueOf, Alive, TypeOK, Entries, IdsOf
<1>2. "acknowledged" \in States
  BY DEF States
<1>3. CASE Ack(d, ids, t)
  <2>1. journal' \in Journals /\ disk' \in Journals
    BY <1>1, <1>2, <1>3, FinishSucceedsType DEF Ack
  <2>2. queue' \subseteq Entries /\ IsFiniteSet(queue') /\ bytes' \in Int
    BY <1>3, UpdateQueueType, FS_EmptySet DEF Ack
  <2>3. results' \subseteq Results /\ IsFiniteSet(results') /\ stored' \in Int
    BY <1>3, UpdateResultsType, FS_EmptySet DEF Ack
  <2> QED
    BY <1>3, <2>1, <2>2, <2>3 DEF Ack, TypeOK, history
<1>4. CASE AckFails(d, ids, t)
  <2>1. journal' \in Journals /\ disk' \in Journals
    BY <1>1, <1>2, <1>4, FinishFailsType DEF AckFails
  <2>2. Expire(t)
    BY <1>4 DEF AckFails
  <2> QED
    BY <1>4, <2>1, <2>2, ExpireType DEF AckFails, TypeOK, history
<1> QED
  BY <1>3, <1>4

LEMMA RespondType ==
    ASSUME TypeOK, NEW t \in Captured, NEW r \in replies,
           \/ StoreReply(r, t) \/ StoreReplyFails(r, t) \/ DropReply(r, t)
    PROVE  TypeOK'
<1>1. r \in Replies /\ t \in Nat /\ replies \ {r} \subseteq Replies
  BY CapturedType DEF TypeOK
<1>2. {r.id} \in SUBSET Ids /\ "responded" \in States /\ r.status \in Statuses
  BY <1>1 DEF Replies, States
<1>3. CASE StoreReply(r, t)
  <2>1. PICK e \in Awaiting(r, t) :
          /\ FinishSucceeds({r.id}, "responded", r.status, t)
          /\ UpdateResults(t, {[id |-> r.id, device |-> r.device,
                                owner |-> e.owner, status |-> r.status,
                                valid |-> r.valid, expires |-> t + ResultTTL]})
          /\ UpdateQueue(t, {e}, {})
    BY <1>3 DEF StoreReply
  <2> DEFINE x == [id |-> r.id, device |-> r.device, owner |-> e.owner,
                   status |-> r.status, valid |-> r.valid,
                   expires |-> t + ResultTTL]
  <2>2. e \in Entries
    BY DEF Awaiting, QueueOf, Alive, TypeOK
  <2>3. x \in Results
    BY <1>1, <2>2, TimesAssumption DEF Results, Replies, Entries, Time
  <2>4. IsFiniteSet({x})
    BY FS_Singleton
  <2>5. results' \subseteq Results /\ IsFiniteSet(results') /\ stored' \in Int
    BY <2>1, <2>3, <2>4, UpdateResultsType
  <2>6. queue' \subseteq Entries /\ IsFiniteSet(queue') /\ bytes' \in Int
    BY <2>1, UpdateQueueType, FS_EmptySet
  <2>7. journal' \in Journals /\ disk' \in Journals
    BY <1>2, <2>1, FinishSucceedsType
  <2> QED
    BY <1>1, <1>3, <2>5, <2>6, <2>7 DEF StoreReply, TypeOK, history
<1>4. CASE StoreReplyFails(r, t)
  <2>1. journal' \in Journals /\ disk' \in Journals
    BY <1>2, <1>4, FinishFailsType DEF StoreReplyFails
  <2>2. Expire(t)
    BY <1>4 DEF StoreReplyFails
  <2> QED
    BY <1>1, <1>4, <2>1, <2>2, ExpireType DEF StoreReplyFails, TypeOK, history
<1>5. CASE DropReply(r, t)
  <2>1. Expire(t)
    BY <1>5 DEF DropReply
  <2> QED
    BY <1>1, <1>5, <2>1, ExpireType DEF DropReply, TypeOK, history
<1> QED
  BY <1>3, <1>4, <1>5

LEMMA RevokeType ==
    ASSUME TypeOK, NEW d \in Devices, Revoke(d)
    PROVE  TypeOK'
<1>1. QueueOf(queue, d) \subseteq queue /\ ResultsOf(results, d) \subseteq results
  BY DEF QueueOf, ResultsOf
<1>2. IsFiniteSet(QueueOf(queue, d)) /\ IsFiniteSet(ResultsOf(results, d))
  BY <1>1, FS_Subset DEF TypeOK
<1>3. /\ Cardinality(QueueOf(queue, d)) \in Nat
      /\ Cardinality(ResultsOf(results, d)) \in Nat
  BY <1>2, FS_CardinalityType
<1>4. IsFiniteSet(queue') /\ IsFiniteSet(results')
  BY FS_Difference DEF Revoke, TypeOK
<1>5. bytes' \in Int /\ stored' \in Int
  BY <1>3 DEF Revoke, TypeOK
<1>6. queue' \subseteq Entries /\ results' \subseteq Results
  BY DEF Revoke, TypeOK
<1>7. voided' \subseteq Ids
  BY DEF Revoke, TypeOK, IdsOf, QueueOf, ResultsOf, Entries, Results
<1> QED
  BY <1>4, <1>5, <1>6, <1>7 DEF Revoke, TypeOK, Time

LEMMA RestartType ==
    ASSUME TypeOK, Restart
    PROVE  TypeOK'
<1>1. journal' \in Journals /\ disk' \in Journals
  BY RecoveredType DEF Restart, SaveSucceeds
<1>2. voided' \subseteq Ids
  BY DEF Restart, TypeOK, IdsOf, Entries, Results
<1>3. queue' \subseteq Entries /\ IsFiniteSet(queue') /\ bytes' \in Int
  BY FS_EmptySet DEF Restart
<1>4. results' \subseteq Results /\ IsFiniteSet(results') /\ stored' \in Int
  BY FS_EmptySet DEF Restart
<1> QED
  BY <1>1, <1>2, <1>3, <1>4 DEF Restart, TypeOK, Time

LEMMA InitType == Init => TypeOK
<1> SUFFICES ASSUME Init PROVE TypeOK
  OBVIOUS
<1>1. IsFiniteSet(queue) /\ IsFiniteSet(results)
  BY FS_EmptySet DEF Init
<1>2. journal \in Journals /\ disk \in Journals
  BY DEF Init, Journals
<1> QED
  BY <1>1, <1>2, LimitsAssumption DEF Init, TypeOK, Time

LEMMA NextType == TypeOK /\ [Next]_vars => TypeOK'
<1> SUFFICES ASSUME TypeOK, [Next]_vars PROVE TypeOK'
  OBVIOUS
<1>1. ASSUME NEW t \in Captured, NEW d \in Devices, NEW kind \in Kinds,
             NEW o \in Owners, NEW k \in Keys \cup {NoKey}, NEW p \in Payloads,
             Submit(d, kind, o, k, p, t)
      PROVE  TypeOK'
  BY <1>1, SubmitType
<1>2. ASSUME NEW t \in Captured, NEW d \in Devices, Device(d, t)
      PROVE  TypeOK'
  <2>1. CASE PollAck(d, t)
    BY <2>1, PollAckType
  <2>2. CASE PollLegacy(d, t)
    BY <2>2, PollLegacyType
  <2>3. ASSUME NEW ids \in SUBSET Knows(d), Ack(d, ids, t) \/ AckFails(d, ids, t)
        PROVE  TypeOK'
    BY <2>3, AckType
  <2>4. ASSUME NEW id \in Knows(d), NEW status \in Statuses,
               NEW valid \in BOOLEAN, BindReply(d, id, status, valid)
        PROVE  TypeOK'
    BY <2>4 DEF BindReply, TypeOK, Knows, Replies, history
  <2> QED
    BY <1>2, <2>1, <2>2, <2>3, <2>4 DEF Device
<1>3. ASSUME NEW t \in Captured, Respond(t)
      PROVE  TypeOK'
  BY <1>3, RespondType DEF Respond
<1>4. ASSUME NEW t \in Captured, ReadOnly(t)
      PROVE  TypeOK'
  BY <1>4, ExpireType DEF ReadOnly, TypeOK, history
<1>5. ASSUME NEW d \in Devices, Revoke(d)
      PROVE  TypeOK'
  BY <1>5, RevokeType
<1>6. CASE Restart
  BY <1>6, RestartType
<1>7. CASE Tick
  BY <1>7 DEF Tick, TypeOK, Time, history
<1>8. CASE UNCHANGED vars
  BY <1>8 DEF vars, TypeOK
<1> QED
  BY <1>1, <1>2, <1>3, <1>4, <1>5, <1>6, <1>7, <1>8 DEF Next

\* Every variable keeps its type, whatever the devices, the credentials and the
\* limits: the queues, results and journal of Server and commandJournal.
THEOREM TypeCorrect == Spec => []TypeOK
BY InitType, NextType, PTL DEF Spec

-----------------------------------------------------------------------------
(* Identity: an id names one accepted entry, and a queue holds only those. *)

Identified ==
    /\ queue \subseteq accepted
    /\ \A e \in accepted : e.id < nextId
    /\ \A e, f \in accepted : e.id = f.id => e = f

\* What a step does to the queue: it only loses entries, or it also gains the
\* one it admits.
QueueShrinks ==
    queue' \subseteq queue /\ accepted' = accepted /\ nextId' \in {nextId, nextId + 1}

QueueGrows ==
    /\ nextId' = nextId + 1
    /\ \E e \in Entries : /\ e.id = nextId
                          /\ queue' \subseteq queue \cup {e}
                          /\ accepted' = accepted \cup {e}

LEMMA QueueStep ==
    ASSUME TypeOK, [Next]_vars
    PROVE  QueueShrinks \/ QueueGrows
<1>1. ASSUME NEW t, NEW gone, UpdateQueue(t, gone, {})
      PROVE  queue' \subseteq queue
  BY <1>1 DEF UpdateQueue, Alive
<1>2. ASSUME NEW t, Expire(t)
      PROVE  queue' \subseteq queue
  BY <1>1, <1>2 DEF Expire
<1>3. ASSUME NEW t \in Captured, NEW d \in Devices, NEW kind \in Kinds,
             NEW o \in Owners, NEW k \in Keys \cup {NoKey}, NEW p \in Payloads,
             Admit(d, kind, o, k, p, t)
      PROVE  QueueGrows
  <2> DEFINE e == NewEntry(d, kind, o, k, t)
  <2>1. t \in Nat /\ nextId \in Ids
    BY <1>3, CapturedType DEF Admit
  <2>3. e \in Entries /\ e.id = nextId
    BY <2>1, NewEntryType DEF NewEntry
  <2>4. queue' \subseteq queue \cup {e}
    BY <1>3 DEF Admit, UpdateQueue, Alive
  <2> QED
    BY <1>3, <2>3, <2>4 DEF Admit, QueueGrows
<1>4. ASSUME NEW t \in Captured, NEW d \in Devices, NEW kind \in Kinds,
             NEW o \in Owners, NEW k \in Keys \cup {NoKey}, NEW p \in Payloads,
             AdmitFails(d, kind, o, k, p, t)
      PROVE  QueueShrinks
  BY <1>2, <1>4 DEF AdmitFails, QueueShrinks, history
<1>5. ASSUME NEW t \in Captured, NEW d \in Devices, Device(d, t)
      PROVE  QueueShrinks
  BY <1>1, <1>2, <1>5 DEF Device, PollAck, PollLegacy, Ack, AckFails, BindReply,
                          QueueShrinks, history
<1>6. ASSUME NEW t \in Captured, NEW r \in replies,
             StoreReply(r, t) \/ StoreReplyFails(r, t) \/ DropReply(r, t)
      PROVE  QueueShrinks
  BY <1>1, <1>2, <1>6 DEF StoreReply, StoreReplyFails, DropReply, QueueShrinks,
                          history
<1>7. ASSUME NEW t \in Captured, ReadOnly(t)
      PROVE  QueueShrinks
  BY <1>2, <1>7 DEF ReadOnly, QueueShrinks, history
<1>8. ASSUME NEW d \in Devices, Revoke(d)
      PROVE  QueueShrinks
  BY <1>8 DEF Revoke, QueueShrinks
<1>9. CASE Restart \/ Tick \/ UNCHANGED vars
  BY <1>9 DEF Restart, Tick, vars, QueueShrinks, history
<1> QED
  BY <1>3, <1>4, <1>5, <1>6, <1>7, <1>8, <1>9 DEF Next, Submit, Respond

LEMMA IdentifiedStep ==
    ASSUME TypeOK, Identified, [Next]_vars
    PROVE  Identified'
<1>1. CASE QueueShrinks
  BY <1>1 DEF QueueShrinks, Identified, TypeOK, Entries, Ids
<1>2. CASE QueueGrows
  <2>1. PICK e \in Entries : /\ e.id = nextId
                             /\ queue' \subseteq queue \cup {e}
                             /\ accepted' = accepted \cup {e}
    BY <1>2 DEF QueueGrows
  <2>2. \A f \in accepted : f.id \in Nat /\ f.id < nextId
    BY DEF Identified, TypeOK, Entries, Ids
  <2>3. nextId' = nextId + 1 /\ nextId \in Nat
    BY <1>2 DEF QueueGrows, TypeOK
  <2>4. queue' \subseteq accepted'
    BY <2>1 DEF Identified
  <2>5. \A f \in accepted' : f.id < nextId'
    BY <2>1, <2>2, <2>3
  <2>6. \A f, g \in accepted' : f.id = g.id => f = g
    BY <2>1, <2>2, <2>3 DEF Identified
  <2> QED
    BY <2>4, <2>5, <2>6 DEF Identified
<1> QED
  BY <1>1, <1>2, QueueStep

LEMMA IdentifiedInvariant == Spec => []Identified
<1>1. Init => Identified
  BY DEF Init, Identified
<1> QED
  BY <1>1, IdentifiedStep, TypeCorrect, PTL DEF Spec

-----------------------------------------------------------------------------
(* The journal outlives the queue                                          *)

\* QueuedIsPending is not inductive: that the row is still there follows from
\* its deadline being no earlier than the entry's, in ticks.
JournalCovers ==
    \A e \in queue : e.key # NoKey =>
        /\ journal[Intent(e)].id = e.id
        /\ journal[Intent(e)].state = "pending"
        /\ e.expires <= 2 * journal[Intent(e)].expiresAt

LEMMA IntentType ==
    ASSUME TypeOK, NEW e \in queue, e.key # NoKey
    PROVE  Intent(e) \in Intents
BY DEF TypeOK, Entries, Intent, Intents

\* An entry that expire(t) keeps has a row that copyRecords(t) keeps.
LEMMA CoveredRowStays ==
    ASSUME TypeOK, JournalCovers, NEW t \in Nat,
           NEW e \in Alive(queue, t), e.key # NoKey
    PROVE  /\ LiveRows(journal, t)[Intent(e)] = journal[Intent(e)]
           /\ journal[Intent(e)] \in Records
<1>1. e \in queue /\ t < e.expires /\ e.id \in Ids /\ e.expires \in Nat
  BY DEF Alive, TypeOK, Entries, Time
<1>2. Intent(e) \in Intents
  BY <1>1, IntentType
<1>3. journal[Intent(e)] \in Records
  BY <1>1, <1>2, NoRecordIsNoRecord DEF JournalCovers, TypeOK, Journals
<1>4. journal[Intent(e)].expiresAt \in Nat
  BY <1>3 DEF Records
<1>5. t < 2 * journal[Intent(e)].expiresAt
  BY <1>1, <1>4 DEF JournalCovers
<1>6. Unix(t) \in Nat /\ 2 * Unix(t) <= t
  BY UnixType
<1>7. journal[Intent(e)].expiresAt > Unix(t)
  BY <1>4, <1>5, <1>6
<1> QED
  BY <1>2, <1>3, <1>7, NoRecordIsNoRecord DEF LiveRows

LEMMA FinishKeepsOthers ==
    ASSUME TypeOK, JournalCovers, NEW t \in Nat, NEW ids, NEW state, NEW status,
           FinishSucceeds(ids, state, status, t),
           NEW e \in Alive(queue, t), e.key # NoKey, e.id \notin ids
    PROVE  journal'[Intent(e)] = journal[Intent(e)]
<1>1. LiveRows(journal, t)[Intent(e)] = journal[Intent(e)]
  BY CoveredRowStays
<1>2. Intent(e) \in Intents /\ journal[Intent(e)].id = e.id
  BY IntentType DEF Alive, JournalCovers
<1>3. Finished(ids, state, status, t)[Intent(e)] = journal[Intent(e)]
  BY <1>1, <1>2 DEF Finished
<1> QED
  BY <1>3 DEF FinishSucceeds

LEMMA BegunKeepsOthers ==
    ASSUME TypeOK, JournalCovers, NEW t \in Nat, NEW d, NEW o, NEW k, NEW p,
           LiveRows(journal, t)[<<o, k>>] = NoRecord,
           NEW e \in Alive(queue, t), e.key # NoKey
    PROVE  Begun(d, o, k, p, t)[Intent(e)] = journal[Intent(e)]
<1>1. /\ LiveRows(journal, t)[Intent(e)] = journal[Intent(e)]
      /\ journal[Intent(e)] # NoRecord
  BY CoveredRowStays, NoRecordIsNoRecord
<1>2. Intent(e) # <<o, k>>
  BY <1>1
<1>3. Intent(e) \in Intents
  BY IntentType DEF Alive
<1> QED
  BY <1>1, <1>2, <1>3 DEF Begun, LiveRows

\* Entries that stay keep their rows, so they stay covered.
LEMMA CoveredIfKept ==
    ASSUME JournalCovers, queue' \subseteq queue,
           \A e \in queue' : e.key # NoKey => journal'[Intent(e)] = journal[Intent(e)]
    PROVE  JournalCovers'
<1>1. \A e : Intent(e)' = Intent(e)
  BY DEF Intent
<1> QED
  BY <1>1 DEF JournalCovers, Intent

LEMMA CoveredAfterExpire ==
    ASSUME JournalCovers, NEW t, Expire(t), journal' = journal
    PROVE  JournalCovers'
BY CoveredIfKept DEF Expire, UpdateQueue, Alive

LEMMA AdmitCovers ==
    ASSUME TypeOK, JournalCovers, NEW t \in Captured, NEW d \in Devices,
           NEW kind \in Kinds, NEW o \in Owners, NEW k \in Keys \cup {NoKey},
           NEW p \in Payloads, Admit(d, kind, o, k, p, t)
    PROVE  JournalCovers'
<1> DEFINE new == NewEntry(d, kind, o, k, t)
<1>1. t \in Nat /\ nextId \in Ids
  BY CapturedType DEF Admit
<1>2. queue' = (Alive(queue, t) \ {}) \cup {new}
  BY DEF Admit, UpdateQueue
<1>3. CASE k = NoKey
  <2>1. journal' = journal /\ new.key = NoKey
    BY <1>3 DEF Admit, NewEntry
  <2> QED
    BY <1>2, <2>1 DEF JournalCovers, Alive, Intent
<1>4. CASE k # NoKey
  <2>1. journal' = Begun(d, o, k, p, t)
    BY <1>4 DEF Admit
  <2>2. LiveRows(journal, t)[<<o, k>>] = NoRecord
    BY <1>4 DEF Admit, Answer
  <2>3. ASSUME NEW e \in Alive(queue, t), e.key # NoKey
        PROVE  journal'[Intent(e)] = journal[Intent(e)]
    BY <1>1, <2>1, <2>2, <2>3, BegunKeepsOthers
  <2>4. /\ journal'[Intent(new)].id = new.id
        /\ journal'[Intent(new)].state = "pending"
        /\ journal'[Intent(new)].expiresAt = CeilUnix(t + Retention)
    <3>1. Intent(new) = <<o, k>> /\ <<o, k>> \in Intents
      BY <1>4 DEF Intent, NewEntry, Intents
    <3> QED
      BY <2>1, <3>1 DEF Begun, LiveRows, NewEntry
  <2>5. new.expires <= 2 * CeilUnix(t + Retention)
    <3>1. t + TTL <= t + Retention /\ t + Retention \in Nat
      BY <1>1, TimesAssumption
    <3>2. t + Retention <= 2 * CeilUnix(t + Retention) /\ CeilUnix(t + Retention) \in Nat
      BY <3>1, UnixType
    <3> QED
      BY <1>1, <3>1, <3>2, TimesAssumption DEF NewEntry
  <2>6. ASSUME NEW e \in queue', e.key # NoKey
        PROVE  /\ journal'[Intent(e)].id = e.id
               /\ journal'[Intent(e)].state = "pending"
               /\ e.expires <= 2 * journal'[Intent(e)].expiresAt
    <3>1. CASE e = new
      BY <2>4, <2>5, <3>1
    <3>2. CASE e \in Alive(queue, t)
      BY <2>3, <2>6, <3>2 DEF JournalCovers, Alive
    <3> QED
      BY <1>2, <3>1, <3>2
  <2> QED
    BY <2>6 DEF JournalCovers, Intent
<1> QED
  BY <1>3, <1>4

LEMMA FinishCovers ==
    ASSUME TypeOK, Identified, JournalCovers, NEW t \in Nat,
           NEW gone \in SUBSET queue, NEW state, NEW status,
           FinishSucceeds(IdsOf(gone), state, status, t), UpdateQueue(t, gone, {})
    PROVE  JournalCovers'
<1>1. queue' = Alive(queue, t) \ gone
  BY DEF UpdateQueue
<1>2. \A e \in queue \ gone : e.id \notin IdsOf(gone)
  BY DEF Identified, IdsOf
<1>3. ASSUME NEW e \in queue', e.key # NoKey
      PROVE  journal'[Intent(e)] = journal[Intent(e)]
  <2>1. e \in Alive(queue, t) /\ e.id \notin IdsOf(gone)
    BY <1>1, <1>2 DEF Alive
  <2> QED
    BY <1>3, <2>1, FinishKeepsOthers
<1> QED
  BY <1>1, <1>3, CoveredIfKept DEF Alive

LEMMA JournalCoversStep ==
    ASSUME TypeOK, Identified, JournalCovers, [Next]_vars
    PROVE  JournalCovers'
<1>1. ASSUME NEW t \in Captured, NEW d \in Devices, NEW kind \in Kinds,
             NEW o \in Owners, NEW k \in Keys \cup {NoKey}, NEW p \in Payloads,
             Submit(d, kind, o, k, p, t)
      PROVE  JournalCovers'
  <2>1. CASE Admit(d, kind, o, k, p, t)
    BY <2>1, AdmitCovers
  <2>2. CASE AdmitFails(d, kind, o, k, p, t)
    BY <2>2, CoveredAfterExpire DEF AdmitFails
  <2> QED
    BY <1>1, <2>1, <2>2 DEF Submit
<1>2. ASSUME NEW t \in Captured, NEW d \in Devices, Device(d, t)
      PROVE  JournalCovers'
  <2>1. CASE PollAck(d, t)
    BY <2>1, CoveredAfterExpire DEF PollAck
  <2>2. CASE PollLegacy(d, t)
    BY <2>2, CoveredIfKept DEF PollLegacy, UpdateQueue, Alive
  <2>3. ASSUME NEW ids, Ack(d, ids, t)
        PROVE  JournalCovers'
    <3>1. Acknowledged(d, ids, t) \in SUBSET queue /\ t \in Nat
      BY CapturedType DEF Acknowledged, QueueOf, Alive
    <3> QED
      BY <2>3, <3>1, FinishCovers DEF Ack
  <2>4. ASSUME NEW ids, AckFails(d, ids, t)
        PROVE  JournalCovers'
    BY <2>4, CoveredAfterExpire DEF AckFails, FinishFails
  <2>5. ASSUME NEW id, NEW status, NEW valid, BindReply(d, id, status, valid)
        PROVE  JournalCovers'
    BY <2>5, CoveredIfKept DEF BindReply
  <2> QED
    BY <1>2, <2>1, <2>2, <2>3, <2>4, <2>5 DEF Device
<1>3. ASSUME NEW t \in Captured, NEW r \in replies,
             StoreReply(r, t) \/ StoreReplyFails(r, t) \/ DropReply(r, t)
      PROVE  JournalCovers'
  <2>1. CASE StoreReply(r, t)
    <3>1. PICK e \in Awaiting(r, t) :
            /\ FinishSucceeds({r.id}, "responded", r.status, t)
            /\ UpdateQueue(t, {e}, {})
      BY <2>1 DEF StoreReply
    <3>2. {e} \in SUBSET queue /\ IdsOf({e}) = {r.id} /\ t \in Nat
      BY CapturedType DEF Awaiting, QueueOf, Alive, IdsOf
    <3> QED
      BY <3>1, <3>2, FinishCovers
  <2>2. CASE StoreReplyFails(r, t) \/ DropReply(r, t)
    BY <2>2, CoveredAfterExpire DEF StoreReplyFails, DropReply, FinishFails
  <2> QED
    BY <1>3, <2>1, <2>2
<1>4. ASSUME NEW t \in Captured, ReadOnly(t)
      PROVE  JournalCovers'
  BY <1>4, CoveredAfterExpire DEF ReadOnly
<1>5. ASSUME NEW d \in Devices, Revoke(d)
      PROVE  JournalCovers'
  BY <1>5, CoveredIfKept DEF Revoke
<1>6. CASE Restart
  BY <1>6 DEF Restart, JournalCovers
<1>7. CASE Tick \/ UNCHANGED vars
  BY <1>7, CoveredIfKept DEF Tick, vars
<1> QED
  BY <1>1, <1>2, <1>3, <1>4, <1>5, <1>6, <1>7 DEF Next, Respond

LEMMA JournalCoversInvariant == Spec => []JournalCovers
<1>1. Init => JournalCovers
  BY DEF Init, JournalCovers
<1> QED
  BY <1>1, JournalCoversStep, TypeCorrect, IdentifiedInvariant, PTL DEF Spec

\* A keyed command can be delivered only while the journal holds its operation
\* as pending: whatever the TTL, the retention and the clock readings of the
\* handlers, begin and finish never prune or settle the row of a queued command.
THEOREM QueuedIsPendingCorrect == Spec => []QueuedIsPending
<1>1. JournalCovers => QueuedIsPending
  BY DEF JournalCovers, QueuedIsPending
<1> QED
  BY <1>1, JournalCoversInvariant, PTL
-----------------------------------------------------------------------------
(* Delivery: what the queue and the retained results hold                  *)

LEMMA SplitCardinality ==
    ASSUME NEW S, IsFiniteSet(S), NEW T \in SUBSET S
    PROVE  /\ IsFiniteSet(T) /\ Cardinality(T) \in Nat
           /\ Cardinality(S \ T) = Cardinality(S) - Cardinality(T)
           /\ Cardinality(S) \in Nat
<1>1. S \cap T = T
  OBVIOUS
<1>2. IsFiniteSet(T)
  BY FS_Subset
<1> QED
  BY <1>1, <1>2, FS_Difference, FS_CardinalityType

LEMMA JoinCardinality ==
    ASSUME NEW S, IsFiniteSet(S), NEW T, IsFiniteSet(T), S \cap T = {}
    PROVE  Cardinality(S \cup T) = Cardinality(S) + Cardinality(T)
<1>1. Cardinality(S \cup T) = Cardinality(S) + Cardinality(T) - Cardinality(S \cap T)
  BY FS_Union
<1>2. Cardinality(S \cap T) = 0
  BY FS_EmptySet
<1>3. Cardinality(S) \in Nat /\ Cardinality(T) \in Nat
  BY FS_CardinalityType
<1> QED
  BY <1>1, <1>2, <1>3

\* What a handler removes and appends is what it pays back and takes.
LEMMA QueueAccounted ==
    ASSUME TypeOK, Accounted, NEW t, NEW gone, NEW new, IsFiniteSet(new),
           new \cap queue = {}, UpdateQueue(t, gone, new)
    PROVE  bytes' = Cardinality(queue')
<1> DEFINE kept == Alive(queue, t) \ gone
<1>1. kept \in SUBSET queue
  BY DEF Alive
<1>2. /\ IsFiniteSet(kept) /\ Cardinality(kept) \in Nat /\ Cardinality(queue) \in Nat
      /\ Cardinality(queue \ kept) = Cardinality(queue) - Cardinality(kept)
  BY <1>1, SplitCardinality DEF TypeOK
<1>3. Cardinality(kept \cup new) = Cardinality(kept) + Cardinality(new)
  BY <1>1, <1>2, JoinCardinality
<1>4. Cardinality(new) \in Nat
  BY FS_CardinalityType
<1>5. /\ queue' = kept \cup new
      /\ bytes' = bytes - Cardinality(queue \ kept) + Cardinality(new)
  BY DEF UpdateQueue
<1>6. bytes = Cardinality(queue)
  BY DEF Accounted
<1> QED
  BY <1>2, <1>3, <1>4, <1>5, <1>6

LEMMA ResultsAccounted ==
    ASSUME TypeOK, Accounted, NEW t, NEW new, IsFiniteSet(new),
           new \cap Unexpired(results, t) = {}, UpdateResults(t, new)
    PROVE  stored' = Cardinality(results')
<1> DEFINE kept == Unexpired(results, t)
<1>1. kept \in SUBSET results
  BY DEF Unexpired
<1>2. /\ IsFiniteSet(kept) /\ Cardinality(kept) \in Nat /\ Cardinality(results) \in Nat
      /\ Cardinality(results \ kept) = Cardinality(results) - Cardinality(kept)
  BY <1>1, SplitCardinality DEF TypeOK
<1>3. Cardinality(kept \cup new) = Cardinality(kept) + Cardinality(new)
  BY <1>2, JoinCardinality
<1>4. Cardinality(new) \in Nat
  BY FS_CardinalityType
<1>5. /\ results' = kept \cup new
      /\ stored' = stored - Cardinality(results \ kept) + Cardinality(new)
  BY DEF UpdateResults
<1>6. stored = Cardinality(results)
  BY DEF Accounted
<1> QED
  BY <1>2, <1>3, <1>4, <1>5, <1>6

LEMMA ExpireAccounted ==
    ASSUME TypeOK, Accounted, NEW t, Expire(t)
    PROVE  Accounted'
<1>1. IsFiniteSet({}) /\ {} \cap queue = {} /\ {} \cap Unexpired(results, t) = {}
  BY FS_EmptySet
<1>2. bytes' = Cardinality(queue')
  BY <1>1, QueueAccounted DEF Expire
<1>3. stored' = Cardinality(results')
  BY <1>1, ResultsAccounted DEF Expire
<1> QED
  BY <1>2, <1>3 DEF Accounted

LEMMA AccountedStep ==
    ASSUME TypeOK, Identified, Accounted, [Next]_vars
    PROVE  Accounted'
<1>1. ASSUME NEW t, NEW gone, NEW new, IsFiniteSet(new), new \cap queue = {},
             UpdateQueue(t, gone, new), UpdateResults(t, {})
      PROVE  Accounted'
  <2>1. {} \cap Unexpired(results, t) = {}
    OBVIOUS
  <2>2. bytes' = Cardinality(queue')
    BY <1>1, QueueAccounted
  <2>3. stored' = Cardinality(results')
    BY <1>1, <2>1, ResultsAccounted, FS_EmptySet
  <2> QED
    BY <2>2, <2>3 DEF Accounted
<1>2. ASSUME NEW t, NEW gone, UpdateQueue(t, gone, {}), UpdateResults(t, {})
      PROVE  Accounted'
  <2>1. {} \cap queue = {}
    OBVIOUS
  <2> QED
    BY <1>1, <1>2, <2>1, FS_EmptySet
<1>3. CASE UNCHANGED <<queue, bytes, results, stored>>
  BY <1>3 DEF Accounted
<1>4. ASSUME NEW t \in Captured, NEW d, NEW kind, NEW o, NEW k, NEW p,
             Submit(d, kind, o, k, p, t)
      PROVE  Accounted'
  <2>1. CASE Admit(d, kind, o, k, p, t)
    <3> DEFINE e == NewEntry(d, kind, o, k, t)
    <3>1. UpdateQueue(t, {}, {e}) /\ UpdateResults(t, {})
      BY <2>1 DEF Admit
    <3>2. e.id = nextId /\ \A f \in queue : f.id < nextId /\ f.id \in Nat
      BY DEF NewEntry, Identified, TypeOK, Entries, Ids
    <3>3. {e} \cap queue = {} /\ IsFiniteSet({e})
      BY <3>2, FS_Singleton
    <3> QED
      BY <1>1, <3>1, <3>3
  <2>2. CASE AdmitFails(d, kind, o, k, p, t)
    BY <2>2, ExpireAccounted DEF AdmitFails
  <2> QED
    BY <1>4, <2>1, <2>2 DEF Submit
<1>5. ASSUME NEW t \in Captured, NEW d \in Devices, Device(d, t)
      PROVE  Accounted'
  <2>1. CASE PollAck(d, t)
    BY <2>1, ExpireAccounted DEF PollAck
  <2>2. CASE PollLegacy(d, t)
    BY <2>2, <1>2 DEF PollLegacy
  <2>3. ASSUME NEW ids, Ack(d, ids, t)
        PROVE  Accounted'
    BY <2>3, <1>2 DEF Ack
  <2>4. ASSUME NEW ids, AckFails(d, ids, t)
        PROVE  Accounted'
    BY <2>4, ExpireAccounted DEF AckFails
  <2>5. ASSUME NEW id, NEW status, NEW valid, BindReply(d, id, status, valid)
        PROVE  Accounted'
    BY <2>5, <1>3 DEF BindReply
  <2> QED
    BY <1>5, <2>1, <2>2, <2>3, <2>4, <2>5 DEF Device
<1>6. ASSUME NEW t \in Captured, NEW r \in replies, StoreReply(r, t)
      PROVE  Accounted'
  <2>1. PICK e \in Awaiting(r, t) :
          /\ UpdateResults(t, {[id |-> r.id, device |-> r.device,
                                owner |-> e.owner, status |-> r.status,
                                valid |-> r.valid, expires |-> t + ResultTTL]})
          /\ UpdateQueue(t, {e}, {})
    BY <1>6 DEF StoreReply
  <2> DEFINE x == [id |-> r.id, device |-> r.device, owner |-> e.owner,
                   status |-> r.status, valid |-> r.valid,
                   expires |-> t + ResultTTL]
  <2>2. \A y \in Unexpired(results, t) : y.device = x.device => y.id # x.id
    BY <1>6 DEF StoreReply, Recorded, ResultsOf
  <2>3. {x} \cap Unexpired(results, t) = {} /\ IsFiniteSet({x})
    BY <2>2, FS_Singleton
  <2>4. {} \cap queue = {}
    OBVIOUS
  <2>5. bytes' = Cardinality(queue')
    BY <2>1, <2>4, QueueAccounted, FS_EmptySet
  <2>6. stored' = Cardinality(results')
    BY <2>1, <2>3, ResultsAccounted
  <2> QED
    BY <2>5, <2>6 DEF Accounted
<1>7. ASSUME NEW t, NEW r, StoreReplyFails(r, t) \/ DropReply(r, t)
      PROVE  Accounted'
  BY <1>7, ExpireAccounted DEF StoreReplyFails, DropReply
<1>8. ASSUME NEW t, ReadOnly(t)
      PROVE  Accounted'
  BY <1>8, ExpireAccounted DEF ReadOnly
<1>9. ASSUME NEW d \in Devices, Revoke(d)
      PROVE  Accounted'
  <2>1. QueueOf(queue, d) \in SUBSET queue /\ ResultsOf(results, d) \in SUBSET results
    BY DEF QueueOf, ResultsOf
  <2>2. Cardinality(queue \ QueueOf(queue, d)) = bytes - Cardinality(QueueOf(queue, d))
    BY <2>1, SplitCardinality DEF TypeOK, Accounted
  <2>3. Cardinality(results \ ResultsOf(results, d))
          = stored - Cardinality(ResultsOf(results, d))
    BY <2>1, SplitCardinality DEF TypeOK, Accounted
  <2> QED
    BY <1>9, <2>2, <2>3 DEF Revoke, Accounted
<1>10. CASE Restart
  BY <1>10, FS_EmptySet DEF Restart, Accounted
<1>11. CASE Tick \/ UNCHANGED vars
  BY <1>3, <1>11 DEF Tick, vars
<1> QED
  BY <1>4, <1>5, <1>6, <1>7, <1>8, <1>9, <1>10, <1>11 DEF Next, Respond
-----------------------------------------------------------------------------
(* Answers: one request, one validated result                              *)

\* A result and a response on its way are those of an accepted request.
AnswersKnown ==
    /\ \A x \in results : x.id < nextId
    /\ \A r \in replies : r.id < nextId

\* A response that was not validated waits for no request.
InvalidUnasked ==
    \A r \in replies, e \in queue :
        ~r.valid /\ e.device = r.device /\ e.kind = "rpc" => e.id # r.id

Answers == AnsweredOnce /\ OnlyValidated /\ AnswersKnown /\ InvalidUnasked

\* What a step does to results and replies, when it stores no result.
ResultsShrink ==
    /\ results' \subseteq results
    /\ \/ replies' \subseteq replies
       \/ \E d \in Devices : \E id \in Knows(d), status \in Statuses, valid \in BOOLEAN :
             queue' = queue /\ nextId' = nextId /\ BindReply(d, id, status, valid)

LEMMA ResultsStep ==
    ASSUME TypeOK, [Next]_vars
    PROVE  ResultsShrink \/ \E t \in Captured, r \in replies : StoreReply(r, t)
<1>1. ASSUME NEW t, UpdateResults(t, {})
      PROVE  results' \subseteq results
  BY <1>1 DEF UpdateResults, Unexpired
<1>2. ASSUME NEW t, Expire(t)
      PROVE  results' \subseteq results
  BY <1>1, <1>2 DEF Expire
<1>3. ASSUME NEW t \in Captured, NEW d, NEW kind, NEW o, NEW k, NEW p,
             Submit(d, kind, o, k, p, t)
      PROVE  ResultsShrink
  BY <1>1, <1>2, <1>3 DEF Submit, Admit, AdmitFails, ResultsShrink
<1>4. ASSUME NEW t \in Captured, NEW d \in Devices, Device(d, t)
      PROVE  ResultsShrink
  <2>1. ASSUME NEW id \in Knows(d), NEW status \in Statuses, NEW valid \in BOOLEAN,
               BindReply(d, id, status, valid)
        PROVE  ResultsShrink
    BY <2>1 DEF BindReply, ResultsShrink
  <2>2. CASE PollAck(d, t) \/ PollLegacy(d, t) \/ \E ids : Ack(d, ids, t) \/ AckFails(d, ids, t)
    BY <1>1, <1>2, <2>2 DEF PollAck, PollLegacy, Ack, AckFails, ResultsShrink
  <2> QED
    BY <1>4, <2>1, <2>2 DEF Device
<1>5. ASSUME NEW t \in Captured, NEW r \in replies,
             StoreReplyFails(r, t) \/ DropReply(r, t)
      PROVE  ResultsShrink
  BY <1>2, <1>5 DEF StoreReplyFails, DropReply, ResultsShrink
<1>6. ASSUME NEW t \in Captured, ReadOnly(t)
      PROVE  ResultsShrink
  BY <1>2, <1>6 DEF ReadOnly, ResultsShrink
<1>7. CASE \E d \in Devices : Revoke(d)
  BY <1>7 DEF Revoke, ResultsShrink
<1>8. CASE Restart \/ Tick \/ UNCHANGED vars
  BY <1>8 DEF Restart, Tick, vars, ResultsShrink
<1> QED
  BY <1>3, <1>4, <1>5, <1>6, <1>7, <1>8 DEF Next, Respond

LEMMA ShrinkKeepsAnswers ==
    ASSUME TypeOK, Identified, Answers, QueueShrinks \/ QueueGrows, ResultsShrink
    PROVE  Answers'
<1>1. nextId \in Nat /\ nextId' \in {nextId, nextId + 1} /\ results' \subseteq results
  BY DEF TypeOK, QueueShrinks, QueueGrows, ResultsShrink
<1>2. \A e \in queue' : e \in queue \/ e.id = nextId
  BY DEF QueueShrinks, QueueGrows
<1>3. (\A x \in results : x.id \in Nat) /\ (\A r \in replies : r.id \in Nat)
  BY DEF TypeOK, Results, Replies, Ids
<1>4. AnsweredOnce' /\ OnlyValidated'
  BY <1>1, <1>2, <1>3 DEF Answers, AnsweredOnce, OnlyValidated, AnswersKnown
<1>5. CASE replies' \subseteq replies
  BY <1>1, <1>2, <1>3, <1>4, <1>5 DEF Answers, AnswersKnown, InvalidUnasked
<1>6. ASSUME NEW d \in Devices, NEW id \in Knows(d), NEW status \in Statuses,
             NEW valid \in BOOLEAN, queue' = queue, nextId' = nextId,
             BindReply(d, id, status, valid)
      PROVE  Answers'
  <2> DEFINE r == [id |-> id, device |-> d, status |-> status, valid |-> valid]
  <2>1. replies' = replies \cup {r}
    BY <1>6 DEF BindReply
  <2>2. id < nextId
    BY <1>6 DEF Knows, Identified
  <2>3. AnswersKnown'
    BY <1>1, <1>6, <2>1, <2>2 DEF Answers, AnswersKnown
  <2>4. ~valid => \A e \in queue : e.device = d /\ e.kind = "rpc" => e.id # id
    BY <1>6 DEF BindReply, Bound, QueueOf
  <2>5. InvalidUnasked'
    BY <1>6, <2>1, <2>4 DEF Answers, InvalidUnasked
  <2> QED
    BY <1>4, <2>3, <2>5 DEF Answers
<1> QED
  BY <1>5, <1>6 DEF ResultsShrink

LEMMA StoreKeepsAnswers ==
    ASSUME TypeOK, Identified, Answers, NEW t \in Captured, NEW r \in replies,
           StoreReply(r, t)
    PROVE  Answers'
<1>1. PICK e \in Awaiting(r, t) :
        /\ UpdateResults(t, {[id |-> r.id, device |-> r.device,
                              owner |-> e.owner, status |-> r.status,
                              valid |-> r.valid, expires |-> t + ResultTTL]})
        /\ UpdateQueue(t, {e}, {})
  BY DEF StoreReply
<1> DEFINE x == [id |-> r.id, device |-> r.device, owner |-> e.owner,
                 status |-> r.status, valid |-> r.valid,
                 expires |-> t + ResultTTL]
<1>2. e \in queue /\ e.id = r.id /\ e.kind = "rpc" /\ e.device = r.device
  BY DEF Awaiting, QueueOf, Alive
<1>3. queue' \subseteq queue \ {e} /\ results' \subseteq results \cup {x}
  BY <1>1 DEF UpdateQueue, UpdateResults, Alive, Unexpired
<1>4. replies' \subseteq replies /\ nextId' = nextId
  BY DEF StoreReply
<1>5. x.id = e.id /\ x.valid = r.valid
  BY <1>2
<1>6. \A y \in results : y.id # x.id
  BY <1>2, <1>5 DEF Answers, AnsweredOnce
<1>7. \A f \in queue' : f.id # x.id
  BY <1>2, <1>3, <1>5 DEF Identified
<1>8. AnsweredOnce'
  BY <1>3, <1>6, <1>7 DEF Answers, AnsweredOnce
<1>9. r.valid
  BY <1>2 DEF Answers, InvalidUnasked
<1>10. OnlyValidated'
  BY <1>3, <1>5, <1>9 DEF Answers, OnlyValidated
<1>11. AnswersKnown'
  BY <1>2, <1>3, <1>4, <1>5 DEF Answers, AnswersKnown, Identified
<1>12. InvalidUnasked'
  BY <1>3, <1>4 DEF Answers, InvalidUnasked
<1> QED
  BY <1>8, <1>10, <1>11, <1>12 DEF Answers

LEMMA AnswersStep ==
    ASSUME TypeOK, Identified, Answers, [Next]_vars
    PROVE  Answers'
BY QueueStep, ResultsStep, ShrinkKeepsAnswers, StoreKeepsAnswers

-----------------------------------------------------------------------------
(* Order: the timestamps of a queue                                        *)

\* No queued command has a timestamp past the last one that was given out.
LastStamped ==
    \A e \in queue : e.kind = "command" =>
        \/ e.ts[1] < lastTS[1]
        \/ e.ts[1] = lastTS[1] /\ e.ts[2] <= lastTS[2]

Stamped == TimestampsOrdered /\ LastStamped

\* A step that gives out no timestamp only loses entries, or all of them.
StampsKept ==
    /\ \A e \in queue' : e \in queue \/ e.kind # "command"
    /\ lastTS' = lastTS \/ queue' = {}

LEMMA StampStep ==
    ASSUME TypeOK, [Next]_vars
    PROVE  \/ StampsKept
           \/ \E t \in Captured, d \in Devices, o \in Owners, k \in Keys \cup {NoKey},
                 p \in Payloads : Admit(d, "command", o, k, p, t)
<1>1. ASSUME NEW t, NEW gone, UpdateQueue(t, gone, {})
      PROVE  queue' \subseteq queue
  BY <1>1 DEF UpdateQueue, Alive
<1>2. ASSUME NEW t, Expire(t)
      PROVE  queue' \subseteq queue
  BY <1>1, <1>2 DEF Expire
<1>3. ASSUME NEW t \in Captured, NEW d \in Devices, NEW kind \in Kinds,
             NEW o \in Owners, NEW k \in Keys \cup {NoKey}, NEW p \in Payloads,
             Admit(d, kind, o, k, p, t), kind # "command"
      PROVE  StampsKept
  BY <1>3 DEF Admit, UpdateQueue, Alive, NewEntry, StampsKept
<1>4. ASSUME NEW t \in Captured, NEW d, NEW kind, NEW o, NEW k, NEW p,
             AdmitFails(d, kind, o, k, p, t)
      PROVE  StampsKept
  BY <1>2, <1>4 DEF AdmitFails, StampsKept
<1>5. ASSUME NEW t \in Captured, NEW d \in Devices, Device(d, t)
      PROVE  StampsKept
  BY <1>1, <1>2, <1>5 DEF Device, PollAck, PollLegacy, Ack, AckFails, BindReply,
                          StampsKept
<1>6. ASSUME NEW t \in Captured, NEW r \in replies,
             StoreReply(r, t) \/ StoreReplyFails(r, t) \/ DropReply(r, t)
      PROVE  StampsKept
  BY <1>1, <1>2, <1>6 DEF StoreReply, StoreReplyFails, DropReply, StampsKept
<1>7. ASSUME NEW t \in Captured, ReadOnly(t)
      PROVE  StampsKept
  BY <1>2, <1>7 DEF ReadOnly, StampsKept
<1>8. CASE \E d \in Devices : Revoke(d)
  BY <1>8 DEF Revoke, StampsKept
<1>9. CASE Restart \/ Tick \/ UNCHANGED vars
  BY <1>9 DEF Restart, Tick, vars, StampsKept
<1> QED
  BY <1>3, <1>4, <1>5, <1>6, <1>7, <1>8, <1>9 DEF Next, Submit, Respond

LEMMA StampedStep ==
    ASSUME TypeOK, Identified, Stamped, [Next]_vars
    PROVE  Stamped'
<1>1. CASE StampsKept
  BY <1>1 DEF StampsKept, Stamped, TimestampsOrdered, LastStamped
<1>2. ASSUME NEW t \in Captured, NEW d \in Devices, NEW o \in Owners,
             NEW k \in Keys \cup {NoKey}, NEW p \in Payloads,
             Admit(d, "command", o, k, p, t)
      PROVE  Stamped'
  <2> DEFINE e == NewEntry(d, "command", o, k, t)
  <2>1. t \in Nat /\ lastTS[1] \in Nat /\ lastTS[2] \in Nat
    BY CapturedType DEF TypeOK, Time
  <2>2. e.id = nextId /\ e.ts = NextTS(t) /\ lastTS' = e.ts
    BY <1>2 DEF Admit, NewEntry
  <2>3. queue' \subseteq queue \cup {e}
    BY <1>2 DEF Admit, UpdateQueue, Alive
  <2>4. /\ e.ts[1] \in Nat /\ e.ts[2] \in Nat
        /\ \/ lastTS[1] < e.ts[1]
           \/ lastTS[1] = e.ts[1] /\ lastTS[2] < e.ts[2]
    BY <2>1, <2>2 DEF NextTS
  <2>5. \A f \in queue : /\ f.id < nextId /\ f.id \in Nat
                         /\ f.ts[1] \in Nat /\ f.ts[2] \in Nat
    BY DEF Identified, TypeOK, Entries, Ids, Time
  <2>6. nextId \in Nat
    BY DEF TypeOK
  <2>7. ASSUME NEW f \in queue, f.kind = "command"
        PROVE  f.ts[1] < e.ts[1] \/ (f.ts[1] = e.ts[1] /\ f.ts[2] < e.ts[2])
    BY <2>1, <2>4, <2>5, <2>7 DEF Stamped, LastStamped
  <2>8. LastStamped'
    BY <2>2, <2>3, <2>4, <2>5, <2>7 DEF LastStamped
  <2>9. TimestampsOrdered'
    <3> SUFFICES ASSUME NEW f \in queue', NEW g \in queue', f.kind = "command",
                        g.kind = "command", f.id < g.id
                 PROVE  f.ts[1] < g.ts[1] \/ (f.ts[1] = g.ts[1] /\ f.ts[2] < g.ts[2])
      BY DEF TimestampsOrdered
    <3>1. CASE f \in queue /\ g \in queue
      BY <3>1 DEF Stamped, TimestampsOrdered
    <3>2. CASE f \in queue /\ g = e
      BY <2>7, <3>2
    <3>3. CASE f = e
      BY <2>2, <2>3, <2>5, <2>6, <3>3
    <3> QED
      BY <2>3, <3>1, <3>2, <3>3
  <2> QED
    BY <2>8, <2>9 DEF Stamped
<1> QED
  BY <1>1, <1>2, StampStep

-----------------------------------------------------------------------------
(* Loss: why an entry leaves its queue                                     *)

LEMMA LeavesStep ==
    ASSUME TypeOK, [Next]_vars, NEW e \in queue \ queue'
    PROVE  \/ e.expires <= clock
           \/ e.kind = "command" /\ e.id \in delivered'
           \/ e.kind = "rpc" /\ \E x \in results' : x.id = e.id
           \/ e.id \in voided'
<1> DEFINE Late == e.expires <= clock
<1>1. e.expires \in Nat /\ clock \in Nat
  BY DEF TypeOK, Entries, Time
<1>2. ASSUME NEW t \in Captured, NEW gone, NEW new, UpdateQueue(t, gone, new)
      PROVE  Late \/ e \in gone
  BY <1>1, <1>2, CapturedType DEF UpdateQueue, Alive
<1>3. ASSUME NEW t \in Captured, Expire(t)
      PROVE  Late
  BY <1>2, <1>3 DEF Expire
<1>4. ASSUME NEW t \in Captured, NEW d, NEW kind, NEW o, NEW k, NEW p,
             Submit(d, kind, o, k, p, t)
      PROVE  Late
  BY <1>2, <1>3, <1>4 DEF Submit, Admit, AdmitFails
<1>5. ASSUME NEW t \in Captured, NEW d \in Devices, Device(d, t)
      PROVE  Late \/ (e.kind = "command" /\ e.id \in delivered')
  <2>1. CASE PollAck(d, t)
    BY <1>3, <2>1 DEF PollAck
  <2>2. CASE PollLegacy(d, t)
    BY <1>2, <2>2 DEF PollLegacy
  <2>3. ASSUME NEW ids \in SUBSET Knows(d), Ack(d, ids, t)
        PROVE  Late \/ (e.kind = "command" /\ e.id \in delivered')
    <3>1. Late \/ e \in Acknowledged(d, ids, t)
      BY <1>2, <2>3 DEF Ack
    <3>2. delivered' = delivered
      BY <2>3 DEF Ack, history
    <3> QED
      BY <3>1, <3>2 DEF Acknowledged, Knows
  <2>4. ASSUME NEW ids, AckFails(d, ids, t)
        PROVE  Late
    BY <1>3, <2>4 DEF AckFails
  <2>5. ASSUME NEW id, NEW status, NEW valid, BindReply(d, id, status, valid)
        PROVE  FALSE
    BY <2>5 DEF BindReply
  <2> QED
    BY <1>5, <2>1, <2>2, <2>3, <2>4, <2>5 DEF Device
<1>6. ASSUME NEW t \in Captured, NEW r \in replies, StoreReply(r, t)
      PROVE  Late \/ (e.kind = "rpc" /\ \E x \in results' : x.id = e.id)
  <2>1. PICK f \in Awaiting(r, t) :
          /\ UpdateResults(t, {[id |-> r.id, device |-> r.device,
                                owner |-> f.owner, status |-> r.status,
                                valid |-> r.valid, expires |-> t + ResultTTL]})
          /\ UpdateQueue(t, {f}, {})
    BY <1>6 DEF StoreReply
  <2>2. Late \/ e = f
    BY <1>2, <2>1
  <2>3. f.kind = "rpc" /\ f.id = r.id
    BY DEF Awaiting
  <2>4. \E x \in results' : x.id = r.id
    <3> DEFINE y == [id |-> r.id, device |-> r.device, owner |-> f.owner,
                     status |-> r.status, valid |-> r.valid,
                     expires |-> t + ResultTTL]
    <3>1. y \in results'
      BY <2>1 DEF UpdateResults
    <3>2. y.id = r.id
      OBVIOUS
    <3> QED
      BY <3>1, <3>2
  <2> QED
    BY <2>2, <2>3, <2>4
<1>7. ASSUME NEW t \in Captured, NEW r, StoreReplyFails(r, t) \/ DropReply(r, t)
      PROVE  Late
  BY <1>3, <1>7 DEF StoreReplyFails, DropReply
<1>8. ASSUME NEW t \in Captured, ReadOnly(t)
      PROVE  Late
  BY <1>3, <1>8 DEF ReadOnly
<1>9. CASE (\E d \in Devices : Revoke(d)) \/ Restart
  BY <1>9 DEF Revoke, Restart, IdsOf
<1>10. CASE Tick \/ UNCHANGED vars
  BY <1>10 DEF Tick, vars
<1> QED
  BY <1>4, <1>5, <1>6, <1>7, <1>8, <1>9, <1>10 DEF Next, Respond

LEMMA AccountedInvariant == Spec => []Accounted
<1>1. Init => Accounted
  BY FS_EmptySet DEF Init, Accounted
<1> QED
  BY <1>1, AccountedStep, TypeCorrect, IdentifiedInvariant, PTL DEF Spec

LEMMA AnswersInvariant == Spec => []Answers
<1>1. Init => Answers
  BY DEF Init, Answers, AnsweredOnce, OnlyValidated, AnswersKnown, InvalidUnasked
<1> QED
  BY <1>1, AnswersStep, TypeCorrect, IdentifiedInvariant, PTL DEF Spec

LEMMA StampedInvariant == Spec => []Stamped
<1>1. Init => Stamped
  BY DEF Init, Stamped, TimestampsOrdered, LastStamped
<1> QED
  BY <1>1, StampedStep, TypeCorrect, IdentifiedInvariant, PTL DEF Spec

\* Whatever the limits, the delivery modes and the order of the handlers: every
\* byte of queues and results is paid back, a request has one validated result,
\* commands keep their order, and none leaves a queue without a reason.
THEOREM SafeDeliveryCorrect == Spec => SafeDelivery
<1>1. TypeOK /\ [Next]_vars =>
        [\A e \in queue \ queue' :
           \/ e.expires <= clock
           \/ e.kind = "command" /\ e.id \in delivered'
           \/ e.kind = "rpc" /\ \E x \in results' : x.id = e.id
           \/ e.id \in voided']_vars
  BY LeavesStep
<1>2. Answers => AnsweredOnce /\ OnlyValidated
  BY DEF Answers
<1>3. Stamped => TimestampsOrdered
  BY DEF Stamped
<1> QED
  BY <1>1, <1>2, <1>3, TypeCorrect, AccountedInvariant, AnswersInvariant,
     StampedInvariant, PTL DEF Spec, SafeDelivery, LeavesForAReason

-----------------------------------------------------------------------------
(* The kinds of step, as far as the journal is concerned                   *)

Outcomes == {"acknowledged", "responded"}

Admission ==
    \E t \in Captured, d \in Devices, kind \in Kinds, o \in Owners,
       k \in Keys \cup {NoKey}, p \in Payloads : Admit(d, kind, o, k, p, t)

FailedAdmission ==
    \E t \in Captured, d \in Devices, kind \in Kinds, o \in Owners,
       k \in Keys \cup {NoKey}, p \in Payloads : AdmitFails(d, kind, o, k, p, t)

\* A batch is closed with its outcome, and with the results retained for it.
Settles(t, gone, state, status, new) ==
    /\ FinishSucceeds(IdsOf(gone), state, status, t)
    /\ UpdateQueue(t, gone, {})
    /\ UpdateResults(t, new)
    /\ \A x \in new : x.id \in IdsOf(gone) /\ state = "responded" /\ x.status = status
    /\ UNCHANGED <<clock, nextId, accepted>>

Settling ==
    \E t \in Captured : \E gone \in SUBSET Alive(queue, t), state \in Outcomes,
        status \in Statuses \cup {NoStatus}, new \in SUBSET Results :
            Settles(t, gone, state, status, new)

FailedSettling ==
    \E t \in Captured : \E gone \in SUBSET Alive(queue, t), state \in Outcomes,
        status \in Statuses \cup {NoStatus} :
            /\ FinishFails(IdsOf(gone), state, status, t)
            /\ Expire(t)
            /\ UNCHANGED <<clock, nextId, accepted>>

\* Entries and results may go; nothing else that the journal is about changes.
Quiet ==
    /\ queue' \subseteq queue /\ results' \subseteq results
    /\ clock' \in {clock, clock + 1}
    /\ UNCHANGED <<nextId, journal, disk, accepted>>

LEMMA KindOfStep ==
    ASSUME TypeOK, [Next]_vars
    PROVE  \/ Admission \/ FailedAdmission \/ Settling \/ FailedSettling
           \/ Restart \/ Quiet
<1>1. ASSUME NEW t, NEW gone, UpdateQueue(t, gone, {})
      PROVE  queue' \subseteq queue
  BY <1>1 DEF UpdateQueue, Alive
<1>2. ASSUME NEW t, UpdateResults(t, {})
      PROVE  results' \subseteq results
  BY <1>2 DEF UpdateResults, Unexpired
<1>3. ASSUME NEW t, Expire(t)
      PROVE  queue' \subseteq queue /\ results' \subseteq results
  BY <1>1, <1>2, <1>3 DEF Expire
<1>4. ASSUME NEW t \in Captured, NEW d \in Devices, Device(d, t)
      PROVE  Settling \/ FailedSettling \/ Quiet
  <2>1. CASE PollAck(d, t)
    BY <1>3, <2>1 DEF PollAck, Quiet
  <2>2. CASE PollLegacy(d, t)
    BY <1>1, <1>2, <2>2 DEF PollLegacy, Quiet
  <2>3. ASSUME NEW ids, Ack(d, ids, t)
        PROVE  Settling
    <3> DEFINE gone == Acknowledged(d, ids, t)
    <3>1. gone \in SUBSET Alive(queue, t)
      BY DEF Acknowledged, QueueOf
    <3>2. {} \in SUBSET Results /\ "acknowledged" \in Outcomes
      BY DEF Outcomes
    <3>3. Settles(t, gone, "acknowledged", NoStatus, {})
      BY <2>3 DEF Ack, Settles, history
    <3> QED
      BY <3>1, <3>2, <3>3 DEF Settling
  <2>4. ASSUME NEW ids, AckFails(d, ids, t)
        PROVE  FailedSettling
    <3> DEFINE gone == Acknowledged(d, ids, t)
    <3>1. gone \in SUBSET Alive(queue, t) /\ "acknowledged" \in Outcomes
      BY DEF Acknowledged, QueueOf, Outcomes
    <3>2. /\ FinishFails(IdsOf(gone), "acknowledged", NoStatus, t)
          /\ Expire(t)
          /\ UNCHANGED <<clock, nextId, accepted>>
      BY <2>4 DEF AckFails, history
    <3> QED
      BY <3>1, <3>2 DEF FailedSettling
  <2>5. ASSUME NEW id, NEW status, NEW valid, BindReply(d, id, status, valid)
        PROVE  Quiet
    BY <2>5 DEF BindReply, Quiet, history
  <2> QED
    BY <1>4, <2>1, <2>2, <2>3, <2>4, <2>5 DEF Device
<1>5. ASSUME NEW t \in Captured, NEW r \in replies, StoreReply(r, t)
      PROVE  Settling
  <2>1. PICK e \in Awaiting(r, t) :
          /\ FinishSucceeds({r.id}, "responded", r.status, t)
          /\ UpdateResults(t, {[id |-> r.id, device |-> r.device,
                                owner |-> e.owner, status |-> r.status,
                                valid |-> r.valid, expires |-> t + ResultTTL]})
          /\ UpdateQueue(t, {e}, {})
    BY <1>5 DEF StoreReply
  <2> DEFINE x == [id |-> r.id, device |-> r.device, owner |-> e.owner,
                   status |-> r.status, valid |-> r.valid,
                   expires |-> t + ResultTTL]
  <2>2. e \in Alive(queue, t) /\ e.id = r.id /\ e \in Entries
    BY DEF Awaiting, QueueOf, Alive, TypeOK
  <2>3. IdsOf({e}) = {r.id} /\ {e} \in SUBSET Alive(queue, t)
    BY <2>2 DEF IdsOf
  <2>4. r \in Replies /\ t \in Nat
    BY CapturedType DEF TypeOK
  <2>5. {x} \in SUBSET Results /\ x.status = r.status /\ x.id = r.id
    BY <2>2, <2>4, TimesAssumption DEF Results, Replies, Entries, Time
  <2>6. Settles(t, {e}, "responded", r.status, {x})
    BY <1>5, <2>1, <2>3, <2>5 DEF Settles, StoreReply, history
  <2>7. r.status \in Statuses /\ "responded" \in Outcomes
    BY <2>4 DEF Replies, Outcomes
  <2> QED
    BY <2>3, <2>5, <2>6, <2>7 DEF Settling
<1>6. ASSUME NEW t \in Captured, NEW r \in replies, StoreReplyFails(r, t)
      PROVE  FailedSettling
  <2>1. PICK e : e \in Awaiting(r, t)
    BY <1>6 DEF StoreReplyFails
  <2>2. e \in Alive(queue, t) /\ e.id = r.id
    BY <2>1 DEF Awaiting, QueueOf
  <2>3. IdsOf({e}) = {r.id} /\ {e} \in SUBSET Alive(queue, t)
    BY <2>2 DEF IdsOf
  <2>4. r.status \in Statuses /\ "responded" \in Outcomes
    BY DEF TypeOK, Replies, Outcomes
  <2>5. /\ FinishFails(IdsOf({e}), "responded", r.status, t)
        /\ Expire(t)
        /\ UNCHANGED <<clock, nextId, accepted>>
    BY <1>6, <2>3 DEF StoreReplyFails, history
  <2> QED
    BY <2>3, <2>4, <2>5 DEF FailedSettling
<1>7. ASSUME NEW t \in Captured, NEW r, DropReply(r, t)
      PROVE  Quiet
  BY <1>3, <1>7 DEF DropReply, Quiet, history
<1>8. ASSUME NEW t \in Captured, ReadOnly(t)
      PROVE  Quiet
  BY <1>3, <1>8 DEF ReadOnly, Quiet, history
<1>9. ASSUME NEW d \in Devices, Revoke(d)
      PROVE  Quiet
  BY <1>9 DEF Revoke, Quiet
<1>10. CASE Tick \/ UNCHANGED vars
  BY <1>10 DEF Tick, vars, Quiet, history
<1> QED
  BY <1>4, <1>5, <1>6, <1>7, <1>8, <1>9, <1>10
     DEF Next, Submit, Respond, Admission, FailedAdmission
-----------------------------------------------------------------------------
(* Rows                                                                    *)

LEMMA UnixMonotone ==
    ASSUME NEW t \in Nat, NEW u \in Nat, t <= u
    PROVE  Unix(t) <= Unix(u)
BY UnixType

LEMMA LiveRow ==
    ASSUME NEW rows \in Journals, NEW t, NEW i \in Intents
    PROVE  \/ /\ LiveRows(rows, t)[i] = rows[i] /\ rows[i] \in Records
              /\ rows[i] # NoRecord /\ rows[i].expiresAt > Unix(t)
           \/ /\ LiveRows(rows, t)[i] = NoRecord
              /\ rows[i] = NoRecord \/ ~(rows[i].expiresAt > Unix(t))
BY NoRecordIsNoRecord DEF LiveRows, Journals

\* finish changes the state and the status of a row, and nothing else.
LEMMA FinishedRow ==
    ASSUME TypeOK, NEW t, NEW ids \in SUBSET Ids, NEW state, NEW status,
           NEW i \in Intents
    PROVE  LET v == LiveRows(journal, t)[i]
               w == Finished(ids, state, status, t)[i]
           IN  /\ w.id = v.id
               /\ w = NoRecord <=> v = NoRecord
               /\ v # NoRecord => w.expiresAt = v.expiresAt
               /\ v.id \in ids => v # NoRecord /\ w.state = state /\ w.status = status
               /\ v.id \notin ids => w = v
<1> DEFINE v == LiveRows(journal, t)[i]
           w == Finished(ids, state, status, t)[i]
<1>1. w = IF v.id \in ids THEN [v EXCEPT !.state = state, !.status = status] ELSE v
  BY DEF Finished
<1>2. v \in Records \cup {NoRecord}
  BY LiveRowsType DEF TypeOK, Journals
<1>3. CASE v.id \in ids
  <2>1. v \in Records
    BY <1>2, <1>3, NoRecordIsNoRecord
  <2>2. w.id = v.id /\ w.expiresAt = v.expiresAt /\ w.state = state /\ w.status = status
    BY <1>1, <1>3, <2>1 DEF Records
  <2>3. w # NoRecord /\ v # NoRecord
    BY <1>3, <2>2, NoRecordIsNoRecord
  <2> QED
    BY <1>3, <2>2, <2>3
<1>4. CASE v.id \notin ids
  BY <1>1, <1>4
<1> QED
  BY <1>3, <1>4

\* begin adds one row, as pending, and keeps the others that are live.
LEMMA BegunRow ==
    ASSUME TypeOK, NEW t \in Nat, NEW d, NEW o \in Owners, NEW k \in Keys, NEW p,
           nextId \in Ids
    PROVE  LET rows == Begun(d, o, k, p, t)
           IN  /\ <<o, k>> \in Intents
               /\ rows[<<o, k>>] # NoRecord
               /\ rows[<<o, k>>].id = nextId
               /\ rows[<<o, k>>].state = "pending"
               /\ rows[<<o, k>>].expiresAt = CeilUnix(t + Retention)
<1> DEFINE row == [id |-> nextId, device |-> d, payload |-> p, state |-> "pending",
                   status |-> NoStatus, expiresAt |-> CeilUnix(t + Retention),
                   commandExpiresAt |-> CeilUnix(t + TTL)]
<1>1. <<o, k>> \in Intents
  BY DEF Intents
<1>2. Begun(d, o, k, p, t)[<<o, k>>] = row
  BY <1>1 DEF Begun, LiveRows
<1>3. row # NoRecord
  BY NoRecordIsNoRecord
<1> QED
  BY <1>1, <1>2, <1>3

LEMMA BegunOthers ==
    ASSUME NEW t, NEW d, NEW o, NEW k, NEW p, NEW i \in Intents, i # <<o, k>>
    PROVE  Begun(d, o, k, p, t)[i] = LiveRows(journal, t)[i]
BY DEF Begun, LiveRows

\* What an admission under a key knows: nothing live is on record for it.
LEMMA AdmittedKey ==
    ASSUME NEW d, NEW kind, NEW o, NEW k, NEW p, NEW t,
           Answer(d, kind, o, k, p, t) = "admitted", k # NoKey
    PROVE  /\ LiveRows(journal, t)[<<o, k>>] = NoRecord
           /\ ~(Cardinality(Used(LiveRows(journal, t))) >= MaxRecords)
BY DEF Answer

LEMMA BatchIds ==
    ASSUME TypeOK, NEW t, NEW gone \in SUBSET Alive(queue, t)
    PROVE  gone \in SUBSET queue /\ IdsOf(gone) \in SUBSET Ids
BY AliveIds DEF Alive

\* A start keeps the live rows of the file and closes the pending ones.
LEMMA RecoveredRow ==
    ASSUME TypeOK, NEW i \in Intents
    PROVE  LET v == LiveRows(disk, clock)[i]
               w == Recovered[i]
           IN  /\ w.id = v.id
               /\ w = NoRecord <=> v = NoRecord
               /\ v # NoRecord => /\ w.expiresAt = v.expiresAt
                                  /\ w.state = IF v.state = "pending" THEN "unknown"
                                                                      ELSE v.state
                                  /\ w \in Records
<1> DEFINE v == LiveRows(disk, clock)[i]
           w == Recovered[i]
<1>1. w = IF v # NoRecord /\ v.state = "pending" THEN [v EXCEPT !.state = "unknown"] ELSE v
  BY DEF Recovered
<1>2. v \in Records \cup {NoRecord}
  BY LiveRowsType DEF TypeOK, Journals
<1>3. CASE v # NoRecord /\ v.state = "pending"
  <2>1. v \in Records
    BY <1>2, <1>3
  <2>2. /\ w.id = v.id /\ w.expiresAt = v.expiresAt /\ w.state = "unknown"
        /\ w \in Records
    BY <1>1, <1>3, <2>1 DEF Records, States
  <2>3. w # NoRecord
    BY <2>2, NoRecordIsNoRecord
  <2> QED
    BY <1>3, <2>2, <2>3
<1>4. CASE ~(v # NoRecord /\ v.state = "pending")
  BY <1>1, <1>2, <1>4
<1> QED
  BY <1>3, <1>4

-----------------------------------------------------------------------------
(* Names: a row in memory or on file belongs to one intent                 *)

\* The id of a row is used up, and if it is an accepted entry's, that entry was
\* submitted under the row's intent.
RowsNamed(rows, entries, next) ==
    \A i \in Intents : rows[i] # NoRecord =>
        /\ rows[i].id < next
        /\ \A a \in entries : a.id = rows[i].id => a.key # NoKey /\ Intent(a) = i

Named == RowsNamed(journal, accepted, nextId) /\ RowsNamed(disk, accepted, nextId)

\* Rows that come from named rows are named, if what is new has a new id.
LEMMA NamedDescends ==
    ASSUME TypeOK, NEW rows \in Journals, RowsNamed(rows, accepted, nextId), NEW new,
           \A i \in Intents : new[i] # NoRecord => rows[i] # NoRecord /\ new[i].id = rows[i].id,
           nextId' \in {nextId, nextId + 1},
           \A a \in accepted' : a \in accepted \/ a.id = nextId
    PROVE  RowsNamed(new, accepted', nextId')
<1>1. nextId \in Nat /\ \A i \in Intents : rows[i] # NoRecord => rows[i].id \in Nat
  BY DEF TypeOK, Journals, Records, Ids
<1> QED
  BY <1>1 DEF RowsNamed

LEMMA BegunNamed ==
    ASSUME TypeOK, Identified, Named, NEW t \in Nat, NEW d, NEW o \in Owners,
           NEW k \in Keys, NEW p, nextId \in Ids, nextId' = nextId + 1,
           \A a \in accepted' : a \in accepted \/ (a.id = nextId /\ Intent(a) = <<o, k>> /\ a.key # NoKey)
    PROVE  RowsNamed(Begun(d, o, k, p, t), accepted', nextId')
<1> DEFINE new == Begun(d, o, k, p, t)
<1>1. /\ new[<<o, k>>].id = nextId
      /\ \A i \in Intents : i # <<o, k>> => new[i] = LiveRows(journal, t)[i]
  BY BegunRow, BegunOthers
<1>2. nextId \in Nat /\ (\A a \in accepted : a.id < nextId) /\ journal \in Journals
  BY DEF TypeOK, Identified
<1>3. ASSUME NEW i \in Intents, i # <<o, k>>, new[i] # NoRecord
      PROVE  /\ new[i].id < nextId'
             /\ \A a \in accepted' : a.id = new[i].id => a.key # NoKey /\ Intent(a) = i
  <2>1. new[i] = journal[i] /\ journal[i] # NoRecord /\ journal[i] \in Records
    BY <1>1, <1>2, <1>3, LiveRow
  <2>2. journal[i].id \in Nat /\ journal[i].id < nextId
    BY <2>1 DEF Records, Ids, Named, RowsNamed
  <2>3. \A a \in accepted : a.id = journal[i].id => a.key # NoKey /\ Intent(a) = i
    BY <2>1 DEF Named, RowsNamed
  <2> QED
    BY <1>2, <2>1, <2>2, <2>3
<1>4. /\ new[<<o, k>>].id < nextId'
      /\ \A a \in accepted' : a.id = nextId => a.key # NoKey /\ Intent(a) = <<o, k>>
  BY <1>1, <1>2 DEF TypeOK, Entries, Ids
<1> QED
  BY <1>1, <1>3, <1>4 DEF RowsNamed

LEMMA NamedStep ==
    ASSUME TypeOK, Identified, Named, [Next]_vars
    PROVE  Named'
<1> USE DEF Named
<1>1. journal \in Journals /\ disk \in Journals
  BY DEF TypeOK
<1>2. ASSUME NEW t, NEW ids \in SUBSET Ids, NEW state, NEW status,
             nextId' \in {nextId, nextId + 1}, accepted' = accepted
      PROVE  RowsNamed(Finished(ids, state, status, t), accepted', nextId')
  <2> DEFINE new == Finished(ids, state, status, t)
  <2>1. ASSUME NEW i \in Intents, new[i] # NoRecord
        PROVE  journal[i] # NoRecord /\ new[i].id = journal[i].id
    <3>1. /\ LiveRows(journal, t)[i] # NoRecord
          /\ new[i].id = LiveRows(journal, t)[i].id
      BY <2>1, FinishedRow
    <3> QED
      BY <1>1, <3>1, LiveRow
  <2>2. \A a \in accepted' : a \in accepted \/ a.id = nextId
    BY <1>2
  <2> QED
    BY <1>1, <1>2, <2>1, <2>2, NamedDescends
<1>3. ASSUME NEW rows \in {journal, disk}, nextId' \in {nextId, nextId + 1},
             \A a \in accepted' : a \in accepted \/ a.id = nextId
      PROVE  RowsNamed(rows, accepted', nextId')
  BY <1>1, <1>3, NamedDescends
<1>4. ASSUME NEW t \in Captured, NEW d \in Devices, NEW kind \in Kinds,
             NEW o \in Owners, NEW k \in Keys \cup {NoKey}, NEW p \in Payloads,
             Admit(d, kind, o, k, p, t)
      PROVE  Named'
  <2> DEFINE e == NewEntry(d, kind, o, k, t)
  <2>1. /\ t \in Nat /\ nextId \in Ids /\ nextId' = nextId + 1
        /\ accepted' = accepted \cup {e}
        /\ e.id = nextId /\ Intent(e) = <<o, k>> /\ e.key = k
    BY <1>4, CapturedType DEF Admit, NewEntry, Intent
  <2>2. CASE k = NoKey
    <3>1. UNCHANGED <<journal, disk>>
      BY <1>4, <2>2 DEF Admit
    <3> QED
      BY <1>3, <2>1, <3>1
  <2>3. CASE k # NoKey
    <3>1. journal' = Begun(d, o, k, p, t) /\ disk' = Begun(d, o, k, p, t)
      BY <1>4, <2>3 DEF Admit, SaveSucceeds
    <3>2. RowsNamed(Begun(d, o, k, p, t), accepted', nextId')
      BY <2>1, <2>3, BegunNamed
    <3> QED
      BY <3>1, <3>2
  <2> QED
    BY <2>2, <2>3
<1>5. ASSUME NEW t \in Captured, NEW d \in Devices, NEW kind \in Kinds,
             NEW o \in Owners, NEW k \in Keys \cup {NoKey}, NEW p \in Payloads,
             AdmitFails(d, kind, o, k, p, t)
      PROVE  Named'
  <2>1. /\ t \in Nat /\ nextId \in Ids /\ nextId' = nextId + 1 /\ k \in Keys
        /\ accepted' = accepted /\ journal' = journal
        /\ disk' \in {disk, Begun(d, o, k, p, t)}
    BY <1>5, CapturedType DEF AdmitFails, SaveFails, history
  <2>2. RowsNamed(Begun(d, o, k, p, t), accepted', nextId')
    BY <2>1, BegunNamed
  <2> QED
    BY <1>3, <2>1, <2>2
<1>6. CASE Settling
  <2>1. PICK t \in Captured : \E gone \in SUBSET Alive(queue, t), state \in Outcomes,
                status \in Statuses \cup {NoStatus}, new \in SUBSET Results :
                    Settles(t, gone, state, status, new)
    BY <1>6 DEF Settling
  <2>2. PICK gone \in SUBSET Alive(queue, t), state \in Outcomes,
             status \in Statuses \cup {NoStatus}, new \in SUBSET Results :
                Settles(t, gone, state, status, new)
    BY <2>1
  <2>3. IdsOf(gone) \in SUBSET Ids
    BY BatchIds
  <2>4. nextId' = nextId /\ accepted' = accepted
    BY <2>2 DEF Settles
  <2>5. RowsNamed(Finished(IdsOf(gone), state, status, t), accepted', nextId')
    BY <1>2, <2>3, <2>4
  <2>6. \/ journal' = journal /\ disk' = disk
        \/ /\ journal' = Finished(IdsOf(gone), state, status, t)
           /\ disk' = Finished(IdsOf(gone), state, status, t)
    BY <2>2 DEF Settles, FinishSucceeds, SaveSucceeds
  <2> QED
    BY <1>3, <2>4, <2>5, <2>6
<1>7. CASE FailedSettling
  <2>1. PICK t \in Captured : \E gone \in SUBSET Alive(queue, t), state \in Outcomes,
                status \in Statuses \cup {NoStatus} :
                    /\ FinishFails(IdsOf(gone), state, status, t)
                    /\ UNCHANGED <<clock, nextId, accepted>>
    BY <1>7 DEF FailedSettling
  <2>2. PICK gone \in SUBSET Alive(queue, t), state \in Outcomes,
             status \in Statuses \cup {NoStatus} :
                /\ FinishFails(IdsOf(gone), state, status, t)
                /\ UNCHANGED <<clock, nextId, accepted>>
    BY <2>1
  <2>3. RowsNamed(Finished(IdsOf(gone), state, status, t), accepted', nextId')
    BY <1>2, <2>2, BatchIds
  <2>4. journal' = journal /\ disk' \in {disk, Finished(IdsOf(gone), state, status, t)}
    BY <2>2 DEF FinishFails, SaveFails
  <2> QED
    BY <1>3, <2>2, <2>3, <2>4
<1>8. CASE Restart
  <2>1. \A i \in Intents : Recovered[i] # NoRecord =>
          disk[i] # NoRecord /\ Recovered[i].id = disk[i].id
    BY <1>1, RecoveredRow, LiveRow
  <2>2. /\ nextId' = nextId /\ accepted' = accepted
        /\ journal' = Recovered /\ disk' = Recovered
    BY <1>8 DEF Restart, SaveSucceeds
  <2> HIDE DEF Recovered
  <2> QED
    BY <1>1, <2>1, <2>2, NamedDescends
<1>9. CASE Quiet
  BY <1>3, <1>9 DEF Quiet
<1> QED
  BY <1>4, <1>5, <1>6, <1>7, <1>8, <1>9, KindOfStep DEF Admission, FailedAdmission

LEMMA NamedInvariant == Spec => []Named
<1>1. Init => Named
  BY DEF Init, Named, RowsNamed
<1> QED
  BY <1>1, NamedStep, TypeCorrect, IdentifiedInvariant, PTL DEF Spec
-----------------------------------------------------------------------------
(* Memory and file                                                         *)

\* What is retained in memory is on file, whatever saves have failed.
DiskAgrees ==
    \A i \in Intents : journal[i] # NoRecord /\ journal[i].expiresAt > Unix(clock) =>
        /\ disk[i] # NoRecord
        /\ disk[i].id = journal[i].id
        /\ disk[i].expiresAt = journal[i].expiresAt

\* What is on file was in memory, or is the operation of a failed admission; the
\* file may be ahead by an outcome.
DiskStory ==
    \A i \in Intents : disk[i] # NoRecord =>
        \/ /\ journal[i] # NoRecord
           /\ disk[i].id = journal[i].id
           /\ journal[i].state \in {disk[i].state, "pending"}
        \/ /\ disk[i].state = "pending"
           /\ \A a \in accepted : a.id # disk[i].id

\* A row that is retained now was retained when a handler read the clock.
LEMMA RetainedRow ==
    ASSUME TypeOK, NEW t \in Captured, NEW i \in Intents,
           journal[i] # NoRecord, journal[i].expiresAt > Unix(clock)
    PROVE  LiveRows(journal, t)[i] = journal[i]
<1>1. journal[i] \in Records /\ t \in Nat /\ clock \in Nat /\ t <= clock
  BY CapturedType DEF TypeOK, Journals, Time
<1>2. journal[i].expiresAt \in Nat
  BY <1>1 DEF Records
<1>3. Unix(t) <= Unix(clock) /\ Unix(t) \in Nat /\ Unix(clock) \in Nat
  BY <1>1, UnixMonotone, UnixType
<1>4. journal[i].expiresAt > Unix(t)
  BY <1>2, <1>3
<1> QED
  BY <1>4 DEF LiveRows

\* A row is replaced or dropped only after its retention.
LEMMA RetainedRowStays ==
    ASSUME TypeOK, DiskAgrees, [Next]_vars, NEW i \in Intents,
           journal[i] # NoRecord, journal[i].expiresAt > Unix(clock)
    PROVE  /\ journal'[i] # NoRecord
           /\ journal'[i].id = journal[i].id
           /\ journal'[i].expiresAt = journal[i].expiresAt
<1>1. CASE journal' = journal
  BY <1>1
<1>2. ASSUME NEW t \in Captured, NEW d \in Devices, NEW kind \in Kinds,
             NEW o \in Owners, NEW k \in Keys \cup {NoKey}, NEW p \in Payloads,
             Admit(d, kind, o, k, p, t), k # NoKey
      PROVE  journal'[i] = journal[i]
  <2>1. LiveRows(journal, t)[i] = journal[i]
    BY RetainedRow
  <2>2. LiveRows(journal, t)[<<o, k>>] = NoRecord
    BY <1>2, AdmittedKey DEF Admit
  <2>3. journal' = Begun(d, o, k, p, t) /\ nextId \in Ids /\ t \in Nat
    BY <1>2, CapturedType DEF Admit
  <2>4. i # <<o, k>>
    BY <2>1, <2>2
  <2> QED
    BY <2>1, <2>3, <2>4, BegunOthers
<1>3. CASE Settling
  <2>1. PICK t \in Captured : \E gone \in SUBSET Alive(queue, t), state \in Outcomes,
                status \in Statuses \cup {NoStatus}, new \in SUBSET Results :
                    Settles(t, gone, state, status, new)
    BY <1>3 DEF Settling
  <2>2. PICK gone \in SUBSET Alive(queue, t), state \in Outcomes,
             status \in Statuses \cup {NoStatus}, new \in SUBSET Results :
                Settles(t, gone, state, status, new)
    BY <2>1
  <2>3. LiveRows(journal, t)[i] = journal[i] /\ IdsOf(gone) \in SUBSET Ids
    BY RetainedRow, BatchIds
  <2>4. CASE journal' = Finished(IdsOf(gone), state, status, t)
    BY <2>3, <2>4, FinishedRow
  <2> QED
    BY <1>1, <2>2, <2>4 DEF Settles, FinishSucceeds
<1>4. CASE Restart
  <2>1. disk[i] # NoRecord /\ disk[i].id = journal[i].id
        /\ disk[i].expiresAt = journal[i].expiresAt
    BY DEF DiskAgrees
  <2>2. LiveRows(disk, clock)[i] = disk[i]
    BY <2>1 DEF LiveRows
  <2>3. journal'[i] = Recovered[i]
    BY <1>4 DEF Restart
  <2> QED
    BY <2>1, <2>2, <2>3, RecoveredRow
<1>5. CASE Admission
  <2>1. PICK t \in Captured, d \in Devices, kind \in Kinds, o \in Owners,
             k \in Keys \cup {NoKey}, p \in Payloads : Admit(d, kind, o, k, p, t)
    BY <1>5 DEF Admission
  <2>2. CASE k = NoKey
    BY <1>1, <2>1, <2>2 DEF Admit
  <2> QED
    BY <1>2, <2>1, <2>2
<1>6. CASE FailedAdmission \/ FailedSettling \/ Quiet
  BY <1>1, <1>6 DEF FailedAdmission, AdmitFails, FailedSettling, FinishFails, Quiet
<1> QED
  BY <1>3, <1>4, <1>5, <1>6, KindOfStep

\* A save that succeeds leaves the file and the memory the same.
LEMMA Saved ==
    ASSUME TypeOK, Admission \/ Settling \/ Restart
    PROVE  disk' = journal' \/ UNCHANGED <<disk, journal>>
<1>1. CASE Admission
  BY <1>1 DEF Admission, Admit, SaveSucceeds
<1>2. CASE Settling
  BY <1>2 DEF Settling, Settles, FinishSucceeds, SaveSucceeds
<1>3. CASE Restart
  BY <1>3 DEF Restart, SaveSucceeds
<1> QED
  BY <1>1, <1>2, <1>3

LEMMA ClockStep ==
    ASSUME TypeOK, [Next]_vars
    PROVE  /\ clock' \in {clock, clock + 1} /\ clock \in Nat
           /\ Unix(clock) <= Unix(clock') /\ Unix(clock) \in Nat /\ Unix(clock') \in Nat
<1>1. ASSUME Admission \/ FailedAdmission
      PROVE  clock' = clock
  <2>1. CASE Admission
    BY <2>1 DEF Admission, Admit
  <2>2. CASE FailedAdmission
    BY <2>2 DEF FailedAdmission, AdmitFails
  <2> QED
    BY <1>1, <2>1, <2>2
<1>2. ASSUME Settling \/ FailedSettling
      PROVE  clock' = clock
  BY <1>2 DEF Settling, FailedSettling, Settles
<1>3. ASSUME Restart \/ Quiet
      PROVE  clock' \in {clock, clock + 1}
  BY <1>3 DEF Restart, Quiet
<1>4. clock \in Nat /\ clock' \in {clock, clock + 1}
  BY <1>1, <1>2, <1>3, KindOfStep DEF TypeOK, Time
<1>5. clock' \in Nat /\ clock <= clock'
  BY <1>4
<1> QED
  BY <1>4, <1>5, UnixMonotone, UnixType

LEMMA DiskAgreesStep ==
    ASSUME TypeOK, DiskAgrees, [Next]_vars
    PROVE  DiskAgrees'
<1> SUFFICES ASSUME NEW i \in Intents, journal'[i] # NoRecord,
                    journal'[i].expiresAt > Unix(clock')
             PROVE  /\ disk'[i] # NoRecord
                    /\ disk'[i].id = journal'[i].id
                    /\ disk'[i].expiresAt = journal'[i].expiresAt
  BY DEF DiskAgrees, Unix
<1>1. Unix(clock) <= Unix(clock') /\ Unix(clock) \in Nat /\ Unix(clock') \in Nat
  BY ClockStep
<1>2. ASSUME journal' = journal
      PROVE  /\ journal[i] \in Records /\ journal[i].expiresAt > Unix(clock)
             /\ disk[i] # NoRecord /\ disk[i].id = journal[i].id
             /\ disk[i].expiresAt = journal[i].expiresAt
  <2>1. journal[i] \in Records /\ journal[i].expiresAt \in Nat
    BY <1>2 DEF TypeOK, Journals, Records
  <2>2. journal[i].expiresAt > Unix(clock)
    BY <1>1, <1>2, <2>1
  <2> QED
    BY <1>2, <2>1, <2>2 DEF DiskAgrees
<1>3. CASE disk' = journal'
  BY <1>3
<1>4. CASE disk' = disk /\ journal' = journal
  BY <1>2, <1>4
<1>5. CASE FailedAdmission
  <2>1. PICK t \in Captured, d \in Devices, kind \in Kinds, o \in Owners,
             k \in Keys \cup {NoKey}, p \in Payloads : AdmitFails(d, kind, o, k, p, t)
    BY <1>5 DEF FailedAdmission
  <2>2. /\ journal' = journal /\ disk' \in {disk, Begun(d, o, k, p, t)}
        /\ k # NoKey /\ nextId \in Ids /\ t \in Nat
    BY <2>1, CapturedType DEF AdmitFails, SaveFails
  <2>3. LiveRows(journal, t)[i] = journal[i]
    BY <1>2, <2>2, RetainedRow, NoRecordIsNoRecord
  <2>4. i # <<o, k>>
    BY <1>2, <2>1, <2>2, <2>3, AdmittedKey, NoRecordIsNoRecord DEF AdmitFails
  <2>5. Begun(d, o, k, p, t)[i] = journal[i]
    BY <2>3, <2>4, BegunOthers
  <2> QED
    BY <1>2, <1>4, <2>2, <2>5
<1>6. CASE FailedSettling
  <2>1. PICK t \in Captured : \E gone \in SUBSET Alive(queue, t), state \in Outcomes,
                status \in Statuses \cup {NoStatus} :
                    FinishFails(IdsOf(gone), state, status, t)
    BY <1>6 DEF FailedSettling
  <2>2. PICK gone \in SUBSET Alive(queue, t), state \in Outcomes,
             status \in Statuses \cup {NoStatus} :
                FinishFails(IdsOf(gone), state, status, t)
    BY <2>1
  <2>3. /\ journal' = journal
        /\ disk' \in {disk, Finished(IdsOf(gone), state, status, t)}
    BY <2>2 DEF FinishFails, SaveFails
  <2>4. LiveRows(journal, t)[i] = journal[i] /\ journal[i] # NoRecord
    BY <1>2, <2>3, RetainedRow, NoRecordIsNoRecord
  <2>5. CASE disk' = Finished(IdsOf(gone), state, status, t)
    BY <2>3, <2>4, <2>5, FinishedRow, BatchIds
  <2> QED
    BY <1>4, <2>3, <2>5
<1> QED
  BY <1>3, <1>4, <1>5, <1>6, KindOfStep, Saved DEF Quiet

LEMMA DiskAgreesInvariant == Spec => []DiskAgrees
<1>1. Init => DiskAgrees
  BY DEF Init, DiskAgrees
<1> QED
  BY <1>1, DiskAgreesStep, TypeCorrect, PTL DEF Spec

\* A row of a queued command of the batch is live, and finish settles exactly
\* the rows of the batch, which are pending.
LEMMA SettledRow ==
    ASSUME TypeOK, Identified, JournalCovers, Named, NEW t \in Captured,
           NEW gone \in SUBSET Alive(queue, t), NEW i \in Intents,
           journal[i] # NoRecord, journal[i].id \in IdsOf(gone)
    PROVE  /\ \E e \in gone : e.key # NoKey /\ e.id = journal[i].id /\ Intent(e) = i
           /\ journal[i].state = "pending"
           /\ LiveRows(journal, t)[i] = journal[i]
<1>1. PICK e \in gone : e.id = journal[i].id
  BY DEF IdsOf
<1>2. e \in queue /\ e \in accepted /\ t \in Nat /\ e \in Alive(queue, t)
  BY CapturedType DEF Alive, Identified
<1>3. e.key # NoKey /\ Intent(e) = i
  BY <1>1, <1>2 DEF Named, RowsNamed
<1>4. journal[i].state = "pending" /\ LiveRows(journal, t)[i] = journal[i]
  BY <1>2, <1>3, CoveredRowStays DEF JournalCovers
<1> QED
  BY <1>1, <1>3, <1>4

LEMMA DiskStoryStep ==
    ASSUME TypeOK, Identified, JournalCovers, Named, DiskStory, [Next]_vars
    PROVE  DiskStory'
<1> SUFFICES ASSUME NEW i \in Intents, disk'[i] # NoRecord
             PROVE  \/ /\ journal'[i] # NoRecord
                       /\ disk'[i].id = journal'[i].id
                       /\ journal'[i].state \in {disk'[i].state, "pending"}
                    \/ /\ disk'[i].state = "pending"
                       /\ \A a \in accepted' : a.id # disk'[i].id
  BY DEF DiskStory
<1>1. CASE disk' = journal'
  BY <1>1
<1>2. CASE disk' = disk /\ journal' = journal
  <2>1. disk[i].id \in Nat /\ disk[i].id < nextId
    BY <1>2 DEF TypeOK, Journals, Records, Ids, Named, RowsNamed
  <2>2. \A a \in accepted' : a \in accepted \/ a.id = nextId
    <3>1. CASE Admission
      BY <3>1 DEF Admission, Admit, NewEntry
    <3>2. CASE ~Admission
      BY <3>2, KindOfStep DEF FailedAdmission, AdmitFails, history, Settling, Settles,
                              FailedSettling, Restart, Quiet
    <3> QED
      BY <3>1, <3>2
  <2>3. nextId \in Nat
    BY DEF TypeOK
  <2> QED
    BY <1>2, <2>1, <2>2, <2>3 DEF DiskStory
<1>3. CASE FailedAdmission
  <2>1. PICK t \in Captured, d \in Devices, kind \in Kinds, o \in Owners,
             k \in Keys \cup {NoKey}, p \in Payloads : AdmitFails(d, kind, o, k, p, t)
    BY <1>3 DEF FailedAdmission
  <2>2. /\ journal' = journal /\ disk' \in {disk, Begun(d, o, k, p, t)}
        /\ k \in Keys /\ nextId \in Ids /\ t \in Nat /\ accepted' = accepted
    BY <2>1, CapturedType DEF AdmitFails, SaveFails, history
  <2>3. CASE disk' = Begun(d, o, k, p, t) /\ i = <<o, k>>
    <3>1. disk'[i].state = "pending" /\ disk'[i].id = nextId
      BY <2>2, <2>3, BegunRow
    <3>2. \A a \in accepted : a.id # nextId
      BY DEF Identified, TypeOK, Entries, Ids
    <3> QED
      BY <2>2, <3>1, <3>2
  <2>4. CASE disk' = Begun(d, o, k, p, t) /\ i # <<o, k>>
    <3>1. disk'[i] = LiveRows(journal, t)[i]
      BY <2>4, BegunOthers
    <3>2. disk'[i] = journal[i]
      BY <3>1, LiveRow DEF TypeOK
    <3> QED
      BY <2>2, <3>2
  <2> QED
    BY <1>2, <2>2, <2>3, <2>4
<1>4. CASE FailedSettling
  <2>1. PICK t \in Captured : \E gone \in SUBSET Alive(queue, t), state \in Outcomes,
                status \in Statuses \cup {NoStatus} :
                    FinishFails(IdsOf(gone), state, status, t)
    BY <1>4 DEF FailedSettling
  <2>2. PICK gone \in SUBSET Alive(queue, t), state \in Outcomes,
             status \in Statuses \cup {NoStatus} :
                FinishFails(IdsOf(gone), state, status, t)
    BY <2>1
  <2> DEFINE v == LiveRows(journal, t)[i]
             w == Finished(IdsOf(gone), state, status, t)[i]
  <2>3. /\ journal' = journal
        /\ disk' \in {disk, Finished(IdsOf(gone), state, status, t)}
    BY <2>2 DEF FinishFails, SaveFails
  <2>4. CASE disk' = Finished(IdsOf(gone), state, status, t)
    <3>1. /\ w.id = v.id /\ v # NoRecord
          /\ v.id \notin IdsOf(gone) => w = v
      BY <2>4, FinishedRow, BatchIds
    <3>2. v = journal[i] /\ journal[i] # NoRecord
      BY <3>1, LiveRow DEF TypeOK
    <3>3. v.id \in IdsOf(gone) => journal[i].state = "pending"
      BY <3>2, SettledRow
    <3> QED
      BY <2>3, <2>4, <3>1, <3>2, <3>3
  <2> QED
    BY <1>2, <2>3, <2>4
<1> QED
  BY <1>1, <1>2, <1>3, <1>4, KindOfStep, Saved DEF Quiet

LEMMA DiskStoryInvariant == Spec => []DiskStory
<1>1. Init => DiskStory
  BY DEF Init, DiskStory
<1> QED
  BY <1>1, DiskStoryStep, TypeCorrect, IdentifiedInvariant, JournalCoversInvariant,
     NamedInvariant, PTL DEF Spec
-----------------------------------------------------------------------------
(* Answers: what a key is told while its operation is retained             *)

\* The end of an accepted entry's retention, in whole seconds.
Retained(a) == CeilUnix(a.expires - TTL + Retention)

Remembered ==
    \A a \in accepted : a.key # NoKey /\ Unix(clock) < Retained(a) =>
        /\ journal[Intent(a)] # NoRecord
        /\ journal[Intent(a)].expiresAt >= Retained(a)

LEMMA RememberedStep ==
    ASSUME TypeOK, DiskAgrees, Remembered, [Next]_vars
    PROVE  Remembered'
<1> SUFFICES ASSUME NEW a \in accepted', a.key # NoKey, Unix(clock') < Retained(a)
             PROVE  /\ journal'[Intent(a)] # NoRecord
                    /\ journal'[Intent(a)].expiresAt >= Retained(a)
  BY DEF Remembered, Unix, Retained, CeilUnix, Intent
<1>1. /\ Unix(clock) <= Unix(clock') /\ Unix(clock) \in Nat /\ Unix(clock') \in Nat
      /\ clock \in Nat
  BY ClockStep
<1>2. ASSUME a \in accepted
      PROVE  /\ journal'[Intent(a)] # NoRecord
             /\ journal'[Intent(a)].expiresAt >= Retained(a)
  <2>1. a \in Entries /\ Intent(a) \in Intents
    BY <1>2 DEF TypeOK, Entries, Intent, Intents
  <2>2. a.expires - TTL + Retention \in Nat
    BY <2>1, TimesAssumption DEF Entries, Time
  <2>3. Retained(a) \in Nat
    BY <2>2, UnixType DEF Retained
  <2>4. Unix(clock) < Retained(a)
    BY <1>1, <2>3
  <2>5. journal[Intent(a)] # NoRecord /\ journal[Intent(a)].expiresAt >= Retained(a)
    BY <1>2, <2>4 DEF Remembered
  <2>6. journal[Intent(a)].expiresAt \in Nat
    BY <2>1, <2>5 DEF TypeOK, Journals, Records
  <2>7. journal[Intent(a)].expiresAt > Unix(clock)
    BY <1>1, <2>3, <2>4, <2>5, <2>6
  <2> QED
    BY <2>1, <2>5, <2>7, RetainedRowStays
<1>3. CASE Admission
  <2>1. PICK t \in Captured, d \in Devices, kind \in Kinds, o \in Owners,
             k \in Keys \cup {NoKey}, p \in Payloads : Admit(d, kind, o, k, p, t)
    BY <1>3 DEF Admission
  <2> DEFINE e == NewEntry(d, kind, o, k, t)
  <2>2. CASE a = e
    <3>1. a.key = k /\ a.expires = t + TTL /\ Intent(a) = <<o, k>>
      BY <2>2 DEF NewEntry, Intent
    <3>2. t \in Nat /\ nextId \in Ids /\ k \in Keys
      BY <2>1, <3>1, CapturedType DEF Admit
    <3>3. journal' = Begun(d, o, k, p, t)
      BY <2>1, <3>1 DEF Admit
    <3>4. a.expires - TTL + Retention = t + Retention
      BY <3>1, <3>2, TimesAssumption
    <3>5. CeilUnix(t + Retention) \in Nat
      <4>1. t + Retention \in Nat
        BY <3>2, TimesAssumption
      <4> QED
        BY <4>1, UnixType
    <3>6. Begun(d, o, k, p, t)[<<o, k>>] # NoRecord
      BY <3>2, BegunRow
    <3>7. Begun(d, o, k, p, t)[<<o, k>>].expiresAt = CeilUnix(t + Retention)
      BY <3>2, BegunRow
    <3> QED
      BY <3>1, <3>3, <3>4, <3>5, <3>6, <3>7 DEF Retained
  <2> QED
    BY <1>2, <2>1, <2>2 DEF Admit
<1>4. CASE ~Admission
  <2>1. accepted' = accepted
    BY <1>4, KindOfStep DEF FailedAdmission, AdmitFails, history, Settling, Settles,
                            FailedSettling, Restart, Quiet
  <2> QED
    BY <1>2, <2>1
<1> QED
  BY <1>3, <1>4

LEMMA RememberedInvariant == Spec => []Remembered
<1>1. Init => Remembered
  BY DEF Init, Remembered
<1> QED
  BY <1>1, RememberedStep, TypeCorrect, DiskAgreesInvariant, PTL DEF Spec

LEMMA RememberedAnswers == TypeOK /\ Remembered => RetryAnswered
<1> SUFFICES ASSUME TypeOK, Remembered, NEW a \in accepted, a.key # NoKey,
                    Unix(clock) < CeilUnix(a.expires - TTL + Retention),
                    NEW t \in Captured, NEW d \in Devices, NEW kind \in Kinds,
                    NEW p \in Payloads
             PROVE  Answer(d, kind, a.owner, a.key, p, t) \in {"retained", "conflict"}
  BY DEF RetryAnswered
<1>1. a \in Entries /\ Intent(a) \in Intents /\ Intent(a) = <<a.owner, a.key>>
  BY DEF TypeOK, Entries, Intent, Intents
<1>2. a.expires - TTL + Retention \in Nat
  BY <1>1, TimesAssumption DEF Entries, Time
<1>3. Retained(a) \in Nat /\ Unix(clock) \in Nat
  BY <1>2, UnixType DEF Retained, TypeOK, Time
<1>4. journal[Intent(a)] # NoRecord /\ journal[Intent(a)].expiresAt >= Retained(a)
  BY DEF Remembered, Retained
<1>5. journal[Intent(a)].expiresAt \in Nat
  BY <1>1, <1>4 DEF TypeOK, Journals, Records
<1>6. journal[Intent(a)].expiresAt > Unix(clock)
  BY <1>3, <1>4, <1>5 DEF Retained
<1>7. LiveRows(journal, t)[<<a.owner, a.key>>] # NoRecord
  BY <1>1, <1>4, <1>6, RetainedRow
<1> QED
  BY <1>7 DEF Answer, HasOperation

-----------------------------------------------------------------------------
(* Limits                                                                  *)

Finite == IsFiniteSet(Used(journal)) /\ IsFiniteSet(Used(disk))

DeviceLimits ==
    \A d \in Devices : /\ Cardinality(QueueOf(queue, d)) <= MaxPending
                       /\ Cardinality(ResultsOf(results, d)) <= MaxResults

TotalLimits == Cardinality(queue) <= MaxQueued /\ Cardinality(results) <= MaxStored

RecordLimits ==
    /\ Cardinality(Used(journal)) <= MaxRecords
    /\ Cardinality(Used(disk)) <= MaxRecords

LEMMA SmallerSet ==
    ASSUME NEW S, IsFiniteSet(S), NEW T \in SUBSET S, NEW n \in Nat, Cardinality(S) <= n
    PROVE  IsFiniteSet(T) /\ Cardinality(T) <= n
BY FS_Subset, FS_CardinalityType

LEMMA UsedLive ==
    ASSUME NEW rows \in Journals, NEW t
    PROVE  Used(LiveRows(rows, t)) \in SUBSET Used(rows)
BY DEF Used, LiveRows

LEMMA UsedFinished ==
    ASSUME TypeOK, NEW t, NEW ids \in SUBSET Ids, NEW state, NEW status
    PROVE  Used(Finished(ids, state, status, t)) \in SUBSET Used(journal)
<1>1. ASSUME NEW i \in Intents, Finished(ids, state, status, t)[i] # NoRecord
      PROVE  journal[i] # NoRecord
  <2>1. LiveRows(journal, t)[i] # NoRecord
    BY <1>1, FinishedRow
  <2> QED
    BY <2>1, LiveRow DEF TypeOK
<1> QED
  BY <1>1 DEF Used

LEMMA UsedBegun ==
    ASSUME TypeOK, Finite, NEW t \in Nat, NEW d, NEW kind, NEW o \in Owners,
           NEW k \in Keys, NEW p, nextId \in Ids,
           Answer(d, kind, o, k, p, t) = "admitted"
    PROVE  /\ IsFiniteSet(Used(Begun(d, o, k, p, t)))
           /\ Cardinality(Used(Begun(d, o, k, p, t))) <= MaxRecords
<1> DEFINE rows == LiveRows(journal, t)
           new == Begun(d, o, k, p, t)
<1>1. /\ <<o, k>> \in Intents /\ new[<<o, k>>] # NoRecord
      /\ \A i \in Intents : i # <<o, k>> => new[i] = rows[i]
  BY BegunRow, BegunOthers
<1>2. Used(new) = Used(rows) \cup {<<o, k>>}
  BY <1>1 DEF Used
<1>3. IsFiniteSet(Used(rows)) /\ Cardinality(Used(rows)) \in Nat
  BY UsedLive, FS_Subset, FS_CardinalityType DEF TypeOK, Finite
<1>4. k # NoKey
  BY KeysAssumption
<1>5. ~(Cardinality(Used(rows)) >= MaxRecords)
  BY <1>4, AdmittedKey
<1>6. /\ IsFiniteSet(Used(rows) \cup {<<o, k>>})
      /\ \/ Cardinality(Used(rows) \cup {<<o, k>>}) = Cardinality(Used(rows))
         \/ Cardinality(Used(rows) \cup {<<o, k>>}) = Cardinality(Used(rows)) + 1
  BY <1>3, FS_AddElement
<1>7. Cardinality(Used(rows)) + 1 <= MaxRecords
  <2> HIDE DEF rows
  <2> QED
    BY <1>3, <1>5, LimitsAssumption
<1>8. /\ IsFiniteSet(Used(rows) \cup {<<o, k>>})
      /\ Cardinality(Used(rows) \cup {<<o, k>>}) <= MaxRecords
  <2> HIDE DEF rows
  <2> QED
    BY <1>3, <1>6, <1>7, LimitsAssumption
<1> QED
  BY <1>2, <1>8

LEMMA RecordLimitsStep ==
    ASSUME TypeOK, Finite, RecordLimits, [Next]_vars
    PROVE  Finite' /\ RecordLimits'
<1> DEFINE Fits(rows) == IsFiniteSet(Used(rows)) /\ Cardinality(Used(rows)) <= MaxRecords
<1>1. Fits(journal) /\ Fits(disk) /\ MaxRecords \in Nat
  BY LimitsAssumption DEF Finite, RecordLimits
<1>2. SUFFICES Fits(journal') /\ Fits(disk')
  BY <1>2 DEF Finite, RecordLimits, Used
<1>3. ASSUME NEW t, NEW gone \in SUBSET Alive(queue, t), NEW state, NEW status
      PROVE  Fits(Finished(IdsOf(gone), state, status, t))
  BY <1>1, BatchIds, UsedFinished, SmallerSet
<1>4. CASE Admission
  <2>1. PICK t \in Captured, d \in Devices, kind \in Kinds, o \in Owners,
             k \in Keys \cup {NoKey}, p \in Payloads : Admit(d, kind, o, k, p, t)
    BY <1>4 DEF Admission
  <2>2. CASE k = NoKey
    BY <1>1, <2>1, <2>2 DEF Admit
  <2>3. CASE k # NoKey
    <3>1. /\ t \in Nat /\ k \in Keys /\ nextId \in Ids
          /\ Answer(d, kind, o, k, p, t) = "admitted"
          /\ journal' = Begun(d, o, k, p, t) /\ disk' = Begun(d, o, k, p, t)
      BY <2>1, <2>3, CapturedType DEF Admit, SaveSucceeds
    <3>2. Fits(Begun(d, o, k, p, t))
      BY <3>1, UsedBegun
    <3> QED
      BY <3>1, <3>2
  <2> QED
    BY <2>2, <2>3
<1>5. CASE FailedAdmission
  <2>1. PICK t \in Captured, d \in Devices, kind \in Kinds, o \in Owners,
             k \in Keys \cup {NoKey}, p \in Payloads : AdmitFails(d, kind, o, k, p, t)
    BY <1>5 DEF FailedAdmission
  <2>2. /\ t \in Nat /\ k \in Keys /\ nextId \in Ids
        /\ Answer(d, kind, o, k, p, t) = "admitted"
        /\ journal' = journal /\ disk' \in {disk, Begun(d, o, k, p, t)}
    BY <2>1, CapturedType DEF AdmitFails, SaveFails
  <2>3. Fits(Begun(d, o, k, p, t))
    BY <2>2, UsedBegun
  <2> QED
    BY <1>1, <2>2, <2>3
<1>6. CASE Settling
  <2>1. PICK t \in Captured : \E gone \in SUBSET Alive(queue, t), state \in Outcomes,
                status \in Statuses \cup {NoStatus}, new \in SUBSET Results :
                    Settles(t, gone, state, status, new)
    BY <1>6 DEF Settling
  <2>2. PICK gone \in SUBSET Alive(queue, t), state \in Outcomes,
             status \in Statuses \cup {NoStatus}, new \in SUBSET Results :
                Settles(t, gone, state, status, new)
    BY <2>1
  <2>3. \/ journal' = journal /\ disk' = disk
        \/ /\ journal' = Finished(IdsOf(gone), state, status, t)
           /\ disk' = Finished(IdsOf(gone), state, status, t)
    BY <2>2 DEF Settles, FinishSucceeds, SaveSucceeds
  <2>4. Fits(Finished(IdsOf(gone), state, status, t))
    BY <1>3
  <2> QED
    BY <1>1, <2>3, <2>4
<1>7. CASE FailedSettling
  <2>1. PICK t \in Captured : \E gone \in SUBSET Alive(queue, t), state \in Outcomes,
                status \in Statuses \cup {NoStatus} :
                    FinishFails(IdsOf(gone), state, status, t)
    BY <1>7 DEF FailedSettling
  <2>2. PICK gone \in SUBSET Alive(queue, t), state \in Outcomes,
             status \in Statuses \cup {NoStatus} :
                FinishFails(IdsOf(gone), state, status, t)
    BY <2>1
  <2>3. /\ journal' = journal
        /\ disk' \in {disk, Finished(IdsOf(gone), state, status, t)}
    BY <2>2 DEF FinishFails, SaveFails
  <2>4. Fits(Finished(IdsOf(gone), state, status, t))
    BY <1>3
  <2> QED
    BY <1>1, <2>3, <2>4
<1>8. CASE Restart
  <2>1. \A i \in Intents : Recovered[i] # NoRecord => disk[i] # NoRecord
    BY RecoveredRow, LiveRow DEF TypeOK
  <2>2. Used(Recovered) \in SUBSET Used(disk)
    BY <2>1 DEF Used
  <2>3. Fits(Recovered)
    BY <1>1, <2>2, SmallerSet
  <2>4. journal' = Recovered /\ disk' = Recovered
    BY <1>8 DEF Restart, SaveSucceeds
  <2> QED
    BY <2>3, <2>4
<1>9. CASE Quiet
  BY <1>1, <1>9 DEF Quiet
<1> QED
  BY <1>4, <1>5, <1>6, <1>7, <1>8, <1>9, KindOfStep

\* An admission finds room in the queue of the device and in all together.
LEMMA AdmitLimits ==
    ASSUME TypeOK, Accounted, DeviceLimits, TotalLimits, NEW t \in Captured,
           NEW d \in Devices, NEW kind \in Kinds, NEW o, NEW k, NEW p,
           Admit(d, kind, o, k, p, t)
    PROVE  /\ \A c \in Devices : Cardinality(QueueOf(queue', c)) <= MaxPending
           /\ Cardinality(queue') <= MaxQueued
<1> DEFINE e == NewEntry(d, kind, o, k, t)
           kept == Alive(queue, t)
<1>1. queue' = kept \cup {e} /\ kept \in SUBSET queue /\ e.device = d
  BY DEF Admit, UpdateQueue, NewEntry, Alive
<1>2. /\ IsFiniteSet(kept) /\ Cardinality(kept) \in Nat /\ Cardinality(queue) \in Nat
      /\ Cardinality(queue \ kept) = Cardinality(queue) - Cardinality(kept)
  BY <1>1, SplitCardinality DEF TypeOK
<1>3. ~Full(d, kind, t)
  BY DEF Admit, Answer, HasOperation
<1>4. ~(Cardinality(QueueOf(kept, d)) >= MaxPending)
  BY <1>3 DEF Full
<1>5. ~(bytes - Cardinality(queue \ kept) + 1 > MaxQueued)
  BY <1>3 DEF Full
<1>6. Cardinality(queue') <= MaxQueued
  <2>1. Cardinality(kept \cup {e}) \in {Cardinality(kept), Cardinality(kept) + 1}
    BY <1>2, FS_AddElement
  <2>2. Cardinality(kept) + 1 <= MaxQueued
    BY <1>2, <1>5, LimitsAssumption DEF Accounted
  <2> QED
    BY <1>1, <1>2, <2>1, <2>2, LimitsAssumption
<1>7. ASSUME NEW c \in Devices
      PROVE  Cardinality(QueueOf(queue', c)) <= MaxPending
  <2>1. QueueOf(kept, c) \in SUBSET kept
    BY DEF QueueOf
  <2>2. IsFiniteSet(QueueOf(kept, c)) /\ Cardinality(QueueOf(kept, c)) \in Nat
    BY <1>2, <2>1, FS_Subset, FS_CardinalityType
  <2>3. CASE c = d
    <3>1. QueueOf(queue', c) = QueueOf(kept, c) \cup {e}
      BY <1>1, <2>3 DEF QueueOf
    <3>2. Cardinality(QueueOf(kept, c) \cup {e})
            \in {Cardinality(QueueOf(kept, c)), Cardinality(QueueOf(kept, c)) + 1}
      BY <2>2, FS_AddElement
    <3> QED
      BY <1>4, <2>2, <2>3, <3>1, <3>2, LimitsAssumption
  <2>4. CASE c # d
    <3>1. QueueOf(queue', c) \in SUBSET QueueOf(queue, c)
      BY <1>1, <2>4 DEF QueueOf
    <3>2. QueueOf(queue, c) \in SUBSET queue
      BY DEF QueueOf
    <3>3. IsFiniteSet(QueueOf(queue, c)) /\ Cardinality(QueueOf(queue, c)) <= MaxPending
      BY <3>2, FS_Subset DEF TypeOK, DeviceLimits
    <3> QED
      BY <3>1, <3>3, SmallerSet, LimitsAssumption
  <2> QED
    BY <2>3, <2>4
<1> QED
  BY <1>6, <1>7

\* A result that is retained finds room in the results of the device and in all.
LEMMA StoreLimits ==
    ASSUME TypeOK, Accounted, DeviceLimits, TotalLimits, NEW t \in Captured,
           NEW r \in replies, StoreReply(r, t)
    PROVE  /\ \A c \in Devices : Cardinality(ResultsOf(results', c)) <= MaxResults
           /\ Cardinality(results') <= MaxStored
<1>1. PICK e \in Awaiting(r, t) :
        UpdateResults(t, {[id |-> r.id, device |-> r.device,
                           owner |-> e.owner, status |-> r.status,
                           valid |-> r.valid, expires |-> t + ResultTTL]})
  BY DEF StoreReply
<1> DEFINE x == [id |-> r.id, device |-> r.device, owner |-> e.owner,
                 status |-> r.status, valid |-> r.valid,
                 expires |-> t + ResultTTL]
           kept == Unexpired(results, t)
<1>2. results' = kept \cup {x} /\ kept \in SUBSET results /\ x.device = r.device
  BY <1>1 DEF UpdateResults, Unexpired
<1> HIDE DEF x
<1>3. /\ IsFiniteSet(kept) /\ Cardinality(kept) \in Nat /\ Cardinality(results) \in Nat
      /\ Cardinality(results \ kept) = Cardinality(results) - Cardinality(kept)
  BY <1>2, SplitCardinality DEF TypeOK
<1>4. /\ ~(Cardinality(ResultsOf(kept, r.device)) >= MaxResults)
      /\ ~(stored - Cardinality(results \ kept) + 1 > MaxStored)
  BY DEF StoreReply, StorageFull
<1>5. Cardinality(results') <= MaxStored
  <2>1. Cardinality(kept \cup {x}) \in {Cardinality(kept), Cardinality(kept) + 1}
    BY <1>3, FS_AddElement
  <2>2. Cardinality(kept) + 1 <= MaxStored
    BY <1>3, <1>4, LimitsAssumption DEF Accounted
  <2> QED
    BY <1>2, <1>3, <2>1, <2>2, LimitsAssumption
<1>6. ASSUME NEW c \in Devices
      PROVE  Cardinality(ResultsOf(results', c)) <= MaxResults
  <2>1. ResultsOf(kept, c) \in SUBSET kept
    BY DEF ResultsOf
  <2>2. IsFiniteSet(ResultsOf(kept, c)) /\ Cardinality(ResultsOf(kept, c)) \in Nat
    BY <1>3, <2>1, FS_Subset, FS_CardinalityType
  <2>3. CASE c = r.device
    <3>1. ResultsOf(results', c) = ResultsOf(kept, c) \cup {x}
      BY <1>2, <2>3 DEF ResultsOf
    <3>2. Cardinality(ResultsOf(kept, c) \cup {x})
            \in {Cardinality(ResultsOf(kept, c)), Cardinality(ResultsOf(kept, c)) + 1}
      BY <2>2, FS_AddElement
    <3> QED
      BY <1>4, <2>2, <2>3, <3>1, <3>2, LimitsAssumption
  <2>4. CASE c # r.device
    <3>1. ResultsOf(results', c) \in SUBSET ResultsOf(results, c)
      BY <1>2, <2>4 DEF ResultsOf
    <3>2. ResultsOf(results, c) \in SUBSET results
      BY DEF ResultsOf
    <3>3. IsFiniteSet(ResultsOf(results, c)) /\ Cardinality(ResultsOf(results, c)) <= MaxResults
      BY <3>2, FS_Subset DEF TypeOK, DeviceLimits
    <3> QED
      BY <3>1, <3>3, SmallerSet, LimitsAssumption
  <2> QED
    BY <2>3, <2>4
<1> QED
  BY <1>5, <1>6

LEMMA LimitsStep ==
    ASSUME TypeOK, Accounted, DeviceLimits, TotalLimits, [Next]_vars
    PROVE  DeviceLimits' /\ TotalLimits'
<1>1. ASSUME NEW t, Expire(t)
      PROVE  queue' \subseteq queue
  BY <1>1 DEF Expire, UpdateQueue, Alive
<1>2. /\ MaxPending \in Nat /\ MaxQueued \in Nat /\ MaxResults \in Nat /\ MaxStored \in Nat
  BY LimitsAssumption
<1>3. /\ \A c \in Devices : Cardinality(QueueOf(queue', c)) <= MaxPending
      /\ Cardinality(queue') <= MaxQueued
  <2>1. CASE Admission
    BY <2>1, AdmitLimits DEF Admission
  <2>2. CASE ~Admission
    <3>1. queue' \in SUBSET queue
      <4>1. CASE FailedAdmission \/ FailedSettling
        BY <1>1, <4>1 DEF FailedAdmission, AdmitFails, FailedSettling
      <4>2. CASE Settling
        BY <4>2 DEF Settling, Settles, UpdateQueue, Alive
      <4>3. CASE Restart \/ Quiet
        BY <4>3 DEF Restart, Quiet
      <4> QED
        BY <2>2, <4>1, <4>2, <4>3, KindOfStep
    <3>2. Cardinality(queue') <= MaxQueued
      BY <1>2, <3>1, SmallerSet DEF TypeOK, TotalLimits
    <3>3. ASSUME NEW c \in Devices
          PROVE  Cardinality(QueueOf(queue', c)) <= MaxPending
      <4>1. /\ QueueOf(queue', c) \in SUBSET QueueOf(queue, c)
            /\ QueueOf(queue, c) \in SUBSET queue
        BY <3>1 DEF QueueOf
      <4>2. IsFiniteSet(QueueOf(queue, c)) /\ Cardinality(QueueOf(queue, c)) <= MaxPending
        BY <4>1, FS_Subset DEF TypeOK, DeviceLimits
      <4> QED
        BY <1>2, <4>1, <4>2, SmallerSet
    <3> QED
      BY <3>2, <3>3
  <2> QED
    BY <2>1, <2>2
<1>4. /\ \A c \in Devices : Cardinality(ResultsOf(results', c)) <= MaxResults
      /\ Cardinality(results') <= MaxStored
  <2>1. CASE ResultsShrink
    <3>1. results' \in SUBSET results
      BY <2>1 DEF ResultsShrink
    <3>2. Cardinality(results') <= MaxStored
      BY <1>2, <3>1, SmallerSet DEF TypeOK, TotalLimits
    <3>3. ASSUME NEW c \in Devices
          PROVE  Cardinality(ResultsOf(results', c)) <= MaxResults
      <4>1. /\ ResultsOf(results', c) \in SUBSET ResultsOf(results, c)
            /\ ResultsOf(results, c) \in SUBSET results
        BY <3>1 DEF ResultsOf
      <4>2. IsFiniteSet(ResultsOf(results, c)) /\ Cardinality(ResultsOf(results, c)) <= MaxResults
        BY <4>1, FS_Subset DEF TypeOK, DeviceLimits
      <4> QED
        BY <1>2, <4>1, <4>2, SmallerSet
    <3> QED
      BY <3>2, <3>3
  <2>2. CASE \E t \in Captured, r \in replies : StoreReply(r, t)
    BY <2>2, StoreLimits
  <2> QED
    BY <2>1, <2>2, ResultsStep
<1> QED
  BY <1>3, <1>4 DEF DeviceLimits, TotalLimits, QueueOf, ResultsOf

LEMMA WithinLimitsInvariant == Spec => []WithinLimits
<1>1. Init => Finite /\ RecordLimits
  <2>1. Init => Used(journal) = {} /\ Used(disk) = {}
    BY DEF Init, Used
  <2> QED
    BY <2>1, FS_EmptySet, LimitsAssumption DEF Finite, RecordLimits
<1>2. Init => DeviceLimits /\ TotalLimits
  <2>1. Init => queue = {} /\ results = {}
    BY DEF Init
  <2>2. \A c : QueueOf({}, c) = {} /\ ResultsOf({}, c) = {}
    BY DEF QueueOf, ResultsOf
  <2> QED
    BY <2>1, <2>2, FS_EmptySet, LimitsAssumption DEF DeviceLimits, TotalLimits
<1>3. DeviceLimits /\ TotalLimits /\ RecordLimits => WithinLimits
  BY DEF DeviceLimits, TotalLimits, RecordLimits, WithinLimits
<1> QED
  BY <1>1, <1>2, <1>3, RecordLimitsStep, LimitsStep, TypeCorrect, AccountedInvariant,
     PTL DEF Spec-----------------------------------------------------------------------------
(* Receipts: the journal and a retained result agree                       *)

LEMMA SettleKeepsReceipts ==
    ASSUME TypeOK, Identified, JournalCovers, Named, Answers, ReceiptMatchesJournal,
           NEW t \in Captured, NEW gone \in SUBSET Alive(queue, t), NEW state \in Outcomes,
           NEW status, NEW new \in SUBSET Results, Settles(t, gone, state, status, new)
    PROVE  ReceiptMatchesJournal'
<1> DEFINE ids == IdsOf(gone)
           v(i) == LiveRows(journal, t)[i]
           w(i) == Finished(ids, state, status, t)[i]
<1>1. gone \in SUBSET queue /\ ids \in SUBSET Ids
  BY BatchIds
<1>2. \A x \in results' : x \in Results /\ (x \in results \/ x \in new)
  BY DEF Settles, UpdateResults, Unexpired, TypeOK
<1> SUFFICES ASSUME NEW x \in results', NEW i \in Intents, journal'[i].id = x.id
             PROVE  journal'[i].state = "responded" /\ journal'[i].status = x.status
  BY DEF ReceiptMatchesJournal
<1>3. x.id \in Ids
  BY <1>2 DEF Results
<1>4. CASE FinishChanges(ids, t)
  <2>1. journal'[i] = w(i)
    BY <1>4 DEF Settles, FinishSucceeds
  <2>2. /\ w(i).id = v(i).id
        /\ v(i).id \in ids => w(i).state = state /\ w(i).status = status
        /\ v(i).id \notin ids => w(i) = v(i)
    BY <1>1, FinishedRow
  <2>3. v(i).id = x.id
    BY <2>1, <2>2
  <2>4. CASE x \in new
    BY <2>1, <2>2, <2>3, <2>4 DEF Settles
  <2>5. CASE x \in results
    <3>1. x.id \notin ids
      BY <1>1, <2>5 DEF Answers, AnsweredOnce, IdsOf
    <3>2. v(i) = journal[i]
      BY <1>3, <2>3, NoRecordIsNoRecord, LiveRow DEF TypeOK
    <3> QED
      BY <2>1, <2>2, <2>3, <2>5, <3>1, <3>2 DEF ReceiptMatchesJournal
  <2> QED
    BY <1>2, <2>4, <2>5
<1>5. CASE ~FinishChanges(ids, t)
  <2>1. journal' = journal
    BY <1>5 DEF Settles, FinishSucceeds
  <2>2. journal[i] # NoRecord
    BY <1>3, <2>1, NoRecordIsNoRecord
  <2>3. x \notin new
    <3>1. ASSUME x \in new
          PROVE  journal[i].id \in ids /\ v(i) = journal[i]
      BY <2>1, <2>2, <3>1, SettledRow DEF Settles
    <3> QED
      BY <1>5, <3>1 DEF FinishChanges
  <2> QED
    BY <1>2, <2>1, <2>3 DEF ReceiptMatchesJournal
<1> QED
  BY <1>4, <1>5

LEMMA ReceiptMatchesStep ==
    ASSUME TypeOK, Identified, JournalCovers, Named, Answers, ReceiptMatchesJournal,
           [Next]_vars
    PROVE  ReceiptMatchesJournal'
<1>1. ASSUME results' \subseteq results, journal' = journal
      PROVE  ReceiptMatchesJournal'
  BY <1>1 DEF ReceiptMatchesJournal
<1>2. ASSUME NEW t, UpdateResults(t, {})
      PROVE  results' \subseteq results
  BY <1>2 DEF UpdateResults, Unexpired
<1>3. ASSUME NEW t \in Captured, NEW d \in Devices, NEW kind \in Kinds,
             NEW o \in Owners, NEW k \in Keys \cup {NoKey}, NEW p \in Payloads,
             Admit(d, kind, o, k, p, t)
      PROVE  ReceiptMatchesJournal'
  <2>1. results' \subseteq results /\ nextId \in Ids /\ t \in Nat
    BY <1>2, <1>3, CapturedType DEF Admit
  <2>2. CASE k = NoKey
    BY <1>1, <1>3, <2>1, <2>2 DEF Admit
  <2>3. ASSUME k # NoKey, NEW x \in results', NEW i \in Intents, journal'[i].id = x.id
        PROVE  journal'[i].state = "responded" /\ journal'[i].status = x.status
    <3>1. journal' = Begun(d, o, k, p, t) /\ k \in Keys
      BY <1>3, <2>3 DEF Admit
    <3>2. x \in results /\ x.id < nextId /\ x.id \in Ids /\ nextId \in Nat
      BY <2>1, <2>3 DEF Answers, AnswersKnown, TypeOK, Results, Ids
    <3>3. i # <<o, k>>
      BY <2>1, <2>3, <3>1, <3>2, BegunRow DEF Ids
    <3>4. journal'[i] = LiveRows(journal, t)[i]
      BY <3>1, <3>3, BegunOthers
    <3>5. journal'[i] = journal[i]
      BY <2>3, <3>2, <3>4, NoRecordIsNoRecord, LiveRow DEF TypeOK
    <3> QED
      BY <2>3, <3>2, <3>5 DEF ReceiptMatchesJournal
  <2> QED
    BY <2>2, <2>3 DEF ReceiptMatchesJournal
<1>4. CASE Settling
  <2>1. PICK t \in Captured : \E gone \in SUBSET Alive(queue, t), state \in Outcomes,
                status \in Statuses \cup {NoStatus}, new \in SUBSET Results :
                    Settles(t, gone, state, status, new)
    BY <1>4 DEF Settling
  <2> QED
    BY <2>1, SettleKeepsReceipts
<1>5. CASE FailedAdmission \/ FailedSettling
  BY <1>1, <1>2, <1>5 DEF FailedAdmission, AdmitFails, FailedSettling, FinishFails, Expire
<1>6. CASE Restart
  BY <1>6 DEF Restart, ReceiptMatchesJournal
<1>7. CASE Quiet
  BY <1>1, <1>7 DEF Quiet
<1> QED
  BY <1>3, <1>4, <1>5, <1>6, <1>7, KindOfStep DEF Admission

LEMMA ReceiptMatchesInvariant == Spec => []ReceiptMatchesJournal
<1>1. Init => ReceiptMatchesJournal
  BY DEF Init, ReceiptMatchesJournal
<1> QED
  BY <1>1, ReceiptMatchesStep, TypeCorrect, IdentifiedInvariant, JournalCoversInvariant,
     NamedInvariant, AnswersInvariant, PTL DEF Spec

\* Queue, receipts and journal tell the same story of a keyed operation: what can
\* be delivered is on record as pending, and what a retained result says was
\* answered is on record as answered, with the same status.
THEOREM JournalAgreesCorrect == Spec => []JournalAgrees
<1>1. QueuedIsPending /\ ReceiptMatchesJournal => JournalAgrees
  BY DEF JournalAgrees
<1> QED
  BY <1>1, QueuedIsPendingCorrect, ReceiptMatchesInvariant, PTL-----------------------------------------------------------------------------
(* Outcomes: none is recorded late                                         *)

LEMMA NoLateStep ==
    ASSUME TypeOK, Identified, JournalCovers, [Next]_vars, NEW e \in queue, e.key # NoKey,
           e.id \notin voided', journal'[Intent(e)].id = e.id,
           journal'[Intent(e)].state \in Outcomes
    PROVE  clock < e.expires + Lag
<1> DEFINE i == Intent(e)
<1>1. /\ i \in Intents /\ e.id \in Ids /\ e.expires \in Nat /\ clock \in Nat
      /\ journal[i].state = "pending"
  BY IntentType DEF TypeOK, Entries, Time, JournalCovers
<1>2. "pending" \notin Outcomes
  BY DEF Outcomes
<1>3. journal'[i] # journal[i]
  BY <1>1, <1>2
<1>4. ASSUME NEW t, LiveRows(journal, t)[i].id = e.id
      PROVE  LiveRows(journal, t)[i] = journal[i]
  BY <1>1, <1>4, NoRecordIsNoRecord, LiveRow DEF TypeOK
<1>5. ASSUME NEW t \in Captured, NEW d \in Devices, NEW kind \in Kinds,
             NEW o \in Owners, NEW k \in Keys \cup {NoKey}, NEW p \in Payloads,
             Admit(d, kind, o, k, p, t)
      PROVE  FALSE
  <2>1. journal' = Begun(d, o, k, p, t) /\ k \in Keys /\ nextId \in Ids /\ t \in Nat
    BY <1>3, <1>5, CapturedType DEF Admit
  <2>2. i # <<o, k>>
    BY <1>2, <2>1, BegunRow
  <2>3. journal'[i] = LiveRows(journal, t)[i]
    BY <1>1, <2>1, <2>2, BegunOthers
  <2> QED
    BY <1>3, <1>4, <2>3
<1>6. CASE Settling
  <2>1. PICK t \in Captured : \E gone \in SUBSET Alive(queue, t), state \in Outcomes,
                status \in Statuses \cup {NoStatus}, new \in SUBSET Results :
                    Settles(t, gone, state, status, new)
    BY <1>6 DEF Settling
  <2>2. PICK gone \in SUBSET Alive(queue, t), state \in Outcomes,
             status \in Statuses \cup {NoStatus}, new \in SUBSET Results :
                Settles(t, gone, state, status, new)
    BY <2>1
  <2> DEFINE v == LiveRows(journal, t)[i]
             w == Finished(IdsOf(gone), state, status, t)[i]
  <2>3. journal'[i] = w
    BY <1>3, <2>2 DEF Settles, FinishSucceeds
  <2>4. w.id = v.id /\ (v.id \notin IdsOf(gone) => w = v)
    BY <1>1, BatchIds, FinishedRow
  <2>5. v = journal[i]
    BY <1>4, <2>3, <2>4
  <2>6. e.id \in IdsOf(gone)
    BY <1>3, <2>3, <2>4, <2>5
  <2>7. e \in Alive(queue, t)
    BY <2>6, BatchIds DEF IdsOf, Identified
  <2>8. t \in Nat /\ t + Lag >= clock /\ t < e.expires
    BY <2>7, CapturedType DEF Captured, Alive
  <2> QED
    BY <1>1, <2>8, TimesAssumption
<1>7. CASE Restart
  BY <1>7 DEF Restart, IdsOf
<1>8. CASE FailedAdmission \/ FailedSettling \/ Quiet
  BY <1>3, <1>8 DEF FailedAdmission, AdmitFails, FailedSettling, FinishFails, Quiet
<1> QED
  BY <1>5, <1>6, <1>7, <1>8, KindOfStep DEF Admission

LEMMA NeverForgottenStep ==
    ASSUME TypeOK, DiskAgrees, [Next]_vars, NEW i \in Intents,
           journal[i] # NoRecord, journal'[i].id # journal[i].id
    PROVE  journal[i].expiresAt <= Unix(clock)
<1>1. ~(journal[i].expiresAt > Unix(clock))
  BY RetainedRowStays
<1>2. journal[i].expiresAt \in Nat
  BY DEF TypeOK, Journals, Records
<1>3. Unix(clock) \in Nat
  BY UnixType DEF TypeOK, Time
<1> QED
  BY <1>1, <1>2, <1>3

\* What was once accepted under a key stays the answer to that key for its whole
\* retention, within every limit, whatever saves fail and however often the
\* server restarts; and no outcome is recorded for a command past its deadline.
THEOREM JournalAnswersCorrect == Spec => JournalAnswers
<1>1. TypeOK /\ Identified /\ JournalCovers /\ DiskAgrees /\ [Next]_vars =>
        [/\ \A e \in queue :
              /\ e.key # NoKey /\ e.id \notin voided'
              /\ journal'[Intent(e)].id = e.id
              /\ journal'[Intent(e)].state \in {"acknowledged", "responded"}
              => clock < e.expires + Lag
         /\ \A i \in Intents :
              journal[i] # NoRecord /\ journal'[i].id # journal[i].id
              => journal[i].expiresAt <= Unix(clock)]_vars
  BY NoLateStep, NeverForgottenStep DEF Outcomes
<1>2. TypeOK /\ Remembered => RetryAnswered
  BY RememberedAnswers
<1> QED
  BY <1>1, <1>2, TypeCorrect, IdentifiedInvariant, JournalCoversInvariant,
     DiskAgreesInvariant, RememberedInvariant, WithinLimitsInvariant, PTL
     DEF Spec, JournalAnswers, NoLateOutcome, NeverForgotten-----------------------------------------------------------------------------
(* Refinement: queue and journal implement the ledger                      *)

\* What the ledger shows of the rows of a journal.
Shown(rows) ==
    [i \in Intents |-> IF rows[i] = NoRecord THEN NoRecord
                       ELSE [id |-> rows[i].id, state |-> rows[i].state]]

\* The rows that a copy at t leaves out.
Dropped(t) == {i \in Intents : LiveRows(journal, t)[i] = NoRecord}

LEMMA ShownRow ==
    ASSUME NEW rows \in Journals, NEW i \in Intents
    PROVE  /\ rows[i] = NoRecord => Shown(rows)[i] = NoRecord
           /\ rows[i] # NoRecord => /\ Shown(rows)[i] = [id |-> rows[i].id, state |-> rows[i].state]
                                    /\ Shown(rows)[i] # NoRecord
<1>1. ASSUME rows[i] # NoRecord
      PROVE  [id |-> rows[i].id, state |-> rows[i].state] # NoRecord
  <2>1. rows[i].id \in Ids
    BY <1>1 DEF Journals, Records
  <2>2. [id |-> rows[i].id, state |-> rows[i].state].id \in Ids
    BY <2>1
  <2> QED
    BY <2>2, NoRecordIsNoRecord
<1> QED
  BY <1>1 DEF Shown

LEMMA KeyedSubset ==
    ASSUME NEW S, NEW T \in SUBSET S
    PROVE  KeyedIds(T) \in SUBSET KeyedIds(S)
BY DEF KeyedIds

\* Entries go, and the journal stays.
LEMMA LapseStep ==
    ASSUME KeyedIds(queue') \in SUBSET KeyedIds(queue),
           KeyedIds(accepted') = KeyedIds(accepted), journal' = journal
    PROVE  Ledger!Next
<1> DEFINE lost == KeyedIds(queue) \ KeyedIds(queue')
<1>1. KeyedIds(queue') = KeyedIds(queue) \ lost
  OBVIOUS
<1>2. Ledger!Lapse(lost, {})
  BY <1>1 DEF Ledger!Lapse, Ledger!Lapses, Ledger!Kept, KeyedIds
<1>3. lost \in SUBSET KeyedIds(queue) /\ {} \in SUBSET Intents
  OBVIOUS
<1> QED
  BY <1>2, <1>3 DEF Ledger!Next

\* A row that a copy leaves out belongs to no command that can be delivered.
LEMMA DroppedClosed ==
    ASSUME TypeOK, Identified, JournalCovers, Named, NEW t \in Captured,
           NEW i \in Dropped(t), journal[i] # NoRecord
    PROVE  journal[i].id \notin KeyedIds(Alive(queue, t))
<1> SUFFICES ASSUME NEW e \in Alive(queue, t), e.key # NoKey, e.id = journal[i].id
             PROVE  FALSE
  BY DEF KeyedIds
<1>1. e \in accepted /\ i \in Intents /\ t \in Nat
  BY CapturedType DEF Alive, Identified, Dropped
<1>2. Intent(e) = i
  BY <1>1 DEF Named, RowsNamed
<1>3. LiveRows(journal, t)[i] = journal[i]
  BY <1>1, <1>2, CoveredRowStays
<1> QED
  BY <1>3 DEF Dropped
\* Such a row may be forgotten: it is the ledger's right before any step.
LEMMA DroppedLapses ==
    ASSUME TypeOK, Identified, JournalCovers, Named, NEW t \in Captured
    PROVE  LET lost == KeyedIds(queue) \ KeyedIds(Alive(queue, t))
           IN  /\ lost \in SUBSET KeyedIds(queue)
               /\ KeyedIds(queue) \ lost = KeyedIds(Alive(queue, t))
               /\ Dropped(t) \in SUBSET Intents
               /\ Ledger!Lapses(lost, Dropped(t))
<1> DEFINE lost == KeyedIds(queue) \ KeyedIds(Alive(queue, t))
<1>1. KeyedIds(Alive(queue, t)) \in SUBSET KeyedIds(queue)
  BY KeyedSubset DEF Alive
<1>2. KeyedIds(queue) \ lost = KeyedIds(Alive(queue, t))
  BY <1>1
<1>3. Dropped(t) \in SUBSET Intents
  BY DEF Dropped
<1>4. \A i \in Dropped(t) : Shown(journal)[i] # NoRecord =>
          Shown(journal)[i].id \notin KeyedIds(queue) \ lost
  <2> SUFFICES ASSUME NEW i \in Dropped(t), Shown(journal)[i] # NoRecord
               PROVE  Shown(journal)[i].id \notin KeyedIds(Alive(queue, t))
    BY <1>2
  <2>1. /\ journal[i] # NoRecord
        /\ Shown(journal)[i] = [id |-> journal[i].id, state |-> journal[i].state]
    BY <1>3, ShownRow DEF TypeOK
  <2>2. Shown(journal)[i].id = journal[i].id
    BY <2>1
  <2> QED
    BY <2>1, <2>2, DroppedClosed
<1>5. Ledger!Lapses(lost, Dropped(t))
  BY <1>4 DEF Ledger!Lapses, Shown
<1> QED
  BY <1>2, <1>3, <1>5

LEMMA KeptRow ==
    ASSUME NEW t, NEW i \in Intents
    PROVE  Ledger!Kept(Dropped(t))[i] = IF i \in Dropped(t) THEN NoRecord
                                                            ELSE Shown(journal)[i]
BY DEF Ledger!Kept, Shown

\* An admission under a key.
LEMMA AdmitStep ==
    ASSUME TypeOK, Identified, JournalCovers, Named, NEW t \in Captured,
           NEW d \in Devices, NEW kind \in Kinds, NEW o \in Owners, NEW k \in Keys,
           NEW p \in Payloads, Admit(d, kind, o, k, p, t)
    PROVE  Ledger!Next
<1> DEFINE lost == KeyedIds(queue) \ KeyedIds(Alive(queue, t))
           e == NewEntry(d, kind, o, k, t)
           own == <<o, k>>
<1>1. /\ t \in Nat /\ nextId \in Ids /\ k # NoKey /\ own \in Intents
      /\ journal' = Begun(d, o, k, p, t)
      /\ accepted' = accepted \cup {e} /\ e.id = nextId /\ e.key = k
  BY CapturedType, KeysAssumption DEF Admit, NewEntry, Intents
<1>2. queue' = Alive(queue, t) \cup {e}
  BY DEF Admit, UpdateQueue
<1>3. KeyedIds(queue') = (KeyedIds(queue) \ lost) \cup {nextId}
  BY <1>1, <1>2, DroppedLapses DEF KeyedIds
<1>4. KeyedIds(accepted') = KeyedIds(accepted) \cup {nextId}
  BY <1>1 DEF KeyedIds
<1>5. nextId \notin KeyedIds(accepted)
  BY DEF KeyedIds, Identified, TypeOK, Entries, Ids
<1>6. LiveRows(journal, t)[own] = NoRecord
  BY <1>1, AdmittedKey DEF Admit
<1>7. own \in Dropped(t) /\ Ledger!Kept(Dropped(t))[own] = NoRecord
  BY <1>1, <1>6, KeptRow DEF Dropped
<1>8. Shown(journal')[own] = [id |-> nextId, state |-> "pending"]
  BY <1>1, BegunRow DEF Shown
<1>9. ASSUME NEW i \in Intents, i # own
      PROVE  Shown(journal')[i] = Ledger!Kept(Dropped(t))[i]
  <2>1. journal'[i] = LiveRows(journal, t)[i]
    BY <1>1, <1>9, BegunOthers
  <2>2. i \notin Dropped(t) => journal'[i] = journal[i]
    BY <2>1, LiveRow DEF Dropped, TypeOK
  <2>3. i \in Dropped(t) => journal'[i] = NoRecord
    BY <2>1 DEF Dropped
  <2> QED
    BY <2>2, <2>3, KeptRow DEF Shown
<1>10. Shown(journal') = [Ledger!Kept(Dropped(t)) EXCEPT ![own] = [id |-> nextId, state |-> "pending"]]
  BY <1>8, <1>9 DEF Shown, Ledger!Kept
<1>11. ASSUME NEW i, NEW id, NEW hidden, NEW forgotten,
              i = own, id = nextId, hidden = lost, forgotten = Dropped(t)
       PROVE  Ledger!Next
  <2>1. /\ Ledger!Lapses(lost, Dropped(t))
        /\ lost \in SUBSET KeyedIds(queue) /\ Dropped(t) \in SUBSET Intents
    BY DroppedLapses
  <2>2. Ledger!Admit(i, id, hidden, forgotten)
    BY <2>1, <1>3, <1>4, <1>5, <1>7, <1>10, <1>11
       DEF Ledger!Admit, Ledger!Operation, Shown, KeyedIds
  <2>3. /\ i \in Intents /\ id \in Ids
        /\ hidden \in SUBSET KeyedIds(queue) /\ forgotten \in SUBSET Intents
    BY <1>1, <1>11, <2>1
  <2> QED
    BY <2>2, <2>3 DEF Ledger!Next
<1> QED
  BY <1>11

\* A batch that is closed: its rows become final as its commands leave the queue.
LEMMA SettleStep ==
    ASSUME TypeOK, Identified, JournalCovers, Named, NEW t \in Captured,
           NEW gone \in SUBSET Alive(queue, t), NEW state \in Outcomes,
           NEW status, NEW new, Settles(t, gone, state, status, new)
    PROVE  Ledger!Next
<1> DEFINE lost == KeyedIds(queue) \ KeyedIds(Alive(queue, t))
           ids == KeyedIds(gone)
           v(i) == LiveRows(journal, t)[i]
           w(i) == Finished(IdsOf(gone), state, status, t)[i]
<1>1. queue' = Alive(queue, t) \ gone
  BY DEF Settles, UpdateQueue
<1>2. gone \in SUBSET queue /\ IdsOf(gone) \in SUBSET Ids /\ t \in Nat /\ Alive(queue, t) \in SUBSET queue
  BY BatchIds, CapturedType DEF Alive
<1>3. KeyedIds(queue') = (KeyedIds(queue) \ lost) \ ids
  <2>1. \A e \in Alive(queue, t), f \in gone : e.id = f.id => e = f
    BY <1>2 DEF Identified
  <2>2. KeyedIds(Alive(queue, t) \ gone) = KeyedIds(Alive(queue, t)) \ ids
    BY <2>1 DEF KeyedIds
  <2>3. KeyedIds(queue) \ lost = KeyedIds(Alive(queue, t))
    BY DroppedLapses
  <2> QED
    BY <1>1, <2>2, <2>3
<1>4. accepted' = accepted
  BY DEF Settles
<1>5. CASE ~FinishChanges(IdsOf(gone), t)
  <2>1. journal' = journal
    BY <1>5 DEF Settles, FinishSucceeds
  <2>2. KeyedIds(queue') \in SUBSET KeyedIds(queue)
    BY <1>1, <1>2, KeyedSubset
  <2> QED
    BY <1>4, <2>1, <2>2, LapseStep
<1>6. CASE FinishChanges(IdsOf(gone), t)
  <2> DEFINE settled == {i \in Intents : Shown(journal)[i] # NoRecord /\ Shown(journal)[i].id \in ids}
  <2>1. journal' = Finished(IdsOf(gone), state, status, t)
    BY <1>6 DEF Settles, FinishSucceeds
  <2>2. ASSUME NEW i \in settled
        PROVE  /\ journal[i] # NoRecord /\ journal[i].state = "pending"
               /\ v(i) = journal[i] /\ journal[i].id \in IdsOf(gone)
               /\ Shown(journal)[i].id = journal[i].id
               /\ Shown(journal)[i].state = "pending"
    <3>1. /\ journal[i] # NoRecord
          /\ Shown(journal)[i] = [id |-> journal[i].id, state |-> journal[i].state]
      BY ShownRow DEF TypeOK
    <3>2. journal[i].id \in ids
      BY <3>1
    <3>3. journal[i].id \in IdsOf(gone)
      BY <3>2 DEF KeyedIds, IdsOf
    <3> QED
      BY <3>1, <3>3, SettledRow
  <2>3. ASSUME NEW i \in Intents \ settled, journal[i] # NoRecord
        PROVE  journal[i].id \notin IdsOf(gone)
    <3>1. Shown(journal)[i] = [id |-> journal[i].id, state |-> journal[i].state]
          /\ Shown(journal)[i] # NoRecord
      BY <2>3, ShownRow DEF TypeOK
    <3>2. journal[i].id \notin ids
      BY <3>1
    <3>3. ASSUME journal[i].id \in IdsOf(gone)
          PROVE  journal[i].id \in ids
      BY <2>3, <3>3, SettledRow DEF KeyedIds
    <3> QED
      BY <3>2, <3>3
  <2>4. ASSUME NEW i \in settled
        PROVE  Shown(journal')[i] = [id |-> Shown(journal)[i].id, state |-> state]
    <3>1. /\ i \in Intents /\ v(i) = journal[i] /\ journal[i] # NoRecord
          /\ journal[i].id \in IdsOf(gone) /\ Shown(journal)[i].id = journal[i].id
      BY <2>2
    <3> HIDE DEF settled
    <3>2. w(i).id = journal[i].id /\ w(i) # NoRecord /\ w(i).state = state
      BY <1>2, <3>1, FinishedRow
    <3>3. Shown(journal')[i] = [id |-> w(i).id, state |-> w(i).state]
      BY <2>1, <3>1, <3>2 DEF Shown
    <3> QED
      BY <3>1, <3>2, <3>3
  <2>5. ASSUME NEW i \in Intents \ settled
        PROVE  Shown(journal')[i] = Ledger!Kept(Dropped(t))[i]
    <3>1. CASE i \in Dropped(t)
      <4>1. w(i) = NoRecord
        BY <1>2, <3>1, FinishedRow DEF Dropped
      <4> QED
        BY <2>1, <3>1, <4>1, KeptRow DEF Shown
    <3>2. CASE i \notin Dropped(t)
      <4>1. v(i) = journal[i] /\ journal[i] # NoRecord
        BY <3>2, LiveRow DEF Dropped, TypeOK
      <4>2. w(i) = journal[i]
        BY <1>2, <2>3, <4>1, FinishedRow
      <4> QED
        BY <2>1, <3>2, <4>2, KeptRow DEF Shown
    <3> QED
      BY <3>1, <3>2
  <2>6. Shown(journal') =
          [i \in Intents |-> IF i \in settled THEN [id |-> Shown(journal)[i].id, state |-> state]
                                              ELSE Ledger!Kept(Dropped(t))[i]]
    BY <2>4, <2>5 DEF Shown
  <2>7. ids \in SUBSET (KeyedIds(queue) \ lost)
    BY DroppedLapses, KeyedSubset
  <2>8. Ledger!Lapses(lost, Dropped(t))
    BY DroppedLapses
  <2>9. \A i \in settled : Shown(journal)[i].state = "pending"
    BY <2>2
  <2>10. ASSUME NEW closed, NEW hidden, NEW forgotten,
                closed = ids, hidden = lost, forgotten = Dropped(t)
         PROVE  Ledger!Next
    <3>1. Ledger!Settle(closed, state, hidden, forgotten)
      BY <1>3, <1>4, <2>6, <2>7, <2>8, <2>9, <2>10
         DEF Ledger!Settle, Ledger!Operation, Shown, KeyedIds
    <3>2. lost \in SUBSET KeyedIds(queue) /\ Dropped(t) \in SUBSET Intents
      BY DroppedLapses
    <3>3. /\ closed \in SUBSET KeyedIds(queue) /\ hidden \in SUBSET KeyedIds(queue)
          /\ forgotten \in SUBSET Intents
      BY <2>7, <2>10, <3>2
    <3> QED
      BY <3>1, <3>3 DEF Ledger!Next, Outcomes
  <2> QED
    BY <2>10
<1> QED
  BY <1>5, <1>6
\* A start: what was pending is unknown, and an operation that was refused
\* because its save failed may be found on file.
LEMMA RecoverStep ==
    ASSUME TypeOK, DiskStory, Restart
    PROVE  Ledger!Next
<1>1. journal' = Recovered /\ Recovered \in Journals /\ accepted' = accepted /\ KeyedIds(queue') = {}
  BY RecoveredType DEF Restart, KeyedIds, TypeOK
<1>2. ASSUME NEW i \in Intents, journal'[i] # NoRecord
      PROVE  /\ disk[i] # NoRecord /\ disk[i] \in Records /\ journal'[i].id = disk[i].id
             /\ journal'[i].id \in Ids
             /\ journal'[i].state = IF disk[i].state = "pending" THEN "unknown"
                                                                 ELSE disk[i].state
             /\ Shown(journal')[i] = [id |-> journal'[i].id, state |-> journal'[i].state]
             /\ Shown(journal')[i].id = disk[i].id
             /\ Shown(journal')[i].state = journal'[i].state
  <2>1. LiveRows(disk, clock)[i] # NoRecord
    BY <1>1, <1>2, RecoveredRow
  <2>2. LiveRows(disk, clock)[i] = disk[i] /\ disk[i] # NoRecord /\ disk[i] \in Records
    BY <2>1, LiveRow DEF TypeOK
  <2>3. /\ journal'[i].id = disk[i].id
        /\ journal'[i].state = IF disk[i].state = "pending" THEN "unknown" ELSE disk[i].state
    BY <1>1, <2>1, <2>2, RecoveredRow
  <2>4. disk[i].id \in Ids
    BY <2>2 DEF Records
  <2>5. Shown(journal')[i] = [id |-> journal'[i].id, state |-> journal'[i].state]
    BY <1>1, <1>2, ShownRow
  <2> QED
    BY <2>2, <2>3, <2>4, <2>5
<1>3. ASSUME NEW i \in Intents, journal'[i] = NoRecord
      PROVE  Shown(journal')[i] = NoRecord
  BY <1>3 DEF Shown
<1>4. Shown(journal') \in [Intents -> [id : Ids, state : {"responded", "acknowledged", "unknown"}]
                                      \cup {NoRecord}]
  <2>1. ASSUME NEW i \in Intents
        PROVE  Shown(journal')[i] \in [id : Ids, state : {"responded", "acknowledged", "unknown"}]
                                      \cup {NoRecord}
    <3>1. CASE journal'[i] # NoRecord
      <4>1. journal'[i].state \in {"responded", "acknowledged", "unknown"}
        BY <1>2, <3>1 DEF Records, States
      <4>2. /\ journal'[i].id \in Ids
            /\ Shown(journal')[i] = [id |-> journal'[i].id, state |-> journal'[i].state]
        BY <1>2, <3>1
      <4> QED
        BY <4>1, <4>2
    <3> QED
      BY <1>3, <3>1
  <2> QED
    BY <2>1 DEF Shown
<1>5. ASSUME NEW i \in Intents
      PROVE  \/ Shown(journal')[i] \in {Shown(journal)[i], NoRecord}
             \/ /\ Shown(journal)[i] # NoRecord /\ Shown(journal)[i].state = "pending"
                /\ Shown(journal')[i].id = Shown(journal)[i].id
             \/ /\ Shown(journal')[i].id \notin KeyedIds(accepted)
                /\ Shown(journal')[i].state = "unknown"
  <2>1. CASE journal'[i] = NoRecord
    BY <1>3, <2>1
  <2>2. CASE journal'[i] # NoRecord /\ disk[i].state = "pending" /\ \A a \in accepted : a.id # disk[i].id
    <3>1. Shown(journal')[i].id = disk[i].id /\ Shown(journal')[i].state = "unknown"
      BY <1>2, <2>2
    <3>2. disk[i].id \notin KeyedIds(accepted)
      BY <2>2 DEF KeyedIds
    <3> QED
      BY <3>1, <3>2
  <2>3. CASE /\ journal'[i] # NoRecord /\ journal[i] # NoRecord
             /\ disk[i].id = journal[i].id
             /\ journal[i].state \in {disk[i].state, "pending"}
    <3>1. /\ Shown(journal)[i] # NoRecord
          /\ Shown(journal)[i] = [id |-> journal[i].id, state |-> journal[i].state]
      BY <2>3, ShownRow DEF TypeOK
    <3>2. Shown(journal)[i].id = journal[i].id /\ Shown(journal)[i].state = journal[i].state
      BY <3>1
    <3>3. CASE journal[i].state = "pending"
      BY <1>2, <2>3, <3>1, <3>2, <3>3
    <3>4. CASE journal[i].state # "pending"
      <4>1. journal[i].state = disk[i].state
        BY <2>3, <3>4
      <4>2. journal'[i].state = disk[i].state /\ journal'[i].id = disk[i].id
        BY <1>2, <2>3, <3>4, <4>1
      <4>3. Shown(journal')[i] = Shown(journal)[i]
        BY <1>2, <2>3, <3>1, <4>1, <4>2
      <4> QED
        BY <4>3
    <3> QED
      BY <3>3, <3>4
  <2> QED
    BY <1>2, <2>1, <2>2, <2>3 DEF DiskStory
<1>6. Ledger!Recover
  <2> HIDE DEF Recovered
  <2> QED
    BY <1>1, <1>4, <1>5 DEF Ledger!Recover, Ledger!Settled, Shown, KeyedIds
<1> QED
  BY <1>6 DEF Ledger!Next

LEMMA LedgerStep ==
    ASSUME TypeOK, Identified, JournalCovers, Named, DiskStory, [Next]_vars
    PROVE  Ledger!Next
<1>1. ASSUME NEW t, NEW gone, UpdateQueue(t, gone, {})
      PROVE  queue' \in SUBSET queue
  BY <1>1 DEF UpdateQueue, Alive
<1>2. ASSUME queue' \in SUBSET queue, accepted' = accepted, journal' = journal
      PROVE  Ledger!Next
  BY <1>2, KeyedSubset, LapseStep
<1>3. ASSUME NEW t \in Captured, NEW d \in Devices, NEW kind \in Kinds,
             NEW o \in Owners, NEW k \in Keys \cup {NoKey}, NEW p \in Payloads,
             Admit(d, kind, o, k, p, t)
      PROVE  Ledger!Next
  <2>1. CASE k = NoKey
    <3> DEFINE e == NewEntry(d, kind, o, k, t)
    <3>1. /\ queue' = Alive(queue, t) \cup {e} /\ accepted' = accepted \cup {e}
          /\ journal' = journal /\ e.key = NoKey
      BY <1>3, <2>1 DEF Admit, UpdateQueue, NewEntry
    <3>2. /\ KeyedIds(queue') \in SUBSET KeyedIds(queue)
          /\ KeyedIds(accepted') = KeyedIds(accepted)
      BY <3>1 DEF KeyedIds, Alive
    <3> QED
      BY <3>1, <3>2, LapseStep
  <2>2. CASE k \in Keys
    BY <1>3, <2>2, AdmitStep
  <2> QED
    BY <2>1, <2>2
<1>4. CASE FailedAdmission
  BY <1>1, <1>2, <1>4 DEF FailedAdmission, AdmitFails, Expire, history
<1>5. CASE Settling
  <2>1. PICK t \in Captured : \E gone \in SUBSET Alive(queue, t), state \in Outcomes,
                status \in Statuses \cup {NoStatus}, new \in SUBSET Results :
                    Settles(t, gone, state, status, new)
    BY <1>5 DEF Settling
  <2> QED
    BY <2>1, SettleStep
<1>6. CASE FailedSettling
  BY <1>1, <1>2, <1>6 DEF FailedSettling, FinishFails, Expire
<1>7. CASE Restart
  BY <1>7, RecoverStep
<1>8. CASE Quiet
  BY <1>2, <1>8 DEF Quiet
<1> QED
  BY <1>3, <1>4, <1>5, <1>6, <1>7, <1>8, KindOfStep DEF Admission

\* Queue and journal implement the ledger of operations: an intent is admitted at
\* most once while it is remembered, an outcome is final, and a restart closes
\* every command and reopens none, whatever saves failed before it.
THEOREM ImplementsLedgerCorrect == Spec => ImplementsLedger
<1>1. Init => Ledger!Init
  <2>1. Init => KeyedIds(queue) = {} /\ KeyedIds(accepted) = {}
    BY DEF Init, KeyedIds
  <2> QED
    BY <2>1 DEF Init, Ledger!Init
<1>2. TypeOK /\ Identified /\ JournalCovers /\ Named /\ DiskStory /\ [Next]_vars
        => [Ledger!Next]_(Ledger!vars)
  BY LedgerStep
<1> QED
  BY <1>1, <1>2, TypeCorrect, IdentifiedInvariant, JournalCoversInvariant,
     NamedInvariant, DiskStoryInvariant, PTL DEF Spec, ImplementsLedger, Ledger!Spec
=============================================================================
