---------------------- MODULE RecoverableWritesProofs -----------------------
(***************************************************************************)
(* Theorems about the commands that keep a record on disk of what they     *)
(* change, for every value of the constants.                               *)
(*                                                                         *)
(* FavoritesReplace: every number of runs, operations and records, and any *)
(* number of restarts, changes and power losses.  What a run may say of    *)
(* its operation depends on requests that are still on their way and on    *)
(* records that other runs evict.  The inductive invariant therefore says  *)
(* which requests of a run can still reach the player at each point of its *)
(* program, how the fate of its operation is bound to them, that no second *)
(* run edits under the same operation, and that only the record of a       *)
(* verified commit is marked as proved.                                    *)
(*                                                                         *)
(* GlobalFavorites: every set of runs, items and titles.  A list is the    *)
(* favorites of its first page since every later page belongs to the same  *)
(* revision.  A plan is committed as it was shown since the transaction on *)
(* the player is that of the snapshot, no request outlives the place its   *)
(* run has reached by more than the proof allows, and the result was       *)
(* compared before the commit.                                             *)
(*                                                                         *)
(* PresetSession: every preset, number of keys and times.  One command at  *)
(* most is on its way, the pending one, and it is over before the wait for *)
(* it ends; what is ahead of a run are steps on slots the preset has.      *)
(*                                                                         *)
(* ConfigStore: every set of commands.  What a command is about to write   *)
(* over is what it read, since those at work with it share its lock.       *)
(*                                                                         *)
(* UsbRecovery: every set of processes, number of boots and attempts.  The *)
(* lock gives the state on file to one process; boots are read in their    *)
(* order, so the attempts on file are those of the boot observed last.     *)
(*                                                                         *)
(* RecoverableWrites composes them; the last theorems are about its        *)
(* behaviours.                                                             *)
(***************************************************************************)
EXTENDS RecoverableWrites, Sequences, FiniteSetTheorems, TLAPS

-----------------------------------------------------------------------------
(* The favorites of a group                                                *)

\* Fates: a commit was executed, or a stage has ended without one.
Begun == {"pending"} \cup Settled
Stopped == {"aborted", "expired", "lost"}
\* Places of a run: before its first request that changes the player, and from
\* its commit on.
Early == {"start", "found", "planned"}
Late == {"commit", "reconcile", "complete", "done"}
Editing(r) == goal[r] \in {"replace", "preview"}

\* Where a run can be for its goal, and when it knows its operation.
Placed(r) ==
    /\ goal[r] = "none" => pc[r] = "start"
    /\ goal[r] = "status" => pc[r] \in {"start", "reconcile", "complete", "done"} /\ op[r] \in Op
    /\ goal[r] = "acknowledge" =>
         pc[r] \in {"start", "intent", "acknowledge", "done"} /\ op[r] \in Op
    /\ Editing(r) => pc[r] \notin {"intent", "acknowledge"}
    /\ goal[r] # "acknowledge" => plan[r] = 0
    /\ pc[r] \in Early /\ goal[r] \in {"none", "replace", "preview"} => op[r] = NoOp
    /\ pc[r] \in Early \cup {"prepare"} => outcome[r] = "none" /\ ~late[r]
    /\ pc[r] \notin Early \cup {"prepare", "done"} => op[r] \in Op
    /\ pc[r] = "prepare" /\ reply[r] = "ok" => op[r] \in Op
    /\ pc[r] \in {"save", "commit"} => goal[r] = "replace"
    /\ late[r] => op[r] \in Op

\* The requests of a run that the player may still execute.
Asked(r) ==
    /\ pc[r] \in Early => \A k \in Requests : <<r, k>> \notin net
    /\ pc[r] = "prepare" => \A k \in Requests : <<r, k>> \in net => k = "prepare"
    /\ \A k \in Requests \ {"prepare"} : <<r, k>> \in net => op[r] \in Op
    /\ <<r, "commit">> \in net => goal[r] = "replace" /\ pc[r] \in Late
    /\ <<r, "acknowledge">> \in net => goal[r] = "acknowledge" /\ plan[r] # 0

\* What a run waits for, or has said, and the fate of its operation.
Linked(r) ==
    /\ op[r] \in Op => fate[op[r]] # "none"
    /\ Editing(r) /\ op[r] \in Op /\ fate[op[r]] \in Begun =>
         pc[r] \in Late /\ <<r, "commit">> \notin net
    /\ pc[r] = "commit" /\ reply[r] \in Settled => fate[op[r]] = reply[r]
    /\ outcome[r] = "verified" \/ pc[r] = "complete" => op[r] \in Op /\ fate[op[r]] = "verified"
    /\ outcome[r] = "not_applied" /\ op[r] \in Op =>
         \/ fate[op[r]] \in {"not_applied"} \cup Stopped
         \/ /\ Editing(r) /\ pc[r] \in {"abort", "done"} /\ <<r, "commit">> \notin net
            /\ fate[op[r]] \notin Begun

\* What a run acknowledges was shown to a user, and its intent is on disk.
Confirming(r) ==
    /\ plan[r] # 0 => <<op[r], plan[r]>> \in confirmed
    /\ pc[r] = "acknowledge" \/ <<r, "acknowledge">> \in net =>
         plan[r] # 0 /\ <<op[r], plan[r]>> \in intentDisk
    /\ pc[r] = "acknowledge" /\ reply[r] = "ok" => audit[op[r]] # 0
    /\ outcome[r] = "acknowledged" => op[r] \in Op /\ audit[op[r]] # 0

RunInv(r) == Placed(r) /\ Asked(r) /\ Linked(r) /\ Confirming(r)

\* An operation is minted for one run that edits.
OneRun == \A r, q \in Run : Editing(r) /\ Editing(q) /\ op[r] \in Op /\ op[r] = op[q] => r = q

\* The records and the ledger agree.
Books ==
    /\ \A o \in Op : /\ file[o] # "none" \/ disk[o] # "none" => fate[o] # "none"
                     /\ "proved" \in {file[o], disk[o]} => fate[o] = "verified"
    /\ \A o \in Op : /\ fate[o] \notin Begun \/ fate[o] = "not_applied" => written[o] = "none"
                     /\ fate[o] = "verified" => written[o] = "all"
                     /\ audit[o] # 0 => <<o, audit[o]>> \in confirmed \cap intentDisk
    /\ intentDisk \subseteq intent

\* The inductive invariant.
IInv == /\ TypeOK
        /\ \A r \in Run : RunInv(r)
        /\ OneRun /\ Books /\ Recoverable

-----------------------------------------------------------------------------
\* The initial states satisfy the invariant.
LEMMA InitInv == FavoritesAssumption /\ Init => IInv
<1> SUFFICES ASSUME FavoritesAssumption, Init PROVE IInv
  OBVIOUS
<1>1. TypeOK
  BY DEF Init, TypeOK, Settled, Open, Fates, Controls, Outcomes, Requests, Goals
<1>2. ASSUME NEW r \in Run PROVE RunInv(r)
  <2>1. goal[r] = "none" /\ pc[r] = "start" /\ op[r] = NoOp /\ plan[r] = 0 /\ ~late[r]
        /\ outcome[r] = "none" /\ reply[r] = "none" /\ net = {}
    BY DEF Init
  <2>2. NoOp \notin Op
    BY DEF FavoritesAssumption
  <2> QED BY <2>1, <2>2 DEF RunInv, Placed, Asked, Linked, Confirming, Early, Editing, Settled
<1>3. OneRun
  BY DEF Init, OneRun, Editing
<1>4. Books /\ Recoverable
  BY DEF Init, Books, Recoverable, Begun, Settled
<1> QED BY <1>1, <1>2, <1>3, <1>4 DEF IInv

-----------------------------------------------------------------------------
\* The variables of one run, of every run but r, and the requests of a run.
SameRun(q) ==
    /\ goal'[q] = goal[q] /\ pc'[q] = pc[q] /\ op'[q] = op[q] /\ plan'[q] = plan[q]
    /\ late'[q] = late[q] /\ outcome'[q] = outcome[q] /\ reply'[q] = reply[q]
    /\ \A k \in Requests : <<q, k>> \in net' <=> <<q, k>> \in net
Others(r) == \A q \in Run : q # r => SameRun(q)

\* Steps of a run that leave the player and the records alone.
Quiet(r) ==
    \/ Discover(r) \/ Snapshot(r) \/ Stage(r) \/ Refuse(r)
    \/ Staged(r) \/ Previewed(r) \/ StageFails(r) \/ Aborted(r) \/ SaveTimesOut(r)
    \/ Committed(r) \/ CommitLost(r) \/ Reconcile(r)
    \/ CheckPlan(r) \/ Recognise(r) \/ Acknowledged(r) \/ Kill(r)

\* Quiet steps keep the types.
LEMMA QuietType ==
    ASSUME TypeOK, NEW r \in Run, Quiet(r)
    PROVE  TypeOK'
<1> USE DEF TypeOK, player, runs, records, intents, Go, Post, Report, NotApplied, Goals, Requests,
            Settled, Controls, Outcomes
<1>1. CASE Discover(r)
  BY <1>1 DEF Discover
<1>2. CASE Snapshot(r)
  BY <1>2 DEF Snapshot
<1>3. CASE Stage(r)
  BY <1>3 DEF Stage
<1>4. CASE Refuse(r)
  BY <1>4 DEF Refuse
<1>5. CASE Staged(r)
  BY <1>5 DEF Staged
<1>6. CASE Previewed(r)
  BY <1>6 DEF Previewed
<1>7. CASE StageFails(r)
  BY <1>7 DEF StageFails
<1>8. CASE Aborted(r)
  BY <1>8 DEF Aborted
<1>9. CASE SaveTimesOut(r)
  BY <1>9 DEF SaveTimesOut
<1>10. CASE Committed(r)
  BY <1>10 DEF Committed
<1>11. CASE CommitLost(r)
  BY <1>11 DEF CommitLost
<1>12. CASE Reconcile(r)
  BY <1>12 DEF Reconcile, Believed, StatusAnswers, Answers, Answered
<1>13. CASE CheckPlan(r)
  BY <1>13 DEF CheckPlan
<1>14. CASE Recognise(r)
  BY <1>14 DEF Recognise
<1>15. CASE Acknowledged(r)
  BY <1>15 DEF Acknowledged
<1>16. CASE Kill(r)
  BY <1>16 DEF Kill
<1> QED BY <1>1, <1>2, <1>3, <1>4, <1>5, <1>6, <1>7, <1>8, <1>9, <1>10, <1>11, <1>12, <1>13,
           <1>14, <1>15, <1>16 DEF Quiet
\* A quiet step changes nothing but the control of its run, and sends no commit.
LEMMA QuietFrame ==
    ASSUME TypeOK, NEW r \in Run, Quiet(r)
    PROVE  /\ UNCHANGED <<player, goal, op, records, intents>>
           /\ Others(r)
           /\ \A q \in Run : <<q, "commit">> \in net' <=> <<q, "commit">> \in net
<1> USE DEF TypeOK, player, runs, records, intents, Go, Post, Report, NotApplied, Others, SameRun
<1>1. CASE Discover(r)
  BY <1>1 DEF Discover
<1>2. CASE Snapshot(r)
  BY <1>2 DEF Snapshot
<1>3. CASE Stage(r)
  BY <1>3 DEF Stage
<1>4. CASE Refuse(r)
  BY <1>4 DEF Refuse
<1>5. CASE Staged(r)
  BY <1>5 DEF Staged
<1>6. CASE Previewed(r)
  BY <1>6 DEF Previewed
<1>7. CASE StageFails(r)
  BY <1>7 DEF StageFails
<1>8. CASE Aborted(r)
  BY <1>8 DEF Aborted
<1>9. CASE SaveTimesOut(r)
  BY <1>9 DEF SaveTimesOut
<1>10. CASE Committed(r)
  BY <1>10 DEF Committed
<1>11. CASE CommitLost(r)
  BY <1>11 DEF CommitLost
<1>12. CASE Reconcile(r)
  BY <1>12 DEF Reconcile
<1>13. CASE CheckPlan(r)
  BY <1>13 DEF CheckPlan
<1>14. CASE Recognise(r)
  BY <1>14 DEF Recognise
<1>15. CASE Acknowledged(r)
  BY <1>15 DEF Acknowledged
<1>16. CASE Kill(r)
  BY <1>16 DEF Kill
<1> QED BY <1>1, <1>2, <1>3, <1>4, <1>5, <1>6, <1>7, <1>8, <1>9, <1>10, <1>11, <1>12,
           <1>13, <1>14, <1>15, <1>16 DEF Quiet

\* A quiet step keeps what holds of its own run.
LEMMA QuietOwn ==
    ASSUME TypeOK, NoOp \notin Op, NEW r \in Run, RunInv(r), Quiet(r)
    PROVE  RunInv(r)'
<1> USE DEF TypeOK, player, runs, records, intents, Go, Post, Report, NotApplied, RunInv, Editing,
            Placed, Asked, Linked, Confirming, Early, Late, Begun, Stopped, Settled, Requests,
            Goals, Open
<1>1. CASE Discover(r)
  BY <1>1 DEF Discover
<1>2. CASE Snapshot(r)
  BY <1>2 DEF Snapshot
<1>3. CASE Stage(r)
  BY <1>3 DEF Stage
<1>4. CASE Refuse(r)
  BY <1>4 DEF Refuse
<1>5. CASE Staged(r)
  BY <1>5 DEF Staged
<1>6. CASE Previewed(r)
  BY <1>6 DEF Previewed
<1>7. CASE StageFails(r)
  BY <1>7 DEF StageFails
<1>8. CASE Aborted(r)
  BY <1>8 DEF Aborted
<1>9. CASE SaveTimesOut(r)
  BY <1>9 DEF SaveTimesOut
<1>10. CASE Committed(r)
  BY <1>10 DEF Committed
<1>11. CASE CommitLost(r)
  BY <1>11 DEF CommitLost
<1>12. CASE Reconcile(r)
  BY <1>12 DEF Reconcile, Believed, StatusAnswers, Answers, Answered
<1>13. CASE CheckPlan(r)
  BY <1>13 DEF CheckPlan, Acknowledgeable, Unresolved
<1>14. CASE Recognise(r)
  BY <1>14 DEF Recognise
<1>15. CASE Acknowledged(r)
  BY <1>15 DEF Acknowledged
<1>16. CASE Kill(r)
  BY <1>16 DEF Kill
<1> QED BY <1>1, <1>2, <1>3, <1>4, <1>5, <1>6, <1>7, <1>8, <1>9, <1>10, <1>11, <1>12,
           <1>13, <1>14, <1>15, <1>16 DEF Quiet

-----------------------------------------------------------------------------
\* What holds of a run outlives a step that leaves the run alone and changes the
\* fate of no operation.
LEMMA Undisturbed ==
    ASSUME NEW q \in Run, RunInv(q), SameRun(q), UNCHANGED <<fate, audit>>,
           confirmed \subseteq confirmed', intentDisk \subseteq intentDisk'
    PROVE  RunInv(q)'
BY DEF RunInv, SameRun, Editing, Placed, Asked, Linked, Confirming, Requests

\* No step that leaves the player, the goals and the operations alone gives an
\* operation to a second run.
LEMMA SameOneRun ==
    ASSUME OneRun, UNCHANGED <<goal, op>>
    PROVE  OneRun'
BY DEF OneRun, Editing

\* Quiet steps keep the invariant.
LEMMA QuietStep ==
    ASSUME IInv, NoOp \notin Op, NEW r \in Run, Quiet(r)
    PROVE  IInv'
<1>1. TypeOK /\ \A q \in Run : RunInv(q)
  BY DEF IInv
<1>2. /\ UNCHANGED <<player, goal, op, records, intents>>
      /\ Others(r)
      /\ \A q \in Run : <<q, "commit">> \in net' <=> <<q, "commit">> \in net
  BY <1>1, QuietFrame
<1>3. TypeOK'
  BY <1>1, QuietType
<1>4. ASSUME NEW q \in Run PROVE RunInv(q)'
  <2>1. CASE q = r
    BY <1>1, <2>1, QuietOwn
  <2>2. CASE q # r
    BY <1>1, <1>2, <2>2, Undisturbed DEF Others, player, intents
  <2> QED BY <2>1, <2>2
<1>5. OneRun'
  BY <1>2, SameOneRun DEF IInv
<1>6. Books' /\ Recoverable'
  BY <1>2 DEF IInv, Books, Recoverable, player, records, intents
<1> QED BY <1>3, <1>4, <1>5, <1>6 DEF IInv
-----------------------------------------------------------------------------
\* Steps of a run that change records or intents.
Recording(r) ==
    \/ Save(r) \/ SaveFails(r) \/ LateSave(r) \/ Complete(r)
    \/ AcknowledgeBlocked(r) \/ Acknowledge(r)

\* Steps that change records keep the types.
LEMMA RecordingType ==
    ASSUME TypeOK, NEW r \in Run, RunInv(r), Recording(r)
    PROVE  TypeOK'
<1> USE DEF TypeOK, player, runs, records, intents, Go, Post, NotApplied, Requests, Controls,
            Outcomes, Settled, RunInv, Placed, Early
<1>1. CASE Save(r)
  BY <1>1 DEF Save, Stored, WithRecord, Reclaimed
<1>2. CASE SaveFails(r)
  BY <1>2 DEF SaveFails, SaveError, WithRecord, Reclaimed
<1>3. CASE LateSave(r)
  BY <1>3 DEF LateSave, SaveError, Stored, WithRecord, Reclaimed
<1>4. CASE Complete(r)
  BY <1>4 DEF Complete
<1>5. CASE AcknowledgeBlocked(r)
  BY <1>5 DEF AcknowledgeBlocked
<1>6. CASE Acknowledge(r)
  BY <1>6 DEF Acknowledge, SyncIntent
<1> QED BY <1>1, <1>2, <1>3, <1>4, <1>5, <1>6 DEF Recording

\* They leave the player and the other runs alone; only Save sends a commit.
LEMMA RecordingFrame ==
    ASSUME TypeOK, NEW r \in Run, Recording(r)
    PROVE  /\ UNCHANGED <<player, goal, op, confirmed>>
           /\ Others(r)
           /\ \A q \in Run : <<q, "commit">> \in net' =>
                <<q, "commit">> \in net \/ (q = r /\ Save(r))
<1> USE DEF TypeOK, player, runs, records, intents, Go, Post, NotApplied, Others, SameRun
<1>1. CASE Save(r)
  <2>1. UNCHANGED <<player, goal, op, confirmed>> /\ Others(r)
    BY <1>1 DEF Save
  <2>2. \A q \in Run : <<q, "commit">> \in net' => <<q, "commit">> \in net \/ q = r
    BY <1>1 DEF Save
  <2> QED BY <1>1, <2>1, <2>2
<1>2. CASE SaveFails(r)
  BY <1>2 DEF SaveFails
<1>3. CASE LateSave(r)
  BY <1>3 DEF LateSave
<1>4. CASE Complete(r)
  BY <1>4 DEF Complete
<1>5. CASE AcknowledgeBlocked(r)
  BY <1>5 DEF AcknowledgeBlocked
<1>6. CASE Acknowledge(r)
  BY <1>6 DEF Acknowledge, SyncIntent
<1> QED BY <1>1, <1>2, <1>3, <1>4, <1>5, <1>6 DEF Recording

\* They keep what holds of their own run, and lose no intent that is on disk.
LEMMA RecordingOwn ==
    ASSUME TypeOK, NEW r \in Run, RunInv(r), Recording(r), intentDisk \subseteq intent
    PROVE  RunInv(r)' /\ intentDisk \subseteq intentDisk'
<1> USE DEF TypeOK, player, runs, records, intents, Go, Post, NotApplied, RunInv, Editing,
            Placed, Asked, Linked, Confirming, Early, Late, Begun, Stopped, Settled, Requests,
            Goals, Open
<1>1. CASE Save(r)
  BY <1>1 DEF Save
<1>2. CASE SaveFails(r)
  BY <1>2 DEF SaveFails
<1>3. CASE LateSave(r)
  BY <1>3 DEF LateSave
<1>4. CASE Complete(r)
  BY <1>4 DEF Complete
<1>5. CASE AcknowledgeBlocked(r)
  BY <1>5 DEF AcknowledgeBlocked
<1>6. CASE Acknowledge(r)
  BY <1>6 DEF Acknowledge, SyncIntent
<1> QED BY <1>1, <1>2, <1>3, <1>4, <1>5, <1>6 DEF Recording
\* What is evicted to hold one more record is proved.
LEMMA EvictedProved ==
    ASSUME TypeOK, NEW o \in Op, NEW f \in Reclaimed(o), NEW p \in Op
    PROVE  /\ f \in [Op -> {"none", "bare", "proved"}]
           /\ f[p] = file[p] \/ (file[p] = "proved" /\ f[p] = "none")
<1>1. /\ f \in [Op -> {"none", "bare", "proved"}]
      /\ \A s \in Op : f[s] = file[s] \/ (file[s] = "proved" /\ f[s] = "none")
  BY DEF Reclaimed
<1> QED BY <1>1

\* A step that writes records, or fails to, adds one only for the operation of
\* its run, proves one only of a verified commit, and loses no unproved one.
LEMMA RecordsKept ==
    ASSUME TypeOK, NEW r \in Run, RunInv(r), Recording(r), NEW o \in Op
    PROVE  /\ file'[o] # "none" \/ disk'[o] # "none" =>
                file[o] # "none" \/ disk[o] # "none" \/ o = op[r]
           /\ "proved" \in {file'[o], disk'[o]} =>
                "proved" \in {file[o], disk[o]} \/ (o = op[r] /\ fate[o] = "verified")
           /\ file[o] = "bare" /\ disk[o] # "none" => file'[o] # "none" /\ disk'[o] # "none"
<1>0. /\ file \in [Op -> {"none", "bare", "proved"}] /\ disk \in [Op -> {"none", "bare", "proved"}]
      /\ pc[r] = "complete" => op[r] \in Op /\ fate[op[r]] = "verified"
      /\ pc[r] = "save" \/ late[r] => op[r] \in Op
  BY DEF TypeOK, RunInv, Placed, Linked, Early
<1>1. op[r] \in Op =>
        \A f \in Reclaimed(op[r]) :
           /\ f \in [Op -> {"none", "bare", "proved"}]
           /\ f[o] = file[o] \/ (file[o] = "proved" /\ f[o] = "none")
  BY EvictedProved
<1>2. CASE Save(r)
  BY <1>0, <1>1, <1>2 DEF Save, Stored, WithRecord
<1>3. CASE SaveFails(r)
  BY <1>0, <1>1, <1>3 DEF SaveError, WithRecord, records, SaveFails
<1>4. CASE LateSave(r)
  BY <1>0, <1>1, <1>4 DEF LateSave, Stored, SaveError, WithRecord, records
<1>5. CASE Complete(r)
  BY <1>0, <1>5 DEF Complete, records
<1>6. CASE AcknowledgeBlocked(r) \/ Acknowledge(r)
  BY <1>6 DEF AcknowledgeBlocked, Acknowledge, records
<1> QED BY <1>2, <1>3, <1>4, <1>5, <1>6 DEF Recording

\* A commit is sent after its record is stored.
LEMMA CommitsWithRecord ==
    ASSUME TypeOK, NEW r \in Run, RunInv(r), Save(r)
    PROVE  op[r] \in Op /\ file'[op[r]] # "none" /\ disk'[op[r]] # "none"
<1>1. op[r] \in Op
  BY DEF TypeOK, RunInv, Placed, Early, Save
<1>2. \A f \in Reclaimed(op[r]) : f \in [Op -> {"none", "bare", "proved"}]
  BY <1>1, EvictedProved
<1> QED BY <1>1, <1>2 DEF Save, Stored, WithRecord

\* Steps that change records keep the invariant.
LEMMA RecordingStep ==
    ASSUME IInv, NEW r \in Run, Recording(r)
    PROVE  IInv'
<1>1. /\ TypeOK /\ OneRun /\ Books /\ Recoverable
      /\ \A q \in Run : RunInv(q)
      /\ intentDisk \subseteq intent
  BY DEF IInv, Books
<1>2. /\ UNCHANGED <<player, goal, op, confirmed>>
      /\ Others(r)
      /\ \A q \in Run : <<q, "commit">> \in net' =>
           <<q, "commit">> \in net \/ (q = r /\ Save(r))
  BY <1>1, RecordingFrame
<1>3. TypeOK'
  BY <1>1, RecordingType
<1>4. RunInv(r)' /\ intentDisk \subseteq intentDisk'
  BY <1>1, RecordingOwn
<1>5. ASSUME NEW q \in Run, q # r PROVE RunInv(q)'
  BY <1>1, <1>2, <1>4, <1>5, Undisturbed DEF Others, player
<1>6. OneRun'
  BY <1>1, <1>2, SameOneRun
<1>7. Books'
  <2>1. intentDisk' \subseteq intent'
    <3>1. CASE Acknowledge(r) \/ AcknowledgeBlocked(r)
      BY <1>1, <3>1 DEF AcknowledgeBlocked, Acknowledge, SyncIntent
    <3>2. CASE Save(r) \/ SaveFails(r) \/ LateSave(r) \/ Complete(r)
      BY <1>1, <3>2 DEF Save, SaveFails, LateSave, Complete, intents
    <3> QED BY <3>1, <3>2 DEF Recording
  <2>2. ASSUME NEW o \in Op
        PROVE  /\ file'[o] # "none" \/ disk'[o] # "none" => fate[o] # "none"
               /\ "proved" \in {file'[o], disk'[o]} => fate[o] = "verified"
    <3>1. /\ file'[o] # "none" \/ disk'[o] # "none" =>
               file[o] # "none" \/ disk[o] # "none" \/ o = op[r]
          /\ "proved" \in {file'[o], disk'[o]} =>
               "proved" \in {file[o], disk[o]} \/ (o = op[r] /\ fate[o] = "verified")
      BY <1>1, RecordsKept
    <3>2. op[r] \in Op => fate[op[r]] # "none"
      BY <1>1 DEF RunInv, Linked
    <3> QED BY <1>1, <3>1, <3>2 DEF Books
  <2>3. UNCHANGED <<fate, written, audit, confirmed>>
    BY <1>2 DEF player
  <2>4. ASSUME NEW o \in Op
        PROVE  /\ fate[o] \notin Begun \/ fate[o] = "not_applied" => written[o] = "none"
               /\ fate[o] = "verified" => written[o] = "all"
               /\ audit[o] # 0 => <<o, audit[o]>> \in confirmed \cap intentDisk'
    BY <1>1, <1>4 DEF Books
  <2> QED BY <2>1, <2>2, <2>3, <2>4 DEF Books
<1>8. Recoverable'
  <2> SUFFICES ASSUME NEW o \in Op,
                      \/ fate[o] \in {"pending", "partial", "unknown", "not_applied"}
                      \/ \E q \in Run : op[q] = o /\ <<q, "commit">> \in net'
               PROVE  disk'[o] # "none" /\ file'[o] # "none"
    BY <1>2 DEF Recoverable, player
  <2>1. CASE \E q \in Run : op[q] = o /\ q = r /\ Save(r)
    BY <1>1, <2>1, CommitsWithRecord
  <2>2. CASE \/ fate[o] \in {"pending", "partial", "unknown", "not_applied"}
             \/ \E q \in Run : op[q] = o /\ <<q, "commit">> \in net
    <3>1. disk[o] # "none" /\ file[o] # "none"
      BY <1>1, <2>2 DEF Recoverable
    <3>2. fate[o] # "verified"
      BY <1>1, <2>2 DEF RunInv, Asked, Linked, Editing, Begun, Settled
    <3>3. file[o] = "bare"
      BY <1>1, <3>1, <3>2 DEF Books, TypeOK
    <3> QED BY <1>1, <3>1, <3>3, RecordsKept
  <2> QED BY <1>2, <2>1, <2>2
<1> QED BY <1>3, <1>4, <1>5, <1>6, <1>7, <1>8 DEF IInv
-----------------------------------------------------------------------------
\* A process that starts names no operation, or one that the player knows.
LEMMA InvokeStep ==
    ASSUME IInv, NoOp \notin Op, NEW r \in Run, NEW g \in Goals \ {"none"},
           NEW o \in Op \cup {NoOp}, Invoke(r, g, o)
    PROVE  IInv'
<1>1. /\ TypeOK /\ OneRun /\ Books /\ Recoverable
      /\ \A q \in Run : RunInv(q)
  BY DEF IInv
<1>2. TypeOK'
  BY <1>1 DEF TypeOK, Invoke, player, records, intents, Goals
<1>3. Others(r)
  BY <1>1 DEF Others, SameRun, Invoke, TypeOK
<1>4. RunInv(r)'
  <2>1. o \in Op => file[o] # "none" \/ fate[o] # "none"
    BY DEF Invoke
  <2>2. o \in Op => fate[o] # "none"
    BY <1>1, <2>1 DEF Books
  <2>3. /\ goal[r] = "none" /\ pc[r] = "start" /\ outcome[r] = "none" /\ ~late[r]
        /\ plan[r] = 0 /\ \A k \in Requests : <<r, k>> \notin net
    BY <1>1 DEF Invoke, RunInv, Placed, Asked, Early
  <2>4. /\ goal'[r] = g /\ op'[r] = o
        /\ UNCHANGED <<player, net, reply, pc, plan, late, outcome, intents>>
    BY <1>1 DEF Invoke, TypeOK
  <2>5. \/ g \in {"replace", "preview"} /\ o = NoOp
        \/ g \in {"status", "acknowledge"} /\ o \in Op
    BY DEF Invoke
  <2> QED BY <2>2, <2>3, <2>4, <2>5 DEF player, intents, RunInv, Placed, Asked, Linked, Confirming,
                            Editing, Early, Requests
<1>5. ASSUME NEW q \in Run, q # r PROVE RunInv(q)'
  BY <1>1, <1>3, <1>5, Undisturbed DEF Others, Invoke, player, intents
<1>6. OneRun'
  BY <1>1 DEF OneRun, TypeOK, Invoke, Editing
<1>7. Books'
  BY <1>1 DEF Books, Invoke, player, records, intents
<1>8. Recoverable'
  <2>1. \A q \in Run : <<q, "commit">> \in net => op'[q] = op[q]
    BY <1>1 DEF RunInv, Asked, Invoke, TypeOK, Requests, Early
  <2> QED BY <1>1, <2>1 DEF Recoverable, Invoke, player, records
<1> QED BY <1>2, <1>4, <1>5, <1>6, <1>7, <1>8 DEF IInv

-----------------------------------------------------------------------------
(* Steps of the player                                                     *)

\* Stages come and go without harm to what is known of commits.
LEMMA StageOnly ==
    ASSUME NEW q \in Run, Linked(q), pc[q] = "commit" => op[q] \in Op,
           goal'[q] = goal[q], pc'[q] = pc[q], op'[q] = op[q],
           outcome'[q] = outcome[q], reply'[q] = reply[q] \/ reply'[q] \notin Settled,
           \A k \in Requests : <<q, k>> \in net' => <<q, k>> \in net,
           \A p \in Op : \/ fate'[p] = fate[p]
                         \/ /\ fate[p] \notin Begun \cup {"none"}
                            /\ fate'[p] \notin Begun \cup {"none"}
                            /\ fate[p] \in Stopped => fate'[p] \in Stopped
    PROVE  Linked(q)'
<1>1. CASE op[q] \notin Op
  BY <1>1 DEF Linked
<1>2. CASE op[q] \in Op
  <2>1. CASE fate'[op[q]] = fate[op[q]]
    BY <1>2, <2>1 DEF Linked, Editing, Settled, Requests
  <2>2. CASE fate'[op[q]] # fate[op[q]]
    <3>1. /\ fate[op[q]] \notin Begun \cup {"none"} /\ fate'[op[q]] \notin Begun \cup {"none"}
          /\ fate[op[q]] \in Stopped => fate'[op[q]] \in Stopped
      BY <1>2, <2>2
    <3> QED BY <1>2, <3>1 DEF Linked, Editing, Settled, Begun, Requests
  <2> QED BY <2>1, <2>2
<1> QED BY <1>1, <1>2

\* A request that is refused, or expires in the queue.
LEMMA RejectStep ==
    ASSUME IInv, NEW r \in Run, NEW k \in Requests, PlayerRejects(r, k)
    PROVE  IInv'
<1>1. /\ TypeOK /\ OneRun /\ Books /\ Recoverable
      /\ \A q \in Run : RunInv(q)
  BY DEF IInv
<1> USE DEF PlayerRejects, Take
<1>2. TypeOK'
  BY <1>1 DEF TypeOK, player, runs, records, intents
<1>3. ASSUME NEW q \in Run PROVE RunInv(q)'
  BY <1>1 DEF TypeOK, player, runs, intents, RunInv, Placed, Asked, Linked, Confirming, Editing,
              Settled
<1>4. OneRun' /\ Books' /\ Recoverable'
  BY <1>1 DEF OneRun, Books, Recoverable, Editing, player, runs, records, intents
<1> QED BY <1>2, <1>3, <1>4 DEF IInv

\* A new operation is minted: no run names it yet.
LEMMA PrepareStep ==
    ASSUME IInv, NEW r \in Run, NEW o \in Op, PlayerPrepare(r, o)
    PROVE  IInv'
<1>1. /\ TypeOK /\ OneRun /\ Books /\ Recoverable
      /\ \A q \in Run : RunInv(q)
  BY DEF IInv
<1>2. TypeOK'
  BY <1>1 DEF TypeOK, PlayerPrepare, Take, records, intents, Fates, Open
<1>3. \A q \in Run : op[q] \in Op => fate[op[q]] # "none" /\ op[q] # o
  BY <1>1 DEF RunInv, Linked, PlayerPrepare
<1>4. ASSUME NEW q \in Run PROVE RunInv(q)'
  <2> USE <1>1, <1>3 DEF PlayerPrepare, Take, RunInv
  <2>1. Placed(q)'
    BY DEF TypeOK, Placed, Editing, Early
  <2>2. Asked(q)'
    BY DEF TypeOK, Asked
  <2>3. Linked(q)'
    <3>1. /\ UNCHANGED <<goal, pc, outcome>> /\ (reply'[q] = reply[q] \/ reply'[q] = "ok")
          /\ \A k \in Requests : <<q, k>> \in net' => <<q, k>> \in net
      BY DEF TypeOK, runs
    <3>2. CASE op'[q] = op[q]
      <4>1. op[q] \in Op => fate'[op[q]] = fate[op[q]]
        BY DEF TypeOK
      <4> QED BY <3>1, <3>2, <4>1 DEF Linked, Editing, Settled, Requests
    <3>3. CASE op'[q] # op[q]
      <4>1. pc[q] = "prepare" /\ op'[q] = o /\ fate'[o] = "granted"
        BY <3>3 DEF TypeOK
      <4>2. outcome[q] = "none"
        BY <4>1 DEF Placed
      <4> QED BY <3>1, <4>1, <4>2 DEF Linked, Editing, Begun, Settled
    <3> QED BY <3>2, <3>3
  <2>4. Confirming(q)'
    BY DEF TypeOK, Placed, Asked, Confirming, intents, Early, Requests
  <2> QED BY <2>1, <2>2, <2>3, <2>4
<1>5. OneRun'
  BY <1>1, <1>3 DEF OneRun, TypeOK, PlayerPrepare, Editing
<1>6. Books'
  BY <1>1 DEF Books, PlayerPrepare, TypeOK, records, intents, Begun, Settled
<1>7. Recoverable'
  BY <1>1, <1>3 DEF Recoverable, PlayerPrepare, Take, TypeOK, records, RunInv, Asked, Late, Requests
<1> QED BY <1>2, <1>4, <1>5, <1>6, <1>7 DEF IInv

\* A stage begins, is ready, or is aborted.
LEMMA StagesStep ==
    ASSUME IInv, NEW r \in Run, NEW k \in Requests, PlayerStages(r, k)
    PROVE  IInv'
<1>1. /\ TypeOK /\ OneRun /\ Books /\ Recoverable
      /\ \A q \in Run : RunInv(q)
  BY DEF IInv
<1>2. op[r] \in Op
  BY <1>1 DEF PlayerStages, RunInv, Asked
<1>3. TypeOK'
  BY <1>1, <1>2 DEF TypeOK, PlayerStages, Take, runs, records, intents, Fates, Open
<1>4. ASSUME NEW q \in Run PROVE RunInv(q)'
  <2> USE <1>1, <1>2 DEF PlayerStages, Take, RunInv, runs
  <2>1. Placed(q)'
    BY DEF TypeOK, Placed, Editing
  <2>2. Asked(q)'
    BY DEF Asked
  <2>3. Linked(q)'
    <3>1. /\ UNCHANGED <<goal, pc, op, outcome>>
          /\ reply'[q] = reply[q] \/ reply'[q] \notin Settled
          /\ \A j \in Requests : <<q, j>> \in net' => <<q, j>> \in net
      BY DEF TypeOK, Settled
    <3>2. \A p \in Op : \/ fate'[p] = fate[p]
                        \/ /\ fate[p] \notin Begun \cup {"none"}
                           /\ fate'[p] \notin Begun \cup {"none"}
                           /\ fate[p] \in Stopped => fate'[p] \in Stopped
      BY DEF TypeOK, Open, Begun, Settled, Stopped
    <3>3. pc[q] = "commit" => op[q] \in Op
      BY DEF Placed, Early
    <3>4. Linked(q)
      OBVIOUS
    <3> QED BY <3>1, <3>2, <3>3, <3>4, StageOnly
  <2>4. Confirming(q)'
    BY DEF TypeOK, Confirming, intents
  <2> QED BY <2>1, <2>2, <2>3, <2>4
<1>5. OneRun'
  BY <1>1 DEF OneRun, PlayerStages, Editing, runs
<1>6. Books'
  BY <1>1, <1>2 DEF Books, PlayerStages, TypeOK, records, intents, Begun, Settled, Open
<1>7. Recoverable'
  BY <1>1, <1>2 DEF Recoverable, PlayerStages, Take, TypeOK, records, runs
<1> QED BY <1>3, <1>4, <1>5, <1>6, <1>7 DEF IInv
\* A commit is executed: the request that is taken was the last of its run, and no
\* other run edits under its operation.
LEMMA CommitsStep ==
    ASSUME IInv, NEW r \in Run, PlayerCommits(r)
    PROVE  IInv'
<1>1. /\ TypeOK /\ OneRun /\ Books /\ Recoverable
      /\ \A q \in Run : RunInv(q)
  BY DEF IInv
<1>2. /\ op[r] \in Op /\ fate[op[r]] = "ready" /\ goal[r] = "replace" /\ pc[r] \in Late
      /\ <<r, "commit">> \in net
  BY <1>1 DEF PlayerCommits, RunInv, Asked, Requests
<1>3. /\ UNCHANGED <<goal, pc, op, plan, late, outcome, reply, audit, records, intents>>
      /\ fate' = [fate EXCEPT ![op[r]] = "pending"]
      /\ net' = net \ {<<r, "commit">>}
  BY DEF PlayerCommits, runs
<1>4. TypeOK'
  BY <1>1, <1>2 DEF TypeOK, PlayerCommits, runs, records, intents, Fates
<1>5. ASSUME NEW q \in Run PROVE RunInv(q)'
  <2> USE <1>1, <1>2, <1>3 DEF RunInv
  <2>1. Placed(q)' /\ Asked(q)' /\ Confirming(q)'
    BY DEF Placed, Asked, Confirming, Editing, intents
  <2>2. Linked(q)'
    <3>1. CASE op[q] \in Op /\ op[q] = op[r]
      <4>1. Editing(q) => q = r
        BY <3>1 DEF OneRun, Editing
      <4>2. outcome[q] # "not_applied" /\ outcome[q] # "verified" /\ pc[q] # "complete"
        BY <3>1, <4>1 DEF Linked, Stopped
      <4>3. ~(pc[q] = "commit" /\ reply[q] \in Settled)
        BY <3>1 DEF Linked, Settled
      <4>4. fate'[op[q]] = "pending"
        BY <3>1 DEF TypeOK
      <4> QED BY <3>1, <4>1, <4>2, <4>3, <4>4 DEF Linked, Editing
    <3>2. CASE op[q] \in Op /\ op[q] # op[r]
      <4>1. fate'[op[q]] = fate[op[q]]
        BY <3>2 DEF TypeOK
      <4> QED BY <3>2, <4>1 DEF Linked, Editing
    <3>3. CASE op[q] \notin Op
      <4>1. pc[q] # "commit"
        BY <3>3 DEF Placed, Early
      <4> QED BY <3>3, <4>1 DEF Linked
    <3> QED BY <3>1, <3>2, <3>3
  <2> QED BY <2>1, <2>2
<1>6. OneRun'
  BY <1>1, <1>3, SameOneRun
<1>7. Books'
  <2>1. \A p \in Op : /\ p # op[r] => fate'[p] = fate[p] /\ written'[p] = written[p]
                      /\ p = op[r] => fate'[p] = "pending"
    BY <1>1, <1>2 DEF TypeOK, PlayerCommits
  <2> QED BY <1>1, <1>2, <1>3, <2>1 DEF Books, records, intents, Begun
<1>8. Recoverable'
  BY <1>1, <1>2, <1>3 DEF Recoverable, TypeOK, records
<1> QED BY <1>4, <1>5, <1>6, <1>7, <1>8 DEF IInv

\* A commit ends: only its own run can be told the outcome.
LEMMA SettlesStep ==
    ASSUME IInv, NEW o \in Op, NEW v \in Settled, PlayerSettles(o, v)
    PROVE  IInv'
<1>1. /\ TypeOK /\ OneRun /\ Books /\ Recoverable
      /\ \A q \in Run : RunInv(q)
  BY DEF IInv
<1>2. /\ UNCHANGED <<goal, pc, op, plan, late, outcome, net, audit, records, intents>>
      /\ fate[o] = "pending" /\ fate' = [fate EXCEPT ![o] = v]
      /\ reply' = [r \in Run |->
                      IF op[r] = o /\ pc[r] = "commit" /\ born[o] = runtime THEN v ELSE reply[r]]
  BY DEF PlayerSettles, runs
<1>3. TypeOK'
  BY <1>1 DEF TypeOK, PlayerSettles, runs, records, intents, Fates, Outcomes, Settled
<1>4. ASSUME NEW q \in Run PROVE RunInv(q)'
  <2> USE <1>1, <1>2 DEF RunInv
  <2>1. Placed(q)' /\ Asked(q)' /\ Confirming(q)'
    BY DEF Placed, Asked, Confirming, Editing, intents
  <2>2. Linked(q)'
    <3>1. CASE op[q] = o
      <4>1. fate'[o] = v
        BY DEF TypeOK
      <4>2. outcome[q] # "not_applied" /\ outcome[q] # "verified" /\ pc[q] # "complete"
        BY <3>1 DEF Linked, Stopped, Begun
      <4>3. pc[q] = "commit" /\ reply'[q] \in Settled => reply'[q] = v
        BY <3>1 DEF Linked, Settled
      <4>4. Editing(q) => pc[q] \in Late /\ <<q, "commit">> \notin net
        BY <3>1 DEF Linked, Begun
      <4> QED BY <3>1, <4>1, <4>2, <4>3, <4>4 DEF Linked, Editing, Settled
    <3>2. CASE op[q] # o
      <4>1. op[q] \in Op => fate'[op[q]] = fate[op[q]]
        BY <3>2 DEF TypeOK
      <4>2. reply'[q] = reply[q] /\ (pc[q] = "commit" => op[q] \in Op)
        BY <3>2 DEF Placed, Early
      <4> QED BY <3>2, <4>1, <4>2 DEF Linked, Editing
    <3> QED BY <3>1, <3>2
  <2> QED BY <2>1, <2>2
<1>5. OneRun'
  BY <1>1, <1>2, SameOneRun
<1>6. Books'
  <2>1. /\ \A p \in Op : p # o => fate'[p] = fate[p] /\ written'[p] = written[p]
        /\ fate'[o] = v
        /\ v = "not_applied" => written'[o] = "none"
        /\ v = "verified" => written'[o] = "all"
    BY <1>1 DEF TypeOK, PlayerSettles
  <2> QED BY <1>1, <1>2, <2>1 DEF Books, records, intents, Begun, Settled
<1>7. Recoverable'
  BY <1>1, <1>2 DEF Recoverable, TypeOK, records
<1> QED BY <1>3, <1>4, <1>5, <1>6, <1>7 DEF IInv

\* An acknowledgement is executed at the revision that its plan names.
LEMMA AcknowledgesStep ==
    ASSUME IInv, NEW r \in Run, PlayerAcknowledges(r)
    PROVE  IInv'
<1>1. /\ TypeOK /\ OneRun /\ Books /\ Recoverable
      /\ \A q \in Run : RunInv(q)
  BY DEF IInv
<1>2. op[r] \in Op /\ plan[r] = ledger /\ ledger \in Nat \ {0}
      /\ <<op[r], ledger>> \in confirmed \cap intentDisk
  BY <1>1 DEF PlayerAcknowledges, Take, RunInv, Asked, Confirming, Requests, TypeOK
<1>3. /\ UNCHANGED <<goal, pc, op, plan, late, outcome, fate, written, records, intents>>
      /\ audit' = [audit EXCEPT ![op[r]] = ledger]
      /\ reply' = IF pc[r] = "acknowledge" THEN [reply EXCEPT ![r] = "ok"] ELSE reply
      /\ net' \subseteq net
  BY DEF PlayerAcknowledges, Take, runs
<1>4. TypeOK'
  BY <1>1, <1>2 DEF TypeOK, PlayerAcknowledges, Take, runs, records, intents
<1>5. ASSUME NEW q \in Run PROVE RunInv(q)'
  <2> USE <1>1, <1>2, <1>3 DEF RunInv
  <2>1. Placed(q)' /\ Asked(q)' /\ Linked(q)'
    BY DEF TypeOK, Placed, Asked, Linked, Editing, Settled
  <2>2. Confirming(q)'
    BY DEF TypeOK, Placed, Confirming, intents
  <2> QED BY <2>1, <2>2
<1>6. OneRun' /\ Recoverable'
  BY <1>1, <1>3 DEF OneRun, Editing, Recoverable, records
<1>7. Books'
  <2>1. \A p \in Op : audit'[p] = audit[p] \/ (p = op[r] /\ audit'[p] = ledger)
    BY <1>1, <1>2, <1>3 DEF TypeOK
  <2> QED BY <1>1, <1>2, <1>3, <2>1 DEF Books, records, intents
<1> QED BY <1>4, <1>5, <1>6, <1>7 DEF IInv

\* Stages that expire, and those that a restart loses.
LEMMA LosesStep ==
    ASSUME IInv, (\E o \in Op : PlayerExpires(o)) \/ PlayerRestarts
    PROVE  IInv'
<1>1. /\ TypeOK /\ OneRun /\ Books /\ Recoverable
      /\ \A q \in Run : RunInv(q)
  BY DEF IInv
<1>2. /\ UNCHANGED <<written, born, ledger, audit, net, reply, runs, records, intents, outages>>
      /\ \A p \in Op : \/ fate'[p] = fate[p]
                       \/ /\ fate[p] \in Open \cup {"aborted", "expired"}
                          /\ fate'[p] \in Stopped
  BY <1>1 DEF PlayerExpires, PlayerRestarts, TypeOK, Stopped
<1>3. TypeOK'
  BY <1>1 DEF TypeOK, PlayerExpires, PlayerRestarts, runs, records, intents, Fates
<1>4. ASSUME NEW q \in Run PROVE RunInv(q)'
  <2>1. /\ UNCHANGED <<goal, pc, op, plan, late, outcome, net, reply, audit, intents>>
        /\ Placed(q) /\ Asked(q) /\ Linked(q) /\ Confirming(q)
    BY <1>1, <1>2 DEF runs, RunInv
  <2>2. Placed(q)' /\ Asked(q)' /\ Confirming(q)'
    BY <2>1 DEF Placed, Asked, Confirming, Editing, intents
  <2>3. \A p \in Op : \/ fate'[p] = fate[p]
                      \/ /\ fate[p] \notin Begun \cup {"none"}
                         /\ fate'[p] \notin Begun \cup {"none"}
                         /\ fate[p] \in Stopped => fate'[p] \in Stopped
    BY <1>2 DEF Open, Begun, Settled, Stopped
  <2>4. pc[q] = "commit" => op[q] \in Op
    BY <2>1 DEF Placed, Early
  <2>5. Linked(q)'
    BY <2>1, <2>3, <2>4, StageOnly
  <2> QED BY <2>2, <2>5 DEF RunInv
<1>5. OneRun'
  BY <1>1, <1>2, SameOneRun DEF runs
<1>6. Books'
  BY <1>1, <1>2 DEF Books, records, intents, Open, Begun, Settled, Stopped
<1>7. Recoverable'
  BY <1>1, <1>2 DEF Recoverable, records, runs, Stopped
<1> QED BY <1>3, <1>4, <1>5, <1>6, <1>7 DEF IInv

-----------------------------------------------------------------------------
\* Steps that are nobody's: a change by someone else, a plan that is shown, and
\* a power loss.
LEMMA ElsewhereStep ==
    ASSUME IInv, PlayerChanges \/ \E o \in Op : Inspect(o)
    PROVE  IInv'
<1>1. /\ TypeOK /\ OneRun /\ Books /\ Recoverable
      /\ \A q \in Run : RunInv(q)
  BY DEF IInv
<1>2. /\ UNCHANGED <<fate, written, audit, net, reply, runs, records, intent, intentDisk>>
      /\ confirmed \subseteq confirmed'
  BY DEF PlayerChanges, Inspect, player, intents
<1>3. TypeOK'
  BY <1>1 DEF TypeOK, PlayerChanges, Inspect, player, runs, records, intents
<1>4. ASSUME NEW q \in Run PROVE RunInv(q)'
  BY <1>1, <1>2, Undisturbed DEF SameRun, runs
<1>5. OneRun' /\ Books' /\ Recoverable'
  BY <1>1, <1>2 DEF OneRun, Editing, Books, Recoverable, runs, records
<1> QED BY <1>3, <1>4, <1>5 DEF IInv

\* After a power loss each file is as it was or as it was last synced.
LEMMA PowerLossStep ==
    ASSUME IInv, PowerLoss
    PROVE  IInv'
<1>1. /\ TypeOK /\ OneRun /\ Books /\ Recoverable
      /\ \A q \in Run : RunInv(q)
  BY DEF IInv
<1>2. /\ UNCHANGED <<player, net, reply, goal, op, plan, late, outcome, confirmed>>
      /\ pc' = [r \in Run |-> IF goal[r] = "none" THEN pc[r] ELSE "done"]
      /\ intentDisk \subseteq intentDisk' /\ intentDisk' = intent'
      /\ \A o \in Op : file'[o] \in {file[o], disk[o]} /\ disk'[o] = file'[o]
  BY <1>1 DEF PowerLoss, Books
<1>3. TypeOK'
  BY <1>1 DEF TypeOK, PowerLoss, player, Controls
<1>4. ASSUME NEW q \in Run PROVE RunInv(q)'
  <2>1. pc'[q] = IF goal[q] = "none" THEN pc[q] ELSE "done"
    BY <1>2
  <2>2. Placed(q) /\ Asked(q) /\ Linked(q) /\ Confirming(q)
    BY <1>1 DEF RunInv
  <2>3. Placed(q)' /\ Asked(q)' /\ Linked(q)' /\ Confirming(q)'
    BY <1>2, <2>1, <2>2 DEF Placed, Asked, Linked, Confirming, Editing, Early, Late, player
  <2> QED BY <2>3 DEF RunInv
<1>5. OneRun' /\ Books' /\ Recoverable'
  BY <1>1, <1>2 DEF OneRun, Editing, Books, Recoverable, player
<1> QED BY <1>3, <1>4, <1>5 DEF IInv
-----------------------------------------------------------------------------
\* Every step keeps the invariant.
LEMMA Inductive == FavoritesAssumption /\ IInv /\ [Next]_vars => IInv'
<1> SUFFICES ASSUME FavoritesAssumption, IInv, [Next]_vars PROVE IInv'
  OBVIOUS
<1>1. NoOp \notin Op
  BY DEF FavoritesAssumption
<1>2. ASSUME NEW r \in Run, RunStep(r) PROVE IInv'
  <2>1. CASE \E g \in Goals \ {"none"}, o \in Op \cup {NoOp} : Invoke(r, g, o)
    BY <1>1, <2>1, InvokeStep
  <2>2. CASE Quiet(r)
    BY <1>1, <2>2, QuietStep
  <2>3. CASE Recording(r)
    BY <2>3, RecordingStep
  <2> QED BY <1>2, <2>1, <2>2, <2>3 DEF RunStep, Quiet, Recording
<1>3. CASE PlayerStep
  BY <1>3, RejectStep, StagesStep, CommitsStep, AcknowledgesStep, PrepareStep, LosesStep,
     SettlesStep, ElsewhereStep DEF PlayerStep
<1>4. CASE \E o \in Op : Inspect(o)
  BY <1>4, ElsewhereStep
<1>5. CASE PowerLoss
  BY <1>5, PowerLossStep
<1>6. CASE UNCHANGED vars
  <2>1. ASSUME NEW q \in Run PROVE RunInv(q)'
    BY <1>6, Undisturbed DEF SameRun, vars, player, runs, intents, IInv
  <2> QED BY <1>6, <2>1 DEF IInv, vars, player, runs, records, intents, TypeOK, OneRun, Editing,
                           Books, Recoverable
<1> QED BY <1>2, <1>3, <1>4, <1>5, <1>6 DEF Next

\* The invariant holds of every behaviour.
LEMMA Invariant ==
    ASSUME FavoritesAssumption
    PROVE  Spec => []IInv
<1>1. Init => IInv
  BY InitInv
<1>2. IInv /\ [Next]_vars => IInv'
  BY Inductive
<1> QED BY <1>1, <1>2, PTL DEF Spec

\* The state has its types: no step of a run, of the player or of the host leaves
\* the values that the code gives each of them.
THEOREM TypeCorrect ==
    ASSUME FavoritesAssumption
    PROVE  Spec => []TypeOK
<1>1. IInv => TypeOK
  BY DEF IInv
<1> QED BY <1>1, Invariant, PTL

\* What the invariant says of outcomes and acknowledgements.
LEMMA Consequences ==
    ASSUME FavoritesAssumption, IInv
    PROVE  HonestOutcome /\ AcknowledgedAsConfirmed
<1>1. TypeOK /\ Books /\ \A r \in Run : Linked(r) /\ Confirming(r)
  BY DEF IInv, RunInv
<1>2. HonestOutcome
  <2> SUFFICES ASSUME NEW r \in Run
               PROVE  /\ outcome[r] = "verified" => written[op[r]] = "all"
                      /\ outcome[r] = "not_applied" /\ op[r] # NoOp => written[op[r]] = "none"
    BY DEF HonestOutcome
  <2>1. op[r] \in Op \cup {NoOp}
    BY <1>1 DEF TypeOK
  <2>2. /\ outcome[r] = "verified" => op[r] \in Op /\ fate[op[r]] = "verified"
        /\ outcome[r] = "not_applied" /\ op[r] \in Op =>
             fate[op[r]] = "not_applied" \/ fate[op[r]] \notin Begun
    BY <1>1 DEF Linked, Stopped, Begun, Settled
  <2> QED BY <1>1, <2>1, <2>2 DEF Books
<1>3. AcknowledgedAsConfirmed
  BY <1>1 DEF AcknowledgedAsConfirmed, Books, Confirming
<1> QED BY <1>2, <1>3

\* A commit that was sent can be recovered: whatever other runs evict, and
\* whenever a process stops or the power fails, its record is on disk until the
\* player has proved that it was applied (ContextStore, _save, mark_completed).
THEOREM RecoverableCorrect ==
    ASSUME FavoritesAssumption
    PROVE  Spec => []Recoverable
<1>1. IInv => Recoverable
  BY DEF IInv
<1> QED BY <1>1, Invariant, PTL

\* What a run reports is what happened and stays so, although a commit that it
\* gave up may still be executed (RemoteFavorites.replace, reconcile).
THEOREM HonestOutcomeCorrect ==
    ASSUME FavoritesAssumption
    PROVE  Spec => []HonestOutcome
<1>1. IInv => HonestOutcome
  BY Consequences
<1> QED BY <1>1, Invariant, PTL

\* The safety properties together, as the run checks them: recoverable
\* commits, honest outcomes, and acknowledgements as they were confirmed
\* (RemoteFavorites, ContextStore, AcknowledgementStore).
THEOREM SafeReplaceCorrect ==
    ASSUME FavoritesAssumption
    PROVE  Spec => []SafeReplace
<1>1. IInv => SafeReplace
  BY Consequences DEF IInv, SafeReplace
<1> QED BY <1>1, Invariant, PTL

-----------------------------------------------------------------------------
(* Sets of numbers in their order                                          *)

\* A finite set of numbers is counted in its order: a number's place is how many
\* are smaller.
LEMMA Enumeration ==
    ASSUME NEW S \in SUBSET Nat, IsFiniteSet(S)
    PROVE  /\ Cardinality(S) \in Nat
           /\ \E f \in [1..Cardinality(S) -> S] :
                 \A i, j \in DOMAIN f : i < j => f[i] < f[j]
<1> DEFINE n == Cardinality(S)
           Smaller(x) == {y \in S : y < x}
           place == [x \in S |-> Cardinality(Smaller(x)) + 1]
<1>1. n \in Nat
  BY FS_CardinalityType
<1>2. ASSUME NEW x \in S
      PROVE  /\ IsFiniteSet(Smaller(x)) /\ Cardinality(Smaller(x)) \in Nat
             /\ Cardinality(Smaller(x)) + 1 \in 1..n
  <2>1. /\ IsFiniteSet(S \ {x}) /\ Cardinality(S \ {x}) = n - 1
    BY FS_RemoveElement
  <2>2. Smaller(x) \in SUBSET (S \ {x})
    OBVIOUS
  <2>3. IsFiniteSet(Smaller(x)) /\ Cardinality(Smaller(x)) <= n - 1
    BY <2>1, <2>2, FS_Subset
  <2>4. Cardinality(Smaller(x)) \in Nat
    BY <2>3, FS_CardinalityType
  <2> QED BY <1>1, <2>3, <2>4
<1>3. ASSUME NEW x \in S, NEW y \in S, x < y
      PROVE  Cardinality(Smaller(x)) < Cardinality(Smaller(y))
  <2>1. Smaller(x) \in SUBSET Smaller(y) /\ x \in Smaller(y) /\ x \notin Smaller(x)
    <3>1. x \in Nat /\ y \in Nat /\ \A z \in S : z \in Nat
      OBVIOUS
    <3>2. \A z \in S : z < x => z < y
      BY <1>3, <3>1
    <3>3. ~(x < x)
      BY <3>1
    <3> QED BY <1>3, <3>2, <3>3
  <2>2. /\ Cardinality(Smaller(x)) <= Cardinality(Smaller(y))
        /\ Cardinality(Smaller(y)) = Cardinality(Smaller(x)) => Smaller(y) = Smaller(x)
    BY <1>2, <2>1, FS_Subset
  <2> QED BY <1>2, <2>1, <2>2
<1>4. ASSUME NEW x \in S, NEW y \in S PROVE x < y <=> place[x] < place[y]
  <2>1. place[x] = Cardinality(Smaller(x)) + 1 /\ place[y] = Cardinality(Smaller(y)) + 1
    OBVIOUS
  <2>2. x < y \/ y < x \/ x = y
    OBVIOUS
  <2> HIDE DEF Smaller, place
  <2> QED BY <1>2, <1>3, <2>1, <2>2
<1>5. place \in [S -> 1..n]
  BY <1>2
<1> HIDE DEF Smaller, place, n
<1>6. place \in Surjection(S, 1..n)
  <2>1. ASSUME NEW x \in S, NEW y \in S, place[x] = place[y] PROVE x = y
    <3>1. ~(x < y) /\ ~(y < x)
      BY <1>1, <1>4, <1>5, <2>1
    <3> QED BY <3>1
  <2>2. place \in Injection(S, 1..n)
    BY <1>5, <2>1 DEF Injection, IsInjective
  <2>3. IsFiniteSet(1..n) /\ Cardinality(1..n) = n
    BY <1>1, FS_Interval
  <2> QED BY <2>2, <2>3, FS_Injection DEF n
<1> DEFINE f == [k \in 1..n |-> CHOOSE x \in S : place[x] = k]
<1>7. ASSUME NEW k \in 1..n PROVE f[k] \in S /\ place[f[k]] = k
  BY <1>6 DEF Surjection
<1>8. f \in [1..n -> S]
  BY <1>7
<1> HIDE DEF f
<1>9. \A i, j \in DOMAIN f : i < j => f[i] < f[j]
  BY <1>4, <1>7, <1>8
<1> QED BY <1>1, <1>8, <1>9 DEF n

-----------------------------------------------------------------------------
(* The favorites of all players: documents and plans                       *)

\* No item is in a document twice.
Distinct(d) == \A i, j \in DOMAIN d : d[i].id = d[j].id => i = j
IdsOf(d) == {d[i].id : i \in DOMAIN d}

\* It has as many items as rows exactly when none is there twice.
LEMMA IdsCounted ==
    ASSUME NEW R, NEW d \in Seq(R)
    PROVE  /\ IsFiniteSet(IdsOf(d)) /\ Len(d) \in Nat
           /\ Cardinality(IdsOf(d)) = Len(d) <=> Distinct(d)
<1> DEFINE id == [i \in 1..Len(d) |-> d[i].id]
<1>1. Len(d) \in Nat /\ DOMAIN d = 1..Len(d)
  OBVIOUS
<1>2. IsFiniteSet(1..Len(d)) /\ Cardinality(1..Len(d)) = Len(d)
  BY <1>1, FS_Interval
<1>3. id \in Surjection(1..Len(d), IdsOf(d))
  BY <1>1 DEF Surjection, IdsOf
<1>4. id \in Injection(1..Len(d), IdsOf(d)) <=> Distinct(d)
  BY <1>1, <1>3 DEF Injection, IsInjective, Surjection, Distinct
<1> HIDE DEF id
<1> QED BY <1>1, <1>2, <1>3, <1>4, FS_Surjection

\* The module instantiated counts as the one extended here.
LEMMA ListsCardinality == \A S : Lists!Cardinality(S) = Cardinality(S)
  BY DEF Lists!Cardinality, Cardinality

\* What a document is.
LEMMA DocumentIs ==
    ASSUME Lists!GlobalAssumption, NEW d
    PROVE  d \in Lists!Document <=> d \in Seq(Lists!Row) /\ Distinct(d)
<1>0. IsFiniteSet(Item) /\ Cardinality(Item) \in Nat
  BY FS_CardinalityType DEF Lists!GlobalAssumption, Lists!IsFiniteSet, IsFiniteSet
<1>a. Lists!Ids(d) = IdsOf(d)
  BY DEF Lists!Ids, IdsOf
<1>1. ASSUME d \in Lists!Document PROVE d \in Seq(Lists!Row) /\ Distinct(d)
  <2>1. PICK n \in 0..Cardinality(Item) : d \in [1..n -> Lists!Row]
    BY <1>1, ListsCardinality DEF Lists!Document
  <2>2. d \in Seq(Lists!Row)
    BY <1>0, <2>1
  <2>3. Cardinality(IdsOf(d)) = Len(d)
    BY <1>1, <1>a, ListsCardinality DEF Lists!Document
  <2> QED BY <2>2, <2>3, IdsCounted
<1>2. ASSUME d \in Seq(Lists!Row), Distinct(d) PROVE d \in Lists!Document
  <2>1. IsFiniteSet(IdsOf(d)) /\ Cardinality(IdsOf(d)) = Len(d) /\ Len(d) \in Nat
    BY <1>2, IdsCounted
  <2>2. IdsOf(d) \in SUBSET Item
    <3>1. \A i \in DOMAIN d : d[i] \in Lists!Row
      BY <1>2
    <3> QED BY <3>1 DEF IdsOf, Lists!Row
  <2>3. Len(d) <= Cardinality(Item)
    BY <1>0, <2>1, <2>2, FS_Subset
  <2>4. Len(d) \in 0..Cardinality(Item) /\ d \in [1..Len(d) -> Lists!Row]
    BY <1>0, <1>2, <2>1, <2>3
  <2> QED BY <1>a, <2>1, <2>4, ListsCardinality DEF Lists!Document
<1> QED BY <1>1, <1>2

\* What remains of a document without some of its items.
LEMMA WithoutIs ==
    ASSUME NEW R, NEW d \in Seq(R), Distinct(d), NEW items
    PROVE  /\ Lists!Without(d, items) \in Seq(R)
           /\ Distinct(Lists!Without(d, items))
           /\ IdsOf(Lists!Without(d, items)) \cap items = {}
<1> DEFINE S == {i \in DOMAIN d : d[i].id \notin items}
           left == Lists!InOrder(S)
<1>1. Len(d) \in Nat /\ DOMAIN d = 1..Len(d)
  OBVIOUS
<1>2. S \in SUBSET Nat /\ S \in SUBSET (1..Len(d))
  BY <1>1
<1>3. IsFiniteSet(S)
  <2>1. IsFiniteSet(1..Len(d))
    BY <1>1, FS_Interval
  <2> HIDE DEF S
  <2> QED BY <1>2, <2>1, FS_Subset
<1> HIDE DEF S
<1>4. /\ Cardinality(S) \in Nat
      /\ left \in [1..Cardinality(S) -> S]
      /\ \A i, j \in DOMAIN left : i < j => left[i] < left[j]
  BY <1>2, <1>3, Enumeration, ListsCardinality DEF Lists!InOrder
<1>5. Lists!Without(d, items) = [n \in DOMAIN left |-> d[left[n]]]
  BY DEF Lists!Without, S
<1> HIDE DEF left
<1>6. \A n \in DOMAIN left : left[n] \in DOMAIN d /\ d[left[n]].id \notin items
  BY <1>4 DEF S
<1>7. Lists!Without(d, items) \in Seq(R)
  BY <1>1, <1>4, <1>5, <1>6
<1>8. \A i, j \in DOMAIN left : left[i] = left[j] => i = j
  <2> SUFFICES ASSUME NEW i \in 1..Cardinality(S), NEW j \in 1..Cardinality(S), left[i] = left[j]
               PROVE  i = j
    BY <1>4
  <2>1. left[i] \in Nat /\ DOMAIN left = 1..Cardinality(S)
    BY <1>2, <1>4
  <2>2. ~(left[i] < left[j]) /\ ~(left[j] < left[i])
    BY <2>1
  <2>3. ~(i < j) /\ ~(j < i)
    BY <1>4, <2>1, <2>2
  <2> QED BY <1>4, <2>3
<1>9. Distinct(Lists!Without(d, items))
  BY <1>5, <1>6, <1>8 DEF Distinct
<1> QED BY <1>5, <1>6, <1>7, <1>9 DEF IdsOf

\* The plan of a change of a document by a document is a document.
LEMMA PlanIs ==
    ASSUME Lists!GlobalAssumption, NEW d \in Lists!Document, NEW e \in Lists!Document, NEW mode
    PROVE  Lists!Plan(d, e, mode).rows \in Lists!Document
<1> DEFINE old == IF mode = "merge" THEN d ELSE <<>>
           new == Lists!Without(e, IdsOf(old))
<1>1. old \in Seq(Lists!Row) /\ Distinct(old)
  BY DocumentIs DEF Distinct
<1>2. new \in Seq(Lists!Row) /\ Distinct(new) /\ IdsOf(new) \cap IdsOf(old) = {}
  BY DocumentIs, WithoutIs
<1>3. Lists!Plan(d, e, mode).rows = old \o new
  BY DEF Lists!Plan, Lists!Ids, IdsOf
<1> HIDE DEF old, new
<1>4. /\ old \o new \in Seq(Lists!Row)
      /\ DOMAIN (old \o new) = 1..Len(old) + Len(new)
      /\ Len(old) \in Nat /\ Len(new) \in Nat
      /\ \A i \in 1..Len(old) : (old \o new)[i] = old[i] /\ i \in DOMAIN old
      /\ \A i \in (Len(old) + 1)..(Len(old) + Len(new)) :
            (old \o new)[i] = new[i - Len(old)] /\ i - Len(old) \in DOMAIN new
  BY <1>1, <1>2
<1>5. Distinct(old \o new)
  <2> SUFFICES ASSUME NEW i \in 1..Len(old) + Len(new), NEW j \in 1..Len(old) + Len(new),
                      (old \o new)[i].id = (old \o new)[j].id
               PROVE  i = j
    BY <1>4 DEF Distinct
  <2>1. CASE i \in 1..Len(old) /\ j \in 1..Len(old)
    BY <1>1, <1>4, <2>1 DEF Distinct
  <2>2. CASE i \notin 1..Len(old) /\ j \notin 1..Len(old)
    <3>1. i \in (Len(old) + 1)..(Len(old) + Len(new)) /\ j \in (Len(old) + 1)..(Len(old) + Len(new))
      BY <1>4, <2>2
    <3>2. i - Len(old) = j - Len(old)
      BY <1>2, <1>4, <3>1 DEF Distinct
    <3> QED BY <1>4, <3>1, <3>2
  <2>3. ASSUME NEW k \in 1..Len(old), NEW l \in (Len(old) + 1)..(Len(old) + Len(new))
        PROVE  (old \o new)[k].id # (old \o new)[l].id
    <3>1. (old \o new)[k].id \in IdsOf(old)
      BY <1>4 DEF IdsOf
    <3>2. (old \o new)[l].id \in IdsOf(new)
      BY <1>4 DEF IdsOf
    <3> QED BY <1>2, <3>1, <3>2
  <2>4. i \in 1..Len(old) \/ i \in (Len(old) + 1)..(Len(old) + Len(new))
    BY <1>4
  <2>5. j \in 1..Len(old) \/ j \in (Len(old) + 1)..(Len(old) + Len(new))
    BY <1>4
  <2> QED BY <2>1, <2>2, <2>3, <2>4, <2>5
<1> QED BY <1>3, <1>4, <1>5, DocumentIs

-----------------------------------------------------------------------------
(* The favorites of all players: lists                                     *)

\* The rows listed so far are the first ones of the favorites that the first page
\* was read from, and those are still the player's while the revision is.
Listing(r) ==
    /\ fence[r] <= rev
    /\ globalGoal[r] = "none" => globalPc[r] = "start"
    /\ globalPc[r] = "start" => fence[r] = 0 /\ rows[r] = <<>>
    /\ globalPc[r] = "list" =>
         \/ fence[r] = 0 /\ rows[r] = <<>>
         \/ /\ fence[r] # 0 /\ Len(rows[r]) < Len(first[r])
            /\ \A i \in DOMAIN rows[r] : rows[r][i] = first[r][i]
            /\ fence[r] = rev => first[r] = doc
    /\ globalPc[r] = "listed" => rows[r] = first[r]

\* What is acknowledged is a run, and what is added a row.
Chosen(r) ==
    /\ globalPc[r] = "intent" \/ <<r, "acknowledge">> \in globalNet => about[r] \in ListRuns
    /\ globalPc[r] = "export" /\ globalGoal[r] = "add" => picked[r] \in Lists!Row

ListsInv ==
    /\ Lists!TypeOK
    /\ globalPc = [r \in ListRuns |-> globalPc[r]]
    /\ \A r \in ListRuns : Listing(r) /\ Chosen(r)

\* No favorites at all are a document.
LEMMA EmptyDocument == Lists!GlobalAssumption => <<>> \in Lists!Document
<1>1. <<>> \in Seq(Lists!Row) /\ Distinct(<<>>)
  BY DEF Distinct
<1> QED BY <1>1, DocumentIs

\* A run starts with nothing listed and nothing chosen.
LEMMA ListsInit ==
    ASSUME Lists!GlobalAssumption, Lists!Init
    PROVE  ListsInv
<1>1. <<>> \in Lists!Document
  BY EmptyDocument
<1>2. rev = 1 /\ 1 \in 1..MaxFavorites /\ 0 \in 0..MaxFavorites
  BY DEF Lists!Init, Lists!GlobalAssumption
<1>3. Lists!TypeOK
  BY <1>1, <1>2 DEF Lists!Init, Lists!TypeOK, Lists!NoStage, Lists!Fates, Lists!Requests
<1>4. \A r \in ListRuns : Listing(r) /\ Chosen(r)
  BY <1>2 DEF Lists!Init, Listing, Chosen
<1> QED BY <1>3, <1>4 DEF ListsInv, Lists!Init

\* A step that leaves the lists of all runs alone.
LEMMA ListingKept ==
    ASSUME NEW r \in ListRuns, Listing(r), rev \in Nat,
           UNCHANGED <<rows[r], first[r], fence[r], globalGoal[r]>>,
           \/ doc' = doc /\ rev' = rev
           \/ rev' = rev + 1,
           \/ globalPc'[r] = globalPc[r]
           \/ globalPc'[r] \notin {"start", "list", "listed"} /\ globalGoal[r] # "none",
           fence[r] \in Nat
    PROVE  Listing(r)'
BY DEF Listing

\* A step that leaves what the choices rest on alone.
LEMMA ChosenKept ==
    ASSUME NEW r \in ListRuns, Chosen(r), UNCHANGED <<about[r], picked[r], globalGoal[r]>>,
           \/ globalPc'[r] = globalPc[r]
           \/ globalPc'[r] \notin {"intent", "export"},
           <<r, "acknowledge">> \in globalNet' => <<r, "acknowledge">> \in globalNet
    PROVE  Chosen(r)'
BY DEF Chosen

\* The steps of a run.
LEMMA ListsRunStep ==
    ASSUME Lists!GlobalAssumption, ListsInv, NEW r \in ListRuns,
           \/ \E g \in {"list", "play", "add", "remove", "merge", "replace", "clear", "preview",
                        "acknowledge"} : Lists!Invoke(r, g)
           \/ Lists!Refuse(r) \/ Lists!Select(r) \/ Lists!Capture(r) \/ Lists!Export(r)
           \/ Lists!Stage(r) \/ Lists!Staged(r) \/ Lists!Previewed(r) \/ Lists!StageFails(r)
           \/ Lists!Aborted(r) \/ Lists!Commit(r) \/ Lists!Committed(r) \/ Lists!Reconcile(r)
           \/ Lists!Inspect(r) \/ Lists!Acknowledge(r) \/ Lists!Acknowledged(r)
    PROVE  ListsInv'
<1> USE DEF Lists!player, Lists!inputs, Lists!Go, Lists!Post
<1>0. /\ Lists!TypeOK /\ globalPc = [q \in ListRuns |-> globalPc[q]]
      /\ \A q \in ListRuns : Listing(q) /\ Chosen(q)
      /\ rev \in Nat /\ rev \in 0..MaxFavorites /\ \A q \in ListRuns : fence[q] \in Nat
  BY DEF ListsInv, Lists!TypeOK, Lists!GlobalAssumption
<1>1. ASSUME NEW g \in {"list", "play", "add", "remove", "merge", "replace", "clear", "preview",
                        "acknowledge"}, Lists!Invoke(r, g)
      PROVE  ListsInv'
  <2>1. Lists!TypeOK' /\ globalPc' = [q \in ListRuns |-> globalPc'[q]]
    BY <1>0, <1>1 DEF Lists!Invoke, Lists!TypeOK
  <2>2. ASSUME NEW q \in ListRuns PROVE Listing(q)' /\ Chosen(q)'
    <3>1. CASE q # r
      <4>1. globalPc'[q] = globalPc[q] /\ globalGoal'[q] = globalGoal[q]
        BY <1>0, <1>1, <3>1 DEF Lists!Invoke, Lists!TypeOK
      <4> QED BY <1>0, <1>1, <4>1, ListingKept, ChosenKept DEF Lists!Invoke
    <3>2. CASE q = r
      <4>1. /\ globalPc[r] = "start" /\ globalGoal'[r] = g
            /\ globalPc'[r] \in {"list", "capture", "inspect", "export"}
            /\ globalPc'[r] = "export" => g # "add"
        BY <1>0, <1>1 DEF Lists!Invoke, Lists!TypeOK, Listing
      <4> QED BY <1>0, <1>1, <3>2, <4>1 DEF Lists!Invoke, Listing, Chosen
    <3> QED BY <3>1, <3>2
  <2> QED BY <2>1, <2>2 DEF ListsInv
<1>2. CASE Lists!Refuse(r) \/ Lists!Aborted(r) \/ Lists!Committed(r) \/ Lists!Reconcile(r)
           \/ Lists!Acknowledged(r)
  <2>1. /\ UNCHANGED <<Lists!player, globalNet, globalReply, Lists!inputs, expected>>
        /\ globalPc[r] # "start"
        /\ \E p \in {"done", "not_applied", "verified", "unknown"} :
              globalPc' = [globalPc EXCEPT ![r] = p]
    BY <1>2 DEF Lists!Refuse, Lists!Aborted, Lists!Committed, Lists!Reconcile, Lists!Acknowledged
  <2>2. Lists!TypeOK' /\ globalPc' = [q \in ListRuns |-> globalPc'[q]]
    BY <1>0, <2>1 DEF Lists!TypeOK
  <2>3. ASSUME NEW q \in ListRuns
        PROVE  \/ globalPc'[q] = globalPc[q]
               \/ /\ globalPc'[q] \in {"done", "not_applied", "verified", "unknown"}
                  /\ globalGoal[q] # "none"
    BY <1>0, <2>1 DEF Listing
  <2>4. ASSUME NEW q \in ListRuns PROVE Listing(q)' /\ Chosen(q)'
    BY <1>0, <2>1, <2>3, ListingKept, ChosenKept
  <2> QED BY <2>2, <2>4 DEF ListsInv
<1>3. CASE Lists!Stage(r) \/ Lists!Staged(r) \/ Lists!Previewed(r) \/ Lists!StageFails(r)
           \/ Lists!Commit(r)
  <2>1. /\ UNCHANGED <<Lists!player, Lists!inputs>>
        /\ expected' = expected \/ expected' = [expected EXCEPT ![r] = rev]
        /\ globalPc[r] # "start"
        /\ \E p \in {"begin", "preview", "abort", "save", "commit", "not_applied"} :
              globalPc' = [globalPc EXCEPT ![r] = p]
        /\ \/ UNCHANGED <<globalNet, globalReply>>
           \/ \E k \in {"begin", "preview", "abort", "commit"} :
                 /\ globalNet' = globalNet \cup {<<r, k>>}
                 /\ globalReply' = [globalReply EXCEPT ![r] = "none"]
    BY <1>3 DEF Lists!Stage, Lists!Staged, Lists!Previewed, Lists!StageFails, Lists!Commit
  <2>2. Lists!TypeOK' /\ globalPc' = [q \in ListRuns |-> globalPc'[q]]
    <3>1. globalNet' \in SUBSET (ListRuns \X Lists!Requests)
      BY <1>0, <2>1 DEF Lists!TypeOK, Lists!Requests
    <3>2. globalReply' \in [ListRuns -> {"none", "ok", "rejected"}]
      BY <1>0, <2>1 DEF Lists!TypeOK
    <3>3. expected' \in [ListRuns -> 0..MaxFavorites]
      BY <1>0, <2>1 DEF Lists!TypeOK
    <3>9. globalPc' = [q \in ListRuns |-> globalPc'[q]]
      BY <1>0, <2>1
    <3> QED BY <1>0, <2>1, <3>1, <3>2, <3>3, <3>9 DEF Lists!TypeOK
  <2>3. ASSUME NEW q \in ListRuns
        PROVE  /\ \/ globalPc'[q] = globalPc[q]
                  \/ /\ globalPc'[q] \in {"begin", "preview", "abort", "save", "commit", "not_applied"}
                     /\ globalGoal[q] # "none"
               /\ <<q, "acknowledge">> \in globalNet' => <<q, "acknowledge">> \in globalNet
    BY <1>0, <2>1 DEF Listing
  <2>4. ASSUME NEW q \in ListRuns PROVE Listing(q)' /\ Chosen(q)'
    BY <1>0, <2>1, <2>3, ListingKept, ChosenKept
  <2> QED BY <2>2, <2>4 DEF ListsInv
<1>4. CASE Lists!Select(r)
  <2>1. /\ UNCHANGED <<Lists!player, globalGoal, rows, fence, first, basis, base, wanted, about, expected>>
        /\ \E i \in DOMAIN rows[r] : picked' = [picked EXCEPT ![r] = rows[r][i]]
        /\ globalPc[r] = "listed" /\ globalGoal[r] \in {"play", "remove"}
        /\ \/ /\ globalPc' = [globalPc EXCEPT ![r] = "export"] /\ globalGoal[r] = "remove"
              /\ UNCHANGED <<globalNet, globalReply>>
           \/ /\ globalPc' = [globalPc EXCEPT ![r] = "play"]
              /\ globalNet' = globalNet \cup {<<r, "play">>}
              /\ globalReply' = [globalReply EXCEPT ![r] = "none"]
    BY <1>4 DEF Lists!Select
  <2>2. \A i \in DOMAIN rows[r] : rows[r][i] \in Lists!Row
    <3>1. rows[r] \in Seq(Lists!Row)
      BY <1>0, DocumentIs DEF Lists!TypeOK
    <3> QED BY <3>1
  <2>3. Lists!TypeOK' /\ globalPc' = [q \in ListRuns |-> globalPc'[q]]
    BY <1>0, <2>1, <2>2 DEF Lists!TypeOK, Lists!Requests
  <2>4. ASSUME NEW q \in ListRuns PROVE Listing(q)' /\ Chosen(q)'
    <3>1. CASE q # r
      <4>1. /\ globalPc'[q] = globalPc[q] /\ picked'[q] = picked[q]
            /\ <<q, "acknowledge">> \in globalNet' => <<q, "acknowledge">> \in globalNet
        BY <1>0, <2>1, <3>1 DEF Lists!TypeOK
      <4> QED BY <1>0, <2>1, <4>1, ListingKept, ChosenKept
    <3>2. CASE q = r
      <4>1. /\ globalPc'[r] \in {"export", "play"} /\ globalGoal[r] # "add"
            /\ <<r, "acknowledge">> \in globalNet' => <<r, "acknowledge">> \in globalNet
        BY <1>0, <2>1
      <4> QED BY <1>0, <2>1, <3>2, <4>1, ListingKept DEF Chosen
    <3> QED BY <3>1, <3>2
  <2> QED BY <2>3, <2>4 DEF ListsInv
<1>5. CASE Lists!Capture(r)
  <2>1. /\ UNCHANGED <<Lists!player, globalNet, globalReply, globalGoal, rows, first, basis, base,
                       wanted, about, expected>>
        /\ globalPc[r] = "capture" /\ globalPc' = [globalPc EXCEPT ![r] = "export"]
        /\ fence' = [fence EXCEPT ![r] = rev]
        /\ \E row \in Lists!Row : picked' = [picked EXCEPT ![r] = row]
    BY <1>5 DEF Lists!Capture
  <2>2. Lists!TypeOK' /\ globalPc' = [q \in ListRuns |-> globalPc'[q]]
    <3>1. picked' \in [ListRuns -> Lists!Row \cup {Lists!NoRow}]
      BY <1>0, <2>1 DEF Lists!TypeOK
    <3>2. fence' \in [ListRuns -> 0..MaxFavorites]
      BY <1>0, <2>1 DEF Lists!TypeOK
    <3>9. globalPc' = [q \in ListRuns |-> globalPc'[q]]
      BY <1>0, <2>1
    <3> QED BY <1>0, <2>1, <3>1, <3>2, <3>9 DEF Lists!TypeOK
  <2>3. ASSUME NEW q \in ListRuns PROVE Listing(q)' /\ Chosen(q)'
    <3>1. CASE q # r
      <4>1. globalPc'[q] = globalPc[q] /\ picked'[q] = picked[q] /\ fence'[q] = fence[q]
        BY <1>0, <2>1, <3>1 DEF Lists!TypeOK
      <4> QED BY <1>0, <2>1, <4>1, ListingKept, ChosenKept
    <3>2. CASE q = r
      <4>1. globalPc'[r] = "export" /\ picked'[r] \in Lists!Row /\ fence'[r] = rev
        BY <1>0, <2>1 DEF Lists!TypeOK
      <4> QED BY <1>0, <2>1, <3>2, <4>1 DEF Listing, Chosen
    <3> QED BY <3>1, <3>2
  <2> QED BY <2>2, <2>3 DEF ListsInv
<1>6. CASE Lists!Export(r)
  <2>1. /\ UNCHANGED <<Lists!player, globalNet, globalReply, globalGoal, rows, fence, first, picked,
                       about, expected>>
        /\ globalPc[r] = "export" /\ globalPc' = [globalPc EXCEPT ![r] = "planned"]
        /\ basis' = [basis EXCEPT ![r] = doc] /\ base' = [base EXCEPT ![r] = rev]
        /\ \E w \in Lists!Incoming(r) : wanted' = [wanted EXCEPT ![r] = w]
    BY <1>6 DEF Lists!Export
  <2>2. Lists!Incoming(r) \in SUBSET Lists!Document
    <3>1. globalGoal[r] = "add" => <<picked[r]>> \in Lists!Document
      <4>1. ASSUME NEW x \in Lists!Row PROVE <<x>> \in Lists!Document
        <5>1. <<x>> \in Seq(Lists!Row) /\ Distinct(<<x>>)
          BY DEF Distinct
        <5> QED BY <5>1, DocumentIs
      <4> QED BY <1>0, <2>1, <4>1 DEF Chosen
    <3>2. Lists!Without(doc, {picked[r].id}) \in Lists!Document
      BY <1>0, DocumentIs, WithoutIs DEF Lists!TypeOK
    <3>3. <<>> \in Lists!Document /\ Saved \in SUBSET Lists!Document
      BY EmptyDocument DEF Lists!GlobalAssumption
    <3> QED BY <3>1, <3>2, <3>3 DEF Lists!Incoming
  <2>3. Lists!TypeOK' /\ globalPc' = [q \in ListRuns |-> globalPc'[q]]
    <3>1. basis' \in [ListRuns -> Lists!Document] /\ wanted' \in [ListRuns -> Lists!Document]
      BY <1>0, <2>1, <2>2 DEF Lists!TypeOK
    <3>2. base' \in [ListRuns -> 0..MaxFavorites]
      BY <1>0, <2>1 DEF Lists!TypeOK
    <3>9. globalPc' = [q \in ListRuns |-> globalPc'[q]]
      BY <1>0, <2>1
    <3> QED BY <1>0, <2>1, <3>1, <3>2, <3>9 DEF Lists!TypeOK
  <2>4. ASSUME NEW q \in ListRuns
        PROVE  \/ globalPc'[q] = globalPc[q]
               \/ globalPc'[q] = "planned" /\ globalGoal[q] # "none"
    BY <1>0, <2>1 DEF Listing
  <2>5. ASSUME NEW q \in ListRuns PROVE Listing(q)' /\ Chosen(q)'
    BY <1>0, <2>1, <2>4, ListingKept, ChosenKept
  <2> QED BY <2>3, <2>5 DEF ListsInv
<1>7. CASE Lists!Inspect(r)
  <2>1. /\ UNCHANGED <<Lists!player, globalNet, globalReply, globalGoal, rows, fence, first, picked,
                       basis, base, wanted, expected>>
        /\ globalPc[r] = "inspect" /\ globalPc' = [globalPc EXCEPT ![r] = "intent"]
        /\ \E o \in ListRuns : about' = [about EXCEPT ![r] = o]
    BY <1>7 DEF Lists!Inspect
  <2>2. Lists!TypeOK' /\ globalPc' = [q \in ListRuns |-> globalPc'[q]]
    BY <1>0, <2>1 DEF Lists!TypeOK
  <2>3. ASSUME NEW q \in ListRuns
        PROVE  \/ globalPc'[q] = globalPc[q] /\ about'[q] = about[q]
               \/ globalPc'[q] = "intent" /\ globalGoal[q] # "none" /\ about'[q] \in ListRuns
    BY <1>0, <2>1 DEF Listing, Lists!TypeOK
  <2>4. ASSUME NEW q \in ListRuns PROVE Listing(q)'
    BY <1>0, <2>1, <2>3, ListingKept
  <2>5. ASSUME NEW q \in ListRuns PROVE Chosen(q)'
    BY <1>0, <2>1, <2>3 DEF Chosen
  <2> QED BY <2>2, <2>4, <2>5 DEF ListsInv
<1>8. CASE Lists!Acknowledge(r)
  <2>1. /\ UNCHANGED <<Lists!player, Lists!inputs, expected>>
        /\ globalPc[r] = "intent" /\ globalPc' = [globalPc EXCEPT ![r] = "acknowledge"]
        /\ globalNet' = globalNet \cup {<<r, "acknowledge">>}
        /\ globalReply' = [globalReply EXCEPT ![r] = "none"]
    BY <1>8 DEF Lists!Acknowledge
  <2>2. Lists!TypeOK' /\ globalPc' = [q \in ListRuns |-> globalPc'[q]]
    <3>1. globalNet' \in SUBSET (ListRuns \X Lists!Requests)
      BY <1>0, <2>1 DEF Lists!TypeOK, Lists!Requests
    <3>2. globalReply' \in [ListRuns -> {"none", "ok", "rejected"}]
      BY <1>0, <2>1 DEF Lists!TypeOK
    <3>9. globalPc' = [q \in ListRuns |-> globalPc'[q]]
      BY <1>0, <2>1
    <3> QED BY <1>0, <2>1, <3>1, <3>2, <3>9 DEF Lists!TypeOK
  <2>3. ASSUME NEW q \in ListRuns
        PROVE  \/ globalPc'[q] = globalPc[q]
               \/ globalPc'[q] = "acknowledge" /\ globalGoal[q] # "none"
    BY <1>0, <2>1 DEF Listing
  <2>4. ASSUME NEW q \in ListRuns PROVE Listing(q)'
    BY <1>0, <2>1, <2>3, ListingKept
  <2>5. ASSUME NEW q \in ListRuns PROVE Chosen(q)'
    BY <1>0, <2>1, <2>3 DEF Chosen
  <2> QED BY <2>2, <2>4, <2>5 DEF ListsInv
<1> QED BY <1>1, <1>2, <1>3, <1>4, <1>5, <1>6, <1>7, <1>8

\* One page.
LEMMA ListsReadStep ==
    ASSUME Lists!GlobalAssumption, ListsInv, NEW r \in ListRuns, Lists!ReadPage(r)
    PROVE  ListsInv'
<1> USE DEF Lists!player, Lists!Go
<1>0. /\ Lists!TypeOK /\ globalPc = [q \in ListRuns |-> globalPc[q]]
      /\ \A q \in ListRuns : Listing(q) /\ Chosen(q)
      /\ rev \in Nat /\ rev # 0 /\ rev \in 0..MaxFavorites /\ \A q \in ListRuns : fence[q] \in Nat
  BY DEF ListsInv, Lists!TypeOK, Lists!GlobalAssumption
<1>1. /\ UNCHANGED <<doc, rev, stage, globalFate, acked, globalNet, globalReply, globalGoal, picked,
                     basis, base, wanted, about, expected>>
      /\ globalPc[r] = "list"
      /\ \/ /\ fence[r] = 0 /\ fence' = [fence EXCEPT ![r] = rev]
            /\ first' = [first EXCEPT ![r] = doc]
         \/ fence[r] # 0 /\ fence[r] = rev /\ UNCHANGED <<fence, first>>
      /\ rows' = [rows EXCEPT ![r] = IF doc = <<>> THEN @ ELSE Append(@, doc[Len(@) + 1])]
      /\ Lists!Cardinality(Lists!Ids(rows'[r])) = Len(rows'[r])
      /\ globalPc' = [globalPc EXCEPT ![r] = IF Len(rows'[r]) = Len(doc) THEN "listed" ELSE "list"]
  BY DEF Lists!ReadPage, Lists!SamePage
<1>2. doc \in Seq(Lists!Row) /\ rows[r] \in Seq(Lists!Row) /\ first[r] \in Seq(Lists!Row)
  BY <1>0, DocumentIs DEF Lists!TypeOK
<1>3. /\ \A i \in DOMAIN rows[r] : rows[r][i] = doc[i]
      /\ Len(rows[r]) < Len(doc) \/ (doc = <<>> /\ rows[r] = <<>>)
  <2>1. CASE fence[r] = 0
    <3>1. rows[r] = <<>>
      BY <1>0, <1>1, <2>1 DEF Listing
    <3> QED BY <1>2, <3>1
  <2>2. CASE fence[r] # 0
    <3>1. fence[r] = rev
      BY <1>1, <2>2
    <3>2. Listing(r) /\ globalPc[r] = "list"
      BY <1>0, <1>1
    <3>3. /\ Len(rows[r]) < Len(first[r]) /\ first[r] = doc
          /\ \A i \in DOMAIN rows[r] : rows[r][i] = first[r][i]
      BY <2>2, <3>1, <3>2 DEF Listing
    <3> QED BY <3>3
  <2> QED BY <2>1, <2>2
<1>4. /\ fence' = [fence EXCEPT ![r] = rev] /\ first' = [first EXCEPT ![r] = doc]
  <2>1. CASE fence[r] = 0
    BY <1>1, <2>1
  <2>2. CASE fence[r] # 0
    <3>1. fence[r] = rev /\ first[r] = doc /\ UNCHANGED <<fence, first>>
      BY <1>0, <1>1, <2>2 DEF Listing
    <3> QED BY <1>0, <3>1 DEF Lists!TypeOK
  <2> QED BY <2>1, <2>2
<1> DEFINE more == IF doc = <<>> THEN rows[r] ELSE Append(rows[r], doc[Len(rows[r]) + 1])
<1>5. rows' = [rows EXCEPT ![r] = more] /\ rows'[r] = more
  BY <1>0, <1>1 DEF Lists!TypeOK
<1>6. /\ more \in Seq(Lists!Row) /\ Len(more) <= Len(doc)
      /\ \A i \in DOMAIN more : more[i] = doc[i]
  <2>1. CASE doc = <<>>
    BY <1>2, <1>3, <2>1
  <2>2. CASE doc # <<>>
    <3>1. /\ Len(rows[r]) < Len(doc) /\ Len(rows[r]) \in Nat /\ Len(doc) \in Nat
          /\ doc[Len(rows[r]) + 1] \in Lists!Row
      BY <1>2, <1>3, <2>2
    <3>2. more = Append(rows[r], doc[Len(rows[r]) + 1])
      BY <2>2
    <3> HIDE DEF more
    <3>3. /\ more \in Seq(Lists!Row) /\ Len(more) = Len(rows[r]) + 1
          /\ \A i \in 1..Len(rows[r]) : more[i] = rows[r][i]
          /\ more[Len(rows[r]) + 1] = doc[Len(rows[r]) + 1]
      BY <1>2, <3>1, <3>2
    <3>4. \A i \in DOMAIN more : i \in 1..Len(rows[r]) \/ i = Len(rows[r]) + 1
      BY <3>1, <3>3
    <3> QED BY <1>2, <1>3, <3>1, <3>3, <3>4
  <2> QED BY <2>1, <2>2
<1> HIDE DEF more
<1>7. more \in Lists!Document
  <2>1. Distinct(more)
    <3>1. Cardinality(IdsOf(more)) = Len(more)
      <4>1. Lists!Ids(more) = IdsOf(more)
        BY DEF Lists!Ids, IdsOf
      <4>2. Lists!Cardinality(Lists!Ids(more)) = Len(more)
        BY <1>1, <1>5
      <4> QED BY <4>1, <4>2, ListsCardinality
    <3> QED BY <1>6, <3>1, IdsCounted
  <2> QED BY <1>6, <2>1, DocumentIs
<1>8. Lists!TypeOK' /\ globalPc' = [q \in ListRuns |-> globalPc'[q]]
  <2>1. rows' \in [ListRuns -> Lists!Document]
    BY <1>0, <1>5, <1>7 DEF Lists!TypeOK
  <2>2. first' \in [ListRuns -> Lists!Document] /\ fence' \in [ListRuns -> 0..MaxFavorites]
    BY <1>0, <1>4 DEF Lists!TypeOK
  <2>3. globalPc' = [q \in ListRuns |-> globalPc'[q]]
    BY <1>0, <1>1
  <2> QED BY <1>0, <1>1, <2>1, <2>2, <2>3 DEF Lists!TypeOK
<1>9. ASSUME NEW q \in ListRuns PROVE Listing(q)' /\ Chosen(q)'
  <2>1. CASE q # r
    <3>1. /\ globalPc'[q] = globalPc[q] /\ rows'[q] = rows[q] /\ first'[q] = first[q]
          /\ fence'[q] = fence[q]
      BY <1>0, <1>1, <1>4, <1>5, <2>1 DEF Lists!TypeOK
    <3> QED BY <1>0, <1>1, <3>1, ListingKept, ChosenKept
  <2>2. CASE q = r
    <3>1. /\ globalPc'[r] = IF Len(more) = Len(doc) THEN "listed" ELSE "list"
          /\ rows'[r] = more /\ first'[r] = doc /\ fence'[r] = rev
      BY <1>0, <1>1, <1>4, <1>5 DEF Lists!TypeOK
    <3>2. CASE Len(more) = Len(doc)
      <4>1. more = doc
        BY <1>2, <1>6, <3>2
      <4> QED BY <1>0, <1>1, <2>2, <3>1, <3>2, <4>1 DEF Listing, Chosen
    <3>3. CASE Len(more) # Len(doc)
      <4>1. Len(more) < Len(doc)
        BY <1>2, <1>6, <3>3
      <4>2. Listing(r)'
        BY <1>0, <1>1, <1>6, <3>1, <3>3, <4>1 DEF Listing
      <4>3. Chosen(r)'
        BY <1>0, <1>1, <3>1, <3>3 DEF Chosen
      <4> QED BY <2>2, <4>2, <4>3
    <3> QED BY <3>2, <3>3
  <2> QED BY <2>1, <2>2
<1> QED BY <1>8, <1>9 DEF ListsInv

\* What the player and the viewer do.
LEMMA ListsPlayerStep ==
    ASSUME Lists!GlobalAssumption, ListsInv,
           \/ \E r \in ListRuns :
                 \/ Lists!PlayerBegins(r) \/ Lists!PlayerPreviews(r) \/ Lists!PlayerCommits(r)
                 \/ Lists!PlayerAborts(r) \/ Lists!PlayerPlays(r) \/ Lists!PlayerAcknowledges(r)
           \/ Lists!PlayerExpires \/ Lists!ViewerChanges
    PROVE  ListsInv'
<1> USE DEF Lists!player, Lists!inputs, Lists!Take, Lists!Answer
<1>0. /\ Lists!TypeOK /\ globalPc = [q \in ListRuns |-> globalPc[q]]
      /\ \A q \in ListRuns : Listing(q) /\ Chosen(q)
      /\ rev \in Nat /\ rev \in 1..MaxFavorites /\ MaxFavorites \in Nat
      /\ \A q \in ListRuns : fence[q] \in Nat
      /\ <<>> \in Lists!Document
  BY EmptyDocument DEF ListsInv, Lists!TypeOK, Lists!GlobalAssumption
<1>1. /\ UNCHANGED <<Lists!inputs, globalPc, expected>>
      /\ globalNet' \in SUBSET globalNet
      /\ \/ UNCHANGED <<doc, rev>>
         \/ rev < MaxFavorites /\ rev' = rev + 1
  BY DEF Lists!PlayerBegins, Lists!PlayerPreviews, Lists!PlayerCommits, Lists!PlayerAborts,
     Lists!PlayerPlays, Lists!PlayerAcknowledges, Lists!PlayerExpires, Lists!ViewerChanges,
     Lists!Replace
<1>2. rev' \in 1..MaxFavorites
  BY <1>0, <1>1
<1>3. doc' \in Lists!Document
  <2>1. stage.result \in Lists!Document
    BY <1>0 DEF Lists!TypeOK
  <2> QED BY <1>0, <2>1 DEF Lists!PlayerBegins, Lists!PlayerPreviews, Lists!PlayerCommits,
             Lists!PlayerAborts, Lists!PlayerPlays, Lists!PlayerAcknowledges, Lists!PlayerExpires,
             Lists!ViewerChanges, Lists!Replace, Lists!TypeOK
<1> DEFINE Transactions == [run : ListRuns \cup {NoRun}, rev : 0..MaxFavorites,
                            result : Lists!Document, shown : BOOLEAN]
<1>4. stage' \in Transactions
  <2>0. Lists!NoStage \in Transactions
    BY <1>0 DEF Lists!NoStage
  <2>1. stage \in Transactions
    BY <1>0 DEF Lists!TypeOK
  <2>2. ASSUME NEW r \in ListRuns, Lists!PlayerBegins(r) PROVE stage' \in Transactions
    <3>1. stage' = stage \/ stage' = [Lists!NoStage EXCEPT !.run = r, !.rev = rev]
      BY <2>2 DEF Lists!PlayerBegins
    <3>2. rev \in 0..MaxFavorites
      BY <1>0
    <3>3. [Lists!NoStage EXCEPT !.run = r, !.rev = rev] \in Transactions
      BY <2>0, <3>2
    <3> QED BY <2>1, <3>1, <3>3
  <2>3. ASSUME NEW r \in ListRuns, Lists!PlayerPreviews(r) PROVE stage' \in Transactions
    <3>1. PICK d \in {Lists!Plan(doc, wanted[r], Lists!Mode(r)).rows, wanted[r]} :
            stage' = [[stage EXCEPT !.result = d] EXCEPT !.shown = TRUE]
      BY <2>3 DEF Lists!PlayerPreviews
    <3>2. doc \in Lists!Document /\ wanted[r] \in Lists!Document
      BY <1>0 DEF Lists!TypeOK
    <3>3. d \in Lists!Document
      BY <3>1, <3>2, PlanIs
    <3> QED BY <2>1, <3>1, <3>3
  <2>4. ASSUME NEW r \in ListRuns,
               Lists!PlayerCommits(r) \/ Lists!PlayerAborts(r) \/ Lists!PlayerPlays(r)
               \/ Lists!PlayerAcknowledges(r)
        PROVE  stage' \in Transactions
    <3> HIDE DEF Transactions
    <3> QED BY <2>0, <2>1, <2>4 DEF Lists!PlayerCommits, Lists!PlayerAborts, Lists!PlayerPlays,
               Lists!PlayerAcknowledges
  <2>5. CASE Lists!PlayerExpires \/ Lists!ViewerChanges
    BY <2>0, <2>1, <2>5 DEF Lists!PlayerExpires, Lists!ViewerChanges
  <2> HIDE DEF Transactions
  <2> QED BY <2>2, <2>3, <2>4, <2>5
<1>5. globalFate' \in [ListRuns -> Lists!Fates]
  <2> QED BY <1>0 DEF Lists!PlayerBegins, Lists!PlayerPreviews, Lists!PlayerCommits,
             Lists!PlayerAborts, Lists!PlayerPlays, Lists!PlayerAcknowledges, Lists!PlayerExpires,
             Lists!ViewerChanges, Lists!TypeOK, Lists!Fates
<1>6. globalReply' \in [ListRuns -> {"none", "ok", "rejected"}]
  <2> QED BY <1>0 DEF Lists!PlayerBegins, Lists!PlayerPreviews, Lists!PlayerCommits,
             Lists!PlayerAborts, Lists!PlayerPlays, Lists!PlayerAcknowledges, Lists!PlayerExpires,
             Lists!ViewerChanges, Lists!TypeOK
<1>7. acked' \in SUBSET ListRuns
  <2>1. acked \in SUBSET ListRuns
    BY <1>0 DEF Lists!TypeOK
  <2>2. ASSUME NEW r \in ListRuns, Lists!PlayerAcknowledges(r) PROVE acked' \in SUBSET ListRuns
    BY <1>0, <2>1, <2>2 DEF Lists!PlayerAcknowledges, Chosen
  <2> QED BY <2>1, <2>2 DEF Lists!PlayerBegins, Lists!PlayerPreviews, Lists!PlayerCommits,
             Lists!PlayerAborts, Lists!PlayerPlays, Lists!PlayerExpires, Lists!ViewerChanges
<1>8. Lists!TypeOK'
  <2>1. globalNet' \in SUBSET (ListRuns \X Lists!Requests)
    BY <1>0, <1>1 DEF Lists!TypeOK
  <2> QED BY <1>0, <1>1, <1>2, <1>3, <1>4, <1>5, <1>6, <1>7, <2>1 DEF Lists!TypeOK
<1>9. ASSUME NEW q \in ListRuns PROVE Listing(q)' /\ Chosen(q)'
  BY <1>0, <1>1, ListingKept, ChosenKept
<1> QED BY <1>0, <1>1, <1>8, <1>9 DEF ListsInv

\* What a list is, for one part of a composition.
LEMMA ListsKept ==
    ASSUME Lists!GlobalAssumption
    PROVE  Lists!Init /\ [][Lists!Next]_Lists!vars => [](Lists!TypeOK /\ Lists!ListedAtOnce)
<1>1. Lists!Init => ListsInv
  BY ListsInit
<1>2. ListsInv /\ [Lists!Next]_Lists!vars => ListsInv'
  <2>1. CASE Lists!Next
    BY <2>1, ListsRunStep, ListsReadStep, ListsPlayerStep DEF Lists!Next
  <2>2. CASE UNCHANGED Lists!vars
    BY <2>2 DEF Lists!vars, Lists!player, Lists!inputs, ListsInv, Listing, Chosen, Lists!TypeOK
  <2> QED BY <2>1, <2>2
<1>3. ListsInv => Lists!TypeOK /\ Lists!ListedAtOnce
  BY DEF ListsInv, Listing, Lists!ListedAtOnce
<1> QED BY <1>1, <1>2, <1>3, PTL

-----------------------------------------------------------------------------
(* The favorites of all players: plans                                     *)

\* Where a run is once it has named a revision to the player.
Revised == {"begin", "preview", "save", "commit", "abort", "not_applied", "verified", "unknown"}

\* A snapshot is the favorites while its revision stands, the player's transaction is
\* that of the snapshot, no request outlives the run's place by more than one, and the
\* result on the player is the plan from the moment the run has compared them.
Staging(r) ==
    /\ base[r] <= rev
    /\ base[r] = rev => basis[r] = doc
    /\ globalGoal[r] = "none" => globalPc[r] = "start"
    /\ globalPc[r] \in Revised => expected[r] = base[r]
    /\ <<r, "begin">> \in globalNet =>
         /\ globalPc[r] \in {"begin", "not_applied"}
         /\ globalPc[r] = "begin" => globalReply[r] = "none"
    /\ <<r, "preview">> \in globalNet =>
         /\ globalPc[r] \in {"preview", "abort", "not_applied"}
         /\ globalPc[r] = "preview" => globalReply[r] = "none"
    /\ <<r, "commit">> \in globalNet =>
         /\ globalPc[r] \in {"commit", "verified", "unknown", "not_applied"}
         /\ <<r, "begin">> \notin globalNet /\ <<r, "preview">> \notin globalNet
    /\ <<r, "play">> \in globalNet => globalPc[r] \in {"play", "done"}
    /\ <<r, "acknowledge">> \in globalNet => globalPc[r] \in {"acknowledge", "done"}
    /\ stage.run = r =>
         /\ globalPc[r] \in Revised /\ stage.rev = base[r]
         /\ globalPc[r] = "save" \/ <<r, "commit">> \in globalNet =>
              stage.result = Plans!Planned(r)

PlansShape ==
    /\ rev \in Nat
    /\ globalPc = [r \in PlanRuns |-> globalPc[r]]
    /\ globalReply = [r \in PlanRuns |-> globalReply[r]]
    /\ globalGoal = [r \in PlanRuns |-> globalGoal[r]]
    /\ basis = [r \in PlanRuns |-> basis[r]]
    /\ base \in [PlanRuns -> Nat]
    /\ wanted = [r \in PlanRuns |-> wanted[r]]
    /\ expected = [r \in PlanRuns |-> expected[r]]
    /\ DOMAIN stage = {"run", "rev", "result", "shown"}

PlansInv == PlansShape /\ \A r \in PlanRuns : Staging(r)

\* No run has asked the player for anything at first.
LEMMA PlansInit ==
    ASSUME Plans!GlobalAssumption, Plans!Init
    PROVE  PlansInv
<1>1. PlansShape
  BY DEF Plans!Init, Plans!NoStage, PlansShape
<1>2. ASSUME NEW r \in PlanRuns PROVE Staging(r)
  <2>1. stage.run # r
    BY DEF Plans!Init, Plans!NoStage, Plans!GlobalAssumption
  <2> QED BY <2>1 DEF Plans!Init, Staging, Revised
<1> QED BY <1>1, <1>2 DEF PlansInv

\* The plan of a run is its snapshot's, with its document and goal.
LEMMA PlannedKept ==
    ASSUME NEW r, UNCHANGED <<basis[r], wanted[r], globalGoal[r]>>
    PROVE  Plans!Planned(r)' = Plans!Planned(r)
BY DEF Plans!Planned, Plans!Mode

\* A step that does not move the run.
LEMMA StagingKept ==
    ASSUME NEW r \in PlanRuns, Staging(r), rev \in Nat, base[r] \in Nat,
           UNCHANGED <<basis[r], base[r], wanted[r], expected[r], globalGoal[r], globalPc[r]>>,
           \/ doc' = doc /\ rev' = rev
           \/ rev' = rev + 1,
           stage'.run = r => stage' = stage,
           \A k \in {"begin", "preview", "commit", "play", "acknowledge"} :
              <<r, k>> \in globalNet' => <<r, k>> \in globalNet,
           \/ globalReply'[r] = globalReply[r]
           \/ globalPc[r] \notin {"begin", "preview"}
           \/ <<r, "begin">> \notin globalNet' /\ <<r, "preview">> \notin globalNet'
    PROVE  Staging(r)'
<1>1. Plans!Planned(r)' = Plans!Planned(r)
  BY PlannedKept
<1> HIDE DEF Revised
<1> QED BY <1>1 DEF Staging

\* The steps of a run: before it has named a revision,
LEMMA PlansReadingStep ==
    ASSUME Plans!GlobalAssumption, PlansInv, NEW r \in PlanRuns,
           \/ \E g \in {"merge", "clear", "acknowledge"} : Plans!Invoke(r, g)
           \/ Plans!Refuse(r) \/ Plans!ReadPage(r) \/ Plans!Select(r) \/ Plans!Capture(r)
           \/ Plans!Export(r) \/ Plans!Inspect(r) \/ Plans!Acknowledge(r)
           \/ Plans!Acknowledged(r)
    PROVE  PlansInv'
<1> USE DEF Plans!player, Plans!inputs, Plans!Go, Plans!Post
<1>0. PlansShape /\ \A q \in PlanRuns : Staging(q)
  BY DEF PlansInv
<1>1. /\ UNCHANGED <<doc, rev, stage, expected>>
      /\ globalPc' = [globalPc EXCEPT ![r] = globalPc'[r]]
      /\ \/ UNCHANGED <<globalNet, globalReply>>
         \/ /\ \/ globalPc'[r] = "play" /\ globalNet' = globalNet \cup {<<r, "play">>}
               \/ globalPc'[r] = "acknowledge" /\ globalNet' = globalNet \cup {<<r, "acknowledge">>}
            /\ globalReply' = [globalReply EXCEPT ![r] = "none"]
      /\ \/ UNCHANGED globalGoal
         \/ globalGoal[r] = "none" /\ globalGoal' = [globalGoal EXCEPT ![r] = globalGoal'[r]]
      /\ globalGoal'[r] # "none" \/ globalGoal'[r] = globalGoal[r]
      /\ \/ UNCHANGED <<basis, base, wanted>>
         \/ /\ basis' = [basis EXCEPT ![r] = doc] /\ base' = [base EXCEPT ![r] = rev]
            /\ wanted' = [wanted EXCEPT ![r] = wanted'[r]]
  BY <1>0 DEF Plans!Invoke, Plans!Refuse, Plans!ReadPage, Plans!Select, Plans!Capture,
     Plans!Export, Plans!Inspect, Plans!Acknowledge, Plans!Acknowledged, PlansShape
<1>2. /\ globalPc[r] \notin Revised \cup {"done"}
      /\ \/ globalPc[r] \in {"play", "acknowledge"} /\ globalPc'[r] = "done"
         \/ globalPc[r] \notin {"play", "acknowledge"} /\ globalPc'[r] \notin Revised \cup {"start"}
  <2>1. CASE \E g \in {"merge", "clear", "acknowledge"} : Plans!Invoke(r, g)
    <3>1. /\ globalPc[r] = "start"
          /\ globalPc'[r] \in {"list", "capture", "inspect", "export"}
      BY <1>0, <2>1 DEF Plans!Invoke, PlansShape, Staging
    <3> QED BY <3>1 DEF Revised
  <2>2. CASE Plans!Refuse(r) \/ Plans!Acknowledged(r)
    <3>1. /\ globalPc[r] \in {"list", "listed", "capture", "export", "planned", "inspect",
                             "intent", "play", "acknowledge"}
          /\ globalPc'[r] = "done"
      BY <1>0, <2>2 DEF Plans!Refuse, Plans!Acknowledged, PlansShape
    <3> QED BY <3>1 DEF Revised
  <2>3. CASE \/ Plans!ReadPage(r) \/ Plans!Select(r) \/ Plans!Capture(r) \/ Plans!Export(r)
             \/ Plans!Inspect(r) \/ Plans!Acknowledge(r)
    <3>1. /\ globalPc[r] \in {"list", "listed", "capture", "export", "inspect", "intent"}
          /\ globalPc'[r] \in {"list", "listed", "play", "export", "planned", "intent",
                               "acknowledge"}
      BY <1>0, <2>3 DEF Plans!ReadPage, Plans!Select, Plans!Capture, Plans!Export,
         Plans!Inspect, Plans!Acknowledge, PlansShape
    <3> QED BY <3>1 DEF Revised
  <2> QED BY <2>1, <2>2, <2>3
<1>3. PlansShape'
  BY <1>0, <1>1 DEF PlansShape
<1>4. ASSUME NEW q \in PlanRuns, q # r PROVE Staging(q)'
  <2>1. UNCHANGED <<basis[q], base[q], wanted[q], expected[q], globalGoal[q], globalPc[q],
                    globalReply[q]>>
    BY <1>0, <1>1, <1>4 DEF PlansShape
  <2>2. \A k : <<q, k>> \in globalNet' => <<q, k>> \in globalNet
    BY <1>1, <1>4
  <2> QED BY <1>0, <1>1, <2>1, <2>2, StagingKept DEF PlansShape
<1>5. Staging(r)'
  <2>1. /\ stage.run # r /\ <<r, "begin">> \notin globalNet' /\ <<r, "preview">> \notin globalNet'
        /\ <<r, "commit">> \notin globalNet'
    BY <1>0, <1>1, <1>2 DEF Staging, Revised
  <2>2. base'[r] <= rev' /\ (base'[r] = rev' => basis'[r] = doc')
    <3>1. CASE UNCHANGED <<basis, base, wanted>>
      BY <1>0, <1>1, <3>1 DEF Staging
    <3>2. CASE basis' = [basis EXCEPT ![r] = doc] /\ base' = [base EXCEPT ![r] = rev]
      <4>1. basis'[r] = doc /\ base'[r] = rev
        BY <1>0, <3>2 DEF PlansShape
      <4> QED BY <1>0, <1>1, <4>1 DEF PlansShape
    <3> QED BY <1>1, <3>1, <3>2
  <2>3. /\ <<r, "play">> \in globalNet' => globalPc'[r] \in {"play", "done"}
        /\ <<r, "acknowledge">> \in globalNet' => globalPc'[r] \in {"acknowledge", "done"}
    BY <1>0, <1>1, <1>2 DEF Staging
  <2>4. globalPc'[r] \notin Revised
    BY <1>2 DEF Revised
  <2>5. globalGoal'[r] = "none" => globalPc'[r] = "start"
    BY <1>0 DEF Plans!Invoke, Plans!Refuse, Plans!ReadPage, Plans!Select, Plans!Capture,
       Plans!Export, Plans!Inspect, Plans!Acknowledge, Plans!Acknowledged, PlansShape, Staging
  <2> QED BY <1>1, <2>1, <2>2, <2>3, <2>4, <2>5 DEF Staging
<1> QED BY <1>3, <1>4, <1>5 DEF PlansInv

\* and from then on.
LEMMA PlansStagingStep ==
    ASSUME Plans!GlobalAssumption, PlansInv, NEW r \in PlanRuns,
           \/ Plans!Stage(r) \/ Plans!Staged(r) \/ Plans!Previewed(r) \/ Plans!StageFails(r)
           \/ Plans!Aborted(r) \/ Plans!Commit(r) \/ Plans!Committed(r) \/ Plans!Reconcile(r)
    PROVE  PlansInv'
<1> USE DEF Plans!player, Plans!inputs, Plans!Go, Plans!Post
<1>0. PlansShape /\ \A q \in PlanRuns : Staging(q)
  BY DEF PlansInv
<1>1. /\ UNCHANGED <<doc, rev, stage, Plans!inputs>>
      /\ globalPc' = [globalPc EXCEPT ![r] = globalPc'[r]]
      /\ \/ UNCHANGED <<globalNet, globalReply>>
         \/ /\ globalPc'[r] \in {"begin", "preview", "abort", "commit"}
            /\ globalNet' = globalNet \cup {<<r, globalPc'[r]>>}
            /\ globalReply' = [globalReply EXCEPT ![r] = "none"]
      /\ \/ UNCHANGED expected
         \/ expected' = [expected EXCEPT ![r] = rev]
  BY <1>0 DEF Plans!Stage, Plans!Staged, Plans!Previewed, Plans!StageFails, Plans!Aborted,
     Plans!Commit, Plans!Committed, Plans!Reconcile, PlansShape
<1>2. PlansShape'
  BY <1>0, <1>1 DEF PlansShape
<1>3. ASSUME NEW q \in PlanRuns, q # r PROVE Staging(q)'
  <2>1. UNCHANGED <<basis[q], base[q], wanted[q], expected[q], globalGoal[q], globalPc[q],
                    globalReply[q]>>
    BY <1>0, <1>1, <1>3 DEF PlansShape
  <2>2. \A k : <<q, k>> \in globalNet' => <<q, k>> \in globalNet
    BY <1>1, <1>3
  <2> QED BY <1>0, <1>1, <2>1, <2>2, StagingKept DEF PlansShape
<1>4. Plans!Planned(r)' = Plans!Planned(r)
  BY <1>1, PlannedKept
<1>5. Staging(r)'
  <2>0. Staging(r) /\ UNCHANGED <<doc, rev, stage, Plans!inputs>>
    BY <1>0, <1>1
  <2>1. CASE Plans!Stage(r)
    <3>1. /\ globalPc[r] = "planned" /\ globalPc'[r] = "begin" /\ expected'[r] = base[r]
          /\ globalNet' = globalNet \cup {<<r, "begin">>} /\ globalReply'[r] = "none"
      BY <1>0, <2>1 DEF Plans!Stage, Plans!Refreshed, PlansShape
    <3> QED BY <2>0, <3>1 DEF Staging, Revised
  <2>2. CASE Plans!Staged(r)
    <3>1. /\ globalPc[r] = "begin" /\ globalPc'[r] = "preview" /\ expected'[r] = expected[r]
          /\ globalReply[r] = "ok"
          /\ globalNet' = globalNet \cup {<<r, "preview">>} /\ globalReply'[r] = "none"
      BY <1>0, <2>2 DEF Plans!Staged, PlansShape
    <3> QED BY <2>0, <3>1 DEF Staging, Revised
  <2>3. CASE Plans!Previewed(r)
    <3>1. /\ globalPc[r] = "preview" /\ globalReply[r] = "ok" /\ expected'[r] = expected[r]
          /\ stage.result = Plans!Planned(r)
          /\ \/ /\ globalPc'[r] = "abort" /\ globalNet' = globalNet \cup {<<r, "abort">>}
             \/ globalPc'[r] = "save" /\ globalNet' = globalNet
      BY <1>0, <2>3 DEF Plans!Previewed, Plans!Bound, PlansShape
    <3> QED BY <1>4, <2>0, <3>1 DEF Staging, Revised
  <2>4. CASE Plans!StageFails(r) \/ Plans!Aborted(r)
    <3>1. /\ expected'[r] = expected[r]
          /\ \/ /\ globalPc[r] \in {"begin", "abort"} /\ globalPc'[r] = "not_applied"
                /\ globalNet' = globalNet
             \/ /\ \/ globalPc[r] \in {"preview", "save"}
                   \/ globalPc[r] = "begin" /\ globalReply[r] = "ok"
                /\ globalPc'[r] = "abort" /\ globalNet' = globalNet \cup {<<r, "abort">>}
      BY <1>0, <2>4 DEF Plans!StageFails, Plans!Aborted, PlansShape
    <3> QED BY <1>4, <2>0, <3>1 DEF Staging, Revised
  <2>5. CASE Plans!Commit(r)
    <3>1. /\ globalPc[r] = "save" /\ globalPc'[r] = "commit" /\ expected'[r] = expected[r]
          /\ globalNet' = globalNet \cup {<<r, "commit">>}
      BY <1>0, <2>5 DEF Plans!Commit, PlansShape
    <3> QED BY <1>4, <2>0, <3>1 DEF Staging, Revised
  <2>6. CASE Plans!Committed(r) \/ Plans!Reconcile(r)
    <3>1. /\ globalPc[r] = "commit" /\ globalPc'[r] \in {"verified", "unknown", "not_applied"}
          /\ expected'[r] = expected[r] /\ globalNet' = globalNet
      BY <1>0, <2>6 DEF Plans!Committed, Plans!Reconcile, PlansShape
    <3> QED BY <1>4, <2>0, <3>1 DEF Staging, Revised
  <2> QED BY <2>1, <2>2, <2>3, <2>4, <2>5, <2>6
<1> QED BY <1>2, <1>3, <1>5 DEF PlansInv

\* What the player and the viewer do.
LEMMA PlansPlayerStep ==
    ASSUME Plans!GlobalAssumption, PlansInv,
           \/ \E r \in PlanRuns :
                 \/ Plans!PlayerBegins(r) \/ Plans!PlayerPreviews(r) \/ Plans!PlayerCommits(r)
                 \/ Plans!PlayerAborts(r) \/ Plans!PlayerPlays(r) \/ Plans!PlayerAcknowledges(r)
           \/ Plans!PlayerExpires \/ Plans!ViewerChanges
    PROVE  PlansInv' /\ Plans!CommitsThePlan
<1> USE DEF Plans!player, Plans!inputs, Plans!Take, Plans!Answer
<1>0. PlansShape /\ \A q \in PlanRuns : Staging(q)
  BY DEF PlansInv
<1>1. /\ UNCHANGED <<Plans!inputs, globalPc, expected>>
      /\ \/ UNCHANGED <<doc, rev>>
         \/ rev' = rev + 1
      /\ globalNet' \in SUBSET globalNet
  BY DEF Plans!PlayerBegins, Plans!PlayerPreviews, Plans!PlayerCommits, Plans!PlayerAborts,
     Plans!PlayerPlays, Plans!PlayerAcknowledges, Plans!PlayerExpires, Plans!ViewerChanges,
     Plans!Replace
<1>2. \A q \in PlanRuns :
         /\ UNCHANGED <<basis[q], base[q], wanted[q], expected[q], globalGoal[q], globalPc[q]>>
         /\ \A k : <<q, k>> \in globalNet' => <<q, k>> \in globalNet
         /\ base[q] \in Nat
  BY <1>0, <1>1 DEF PlansShape
<1>3. NoRun \notin PlanRuns
  BY DEF Plans!GlobalAssumption
<1>4. ASSUME NEW r \in PlanRuns, Plans!PlayerBegins(r) PROVE PlansInv' /\ Plans!CommitsThePlan
  <2>1. /\ <<r, "begin">> \in globalNet /\ globalNet' = globalNet \ {<<r, "begin">>}
        /\ UNCHANGED <<doc, rev>>
        /\ globalReply' = [globalReply EXCEPT ![r] = globalReply'[r]]
        /\ \/ stage' = stage
           \/ /\ expected[r] = rev /\ stage.run = NoRun
              /\ stage'.run = r /\ stage'.rev = rev
              /\ DOMAIN stage' = {"run", "rev", "result", "shown"}
    <3>1. CASE stage' = stage
      BY <1>0, <1>4, <3>1 DEF Plans!PlayerBegins, PlansShape
    <3>2. CASE /\ stage = Plans!NoStage /\ expected[r] = rev
               /\ stage' = [Plans!NoStage EXCEPT !.run = r, !.rev = rev]
      <4>1. stage'.run = r /\ stage'.rev = rev
        BY <3>2 DEF Plans!NoStage
      <4>2. DOMAIN stage' = {"run", "rev", "result", "shown"}
        BY <3>2 DEF Plans!NoStage
      <4>3. stage.run = NoRun
        BY <3>2 DEF Plans!NoStage
      <4> QED BY <1>0, <1>4, <3>2, <4>1, <4>2, <4>3 DEF Plans!PlayerBegins, PlansShape
    <3> QED BY <1>4, <3>1, <3>2 DEF Plans!PlayerBegins
  <2>2. PlansShape'
    BY <1>0, <1>1, <2>1 DEF PlansShape
  <2>3. ASSUME NEW q \in PlanRuns PROVE Staging(q)'
    <3>1. CASE q # r \/ stage' = stage
      <4>1. \/ globalReply'[q] = globalReply[q]
            \/ globalPc[q] \notin {"begin", "preview"}
            \/ <<q, "begin">> \notin globalNet' /\ <<q, "preview">> \notin globalNet'
        BY <1>0, <2>1 DEF Staging, PlansShape
      <4>2. stage'.run = q => stage' = stage
        BY <2>1, <3>1
      <4> QED BY <1>0, <1>2, <2>1, <4>1, <4>2, StagingKept DEF PlansShape
    <3>2. CASE q = r /\ stage' # stage
      <4>1. /\ globalPc[r] \in {"begin", "not_applied"} /\ base[r] = rev
            /\ stage'.run = r /\ stage'.rev = rev /\ Staging(r)
            /\ <<r, "commit">> \notin globalNet
            /\ <<r, "preview">> \notin globalNet \/ globalPc[r] = "not_applied"
        BY <1>0, <2>1, <3>2 DEF Staging, Revised
      <4> QED BY <1>1, <1>2, <2>1, <3>2, <4>1 DEF Staging, Revised
    <3> QED BY <3>1, <3>2
  <2>4. Plans!CommitsThePlan
    BY <2>1 DEF Plans!CommitsThePlan
  <2> QED BY <2>2, <2>3, <2>4 DEF PlansInv
<1>5. ASSUME NEW r \in PlanRuns, Plans!PlayerPreviews(r) PROVE PlansInv' /\ Plans!CommitsThePlan
  <2>1. /\ <<r, "preview">> \in globalNet /\ globalNet' = globalNet \ {<<r, "preview">>}
        /\ UNCHANGED <<doc, rev>>
        /\ globalReply' = [globalReply EXCEPT ![r] = "ok"]
        /\ stage.run = r /\ stage' = [stage EXCEPT !.result = stage'.result, !.shown = TRUE]
    BY <1>0, <1>5 DEF Plans!PlayerPreviews, PlansShape
  <2>2. PlansShape' /\ stage'.run = r /\ stage'.rev = stage.rev
    BY <1>0, <1>1, <2>1 DEF PlansShape
  <2>3. ASSUME NEW q \in PlanRuns PROVE Staging(q)'
    <3>1. CASE q # r
      <4>1. globalReply'[q] = globalReply[q]
        BY <1>0, <2>1, <3>1 DEF PlansShape
      <4> QED BY <1>0, <1>2, <2>1, <2>2, <3>1, <4>1, StagingKept DEF PlansShape
    <3>2. CASE q = r
      <4>1. /\ Staging(r) /\ globalPc[r] \in {"preview", "abort", "not_applied"}
            /\ <<r, "commit">> \notin globalNet
            /\ globalPc[r] = "preview" => <<r, "begin">> \notin globalNet
        BY <1>0, <2>1 DEF Staging
      <4> QED BY <1>1, <1>2, <2>1, <2>2, <3>2, <4>1 DEF Staging, Revised
    <3> QED BY <3>1, <3>2
  <2>4. Plans!CommitsThePlan
    BY <2>1 DEF Plans!CommitsThePlan
  <2> QED BY <2>2, <2>3, <2>4 DEF PlansInv
<1>6. ASSUME NEW r \in PlanRuns, Plans!PlayerCommits(r) PROVE PlansInv' /\ Plans!CommitsThePlan
  <2>1. /\ <<r, "commit">> \in globalNet
        /\ stage.run = r /\ stage.rev = rev /\ stage'.run = NoRun
        /\ globalReply' = [globalReply EXCEPT ![r] = globalReply'[r]]
        /\ doc' # doc => doc' = stage.result
        /\ stage' = [run |-> NoRun, rev |-> 0, result |-> <<>>, shown |-> FALSE]
    BY <1>0, <1>6 DEF Plans!PlayerCommits, Plans!Replace, Plans!NoStage, PlansShape
  <2>2. PlansShape'
    BY <1>0, <1>1, <2>1 DEF PlansShape
  <2>3. ASSUME NEW q \in PlanRuns PROVE Staging(q)'
    <3>1. \/ globalReply'[q] = globalReply[q]
          \/ <<q, "begin">> \notin globalNet' /\ <<q, "preview">> \notin globalNet'
      BY <1>0, <1>2, <2>1 DEF Staging, PlansShape
    <3> QED BY <1>0, <1>1, <1>2, <1>3, <2>1, <3>1, StagingKept DEF PlansShape
  <2>4. Plans!CommitsThePlan
    <3>1. rev = base[r] /\ doc = basis[r] /\ stage.result = Plans!Planned(r)
      BY <1>0, <2>1 DEF Staging
    <3> QED BY <2>1, <3>1 DEF Plans!CommitsThePlan
  <2> QED BY <2>2, <2>3, <2>4 DEF PlansInv
<1>7. ASSUME NEW r \in PlanRuns,
             Plans!PlayerAborts(r) \/ Plans!PlayerPlays(r) \/ Plans!PlayerAcknowledges(r)
      PROVE  PlansInv' /\ Plans!CommitsThePlan
  <2>1. /\ UNCHANGED <<doc, rev>>
        /\ \/ stage' = stage
           \/ stage' = [run |-> NoRun, rev |-> 0, result |-> <<>>, shown |-> FALSE]
        /\ \/ globalReply' = globalReply
           \/ /\ <<r, "play">> \in globalNet \/ <<r, "acknowledge">> \in globalNet
              /\ globalReply' = [globalReply EXCEPT ![r] = globalReply'[r]]
    BY <1>0, <1>7 DEF Plans!PlayerAborts, Plans!PlayerPlays, Plans!PlayerAcknowledges,
       Plans!NoStage, PlansShape
  <2>2. PlansShape'
    BY <1>0, <1>1, <2>1 DEF PlansShape
  <2>3. ASSUME NEW q \in PlanRuns PROVE Staging(q)'
    <3>1. \/ globalReply'[q] = globalReply[q]
          \/ <<q, "begin">> \notin globalNet' /\ <<q, "preview">> \notin globalNet'
      BY <1>0, <1>2, <2>1 DEF Staging, PlansShape
    <3>2. stage'.run = q => stage' = stage
      BY <1>3, <2>1
    <3> QED BY <1>0, <1>2, <2>1, <3>1, <3>2, StagingKept DEF PlansShape
  <2>4. Plans!CommitsThePlan
    BY <2>1 DEF Plans!CommitsThePlan
  <2> QED BY <2>2, <2>3, <2>4 DEF PlansInv
<1>8. CASE Plans!PlayerExpires \/ Plans!ViewerChanges
  <2>1. /\ \/ stage' = stage
           \/ /\ stage' = [run |-> NoRun, rev |-> 0, result |-> <<>>, shown |-> FALSE]
              /\ doc' = doc
        /\ globalReply' = globalReply
    BY <1>8 DEF Plans!PlayerExpires, Plans!ViewerChanges, Plans!NoStage
  <2>2. PlansShape'
    BY <1>0, <1>1, <2>1 DEF PlansShape
  <2>3. ASSUME NEW q \in PlanRuns PROVE Staging(q)'
    <3>1. stage'.run = q => stage' = stage
      BY <1>3, <2>1
    <3> QED BY <1>0, <1>1, <1>2, <2>1, <3>1, StagingKept DEF PlansShape
  <2>4. Plans!CommitsThePlan
    BY <1>3, <2>1 DEF Plans!CommitsThePlan
  <2> QED BY <2>2, <2>3, <2>4 DEF PlansInv
<1> QED BY <1>4, <1>5, <1>6, <1>7, <1>8

\* What a commit changes is what the user was told, for one part of a composition.
LEMMA PlansKept ==
    ASSUME Plans!GlobalAssumption
    PROVE  Plans!Init /\ [][Plans!Next]_Plans!vars => [][Plans!CommitsThePlan]_Plans!vars
<1>1. Plans!Init => PlansInv
  BY PlansInit
<1>2. PlansInv /\ [Plans!Next]_Plans!vars => PlansInv' /\ [Plans!CommitsThePlan]_Plans!vars
  <2>1. ASSUME PlansInv, Plans!Next PROVE PlansInv' /\ Plans!CommitsThePlan
    <3>1. CASE \E r \in PlanRuns :
                  \/ \E g \in {"merge", "clear", "acknowledge"} : Plans!Invoke(r, g)
                  \/ Plans!Refuse(r) \/ Plans!ReadPage(r) \/ Plans!Select(r) \/ Plans!Capture(r)
                  \/ Plans!Export(r) \/ Plans!Inspect(r) \/ Plans!Acknowledge(r)
                  \/ Plans!Acknowledged(r)
      <4>1. doc' = doc
        BY <3>1 DEF Plans!Invoke, Plans!Refuse, Plans!ReadPage, Plans!Select, Plans!Capture,
           Plans!Export, Plans!Inspect, Plans!Acknowledge, Plans!Acknowledged, Plans!player,
           Plans!Go, Plans!Post
      <4> QED BY <2>1, <3>1, <4>1, PlansReadingStep DEF Plans!CommitsThePlan
    <3>2. CASE \E r \in PlanRuns :
                  \/ Plans!Stage(r) \/ Plans!Staged(r) \/ Plans!Previewed(r)
                  \/ Plans!StageFails(r) \/ Plans!Aborted(r) \/ Plans!Commit(r)
                  \/ Plans!Committed(r) \/ Plans!Reconcile(r)
      <4>1. doc' = doc
        BY <3>2 DEF Plans!Stage, Plans!Staged, Plans!Previewed, Plans!StageFails, Plans!Aborted,
           Plans!Commit, Plans!Committed, Plans!Reconcile, Plans!player, Plans!Go, Plans!Post
      <4> QED BY <2>1, <3>2, <4>1, PlansStagingStep DEF Plans!CommitsThePlan
    <3> QED BY <2>1, <3>1, <3>2, PlansPlayerStep DEF Plans!Next
  <2>2. CASE UNCHANGED Plans!vars
    <3>1. UNCHANGED <<doc, rev, stage, globalNet, globalReply, globalPc, expected, basis, base,
                      wanted, globalGoal>>
      BY <2>2 DEF Plans!vars, Plans!player, Plans!inputs
    <3>2. ASSUME PlansInv PROVE PlansInv'
      <4>1. PlansShape' /\ \A q \in PlanRuns : Staging(q)'
        BY <3>1, <3>2, StagingKept DEF PlansInv, PlansShape
      <4> QED BY <4>1 DEF PlansInv
    <3> QED BY <2>2, <3>2
  <2> QED BY <2>1, <2>2
<1> QED BY <1>1, <1>2, PTL

-----------------------------------------------------------------------------
(* A resumable preset                                                      *)

PendingTyped ==
    /\ presetFile \in [key : Key \cup {NoKey}, wait : Nat]
    /\ pause \in Nat

\* One command at most may be executed, the pending one, and it will no longer
\* be before the wait for it is over.
AwaitedAtMost(c) ==
    /\ c = [key |-> c.key, step |-> c.step, saw |-> c.saw, state |-> c.state, left |-> c.left]
    /\ c.key = presetFile.key /\ c.key \in Key
    /\ c.left \in Nat
    /\ \/ c.state = "flying" /\ c.left + Ttl < presetFile.wait
       \/ c.state = "queued" /\ c.left < presetFile.wait
OnlyPending ==
    /\ \A c \in live : AwaitedAtMost(c)
    /\ \A c, d \in live : c = d

\* A command that was answered is no longer on its way.
AnsweredIsOver == presetReply.status # "none" => live = {}

\* Between its steps a run has nothing pending; an intent that is not sent yet
\* leaves the post and the command the time they may need.
BetweenSteps ==
    /\ presetPc \in {"prepare", "compared", "verify", "profiles"} => presetFile.key = NoKey
    /\ presetPc = "send" =>
          /\ live = {} /\ presetReply.status = "none" /\ presetFile.key \in Key
          /\ Ttl + Budget + 1 + pause <= presetFile.wait

\* What was compared stays as it was unless the viewer changes it.
Verifying ==
    /\ presetPc \in {"verify", "profiles"} /\ quiet =>
          \A s \in Preset!Slots \ unconfirmed : presetPlayer.set[s] = "preset"
    /\ presetPc = "profiles" => unconfirmed = {}

\* What holds in every state of a session.
PresetInv == PendingTyped /\ OnlyPending /\ AnsweredIsOver /\ BetweenSteps /\ Verifying

\* It holds at first: nothing is pending or on its way.
LEMMA PresetInit ==
    ASSUME Preset!PresetAssumption, Preset!Init
    PROVE  PresetInv
BY DEF Preset!PresetAssumption, Preset!Init, Preset!NoPending, Preset!NoReply, PresetInv,
       PendingTyped, OnlyPending, AwaitedAtMost, AnsweredIsOver, BetweenSteps, Verifying

\* Where nothing is pending, or it was answered, or waited for, nothing may be executed.
LEMMA NothingLive ==
    ASSUME Preset!PresetAssumption, PresetInv,
           \/ presetPc \in {"prepare", "compared", "verify", "profiles", "send"}
           \/ presetReply.status # "none" \/ presetFile.key = NoKey \/ presetFile.wait = 0
    PROVE  live = {}
<1>1. CASE presetFile.key = NoKey
  BY <1>1 DEF Preset!PresetAssumption, PresetInv, OnlyPending, AwaitedAtMost
<1>2. CASE presetFile.wait = 0
  <2>1. ASSUME NEW c \in live PROVE FALSE
    <3>1. AwaitedAtMost(c)
      BY DEF PresetInv, OnlyPending
    <3> QED BY <1>2, <3>1 DEF AwaitedAtMost, Preset!PresetAssumption
  <2> QED BY <2>1
<1>3. CASE presetReply.status # "none"
  BY <1>3 DEF PresetInv, AnsweredIsOver
<1>4. CASE presetPc \in {"prepare", "compared", "verify", "profiles", "send"}
  BY <1>1, <1>4 DEF PresetInv, BetweenSteps
<1> QED BY <1>1, <1>2, <1>3, <1>4

\* A step that clears the pending intent where nothing may be executed.
LEMMA ClearedStep ==
    ASSUME Preset!PresetAssumption, PresetInv, live = {}, live' = {},
           presetFile' = Preset!NoPending, presetReply' = Preset!NoReply,
           presetPlayer' = presetPlayer, pause' \in Nat,
           \/ presetPc' = "prepare"
           \/ presetPc' = "verify" /\ unconfirmed' = Preset!Slots
    PROVE  PresetInv'
<1>1. PendingTyped'
  BY DEF PendingTyped, Preset!NoPending
<1>2. OnlyPending' /\ AnsweredIsOver'
  BY DEF OnlyPending, AnsweredIsOver
<1>3. BetweenSteps'
  BY DEF BetweenSteps, Preset!NoPending
<1>4. Verifying'
  BY DEF Verifying, Preset!Slots, Preset!M3u
<1> QED BY <1>1, <1>2, <1>3, <1>4 DEF PresetInv

\* The end of a run.
LEMMA EndsStep ==
    ASSUME PresetInv, NEW v, Preset!Ends(v),
           UNCHANGED <<presetPlayer, live, presetReply, presetFile, quiet>>
    PROVE  PresetInv'
BY DEF Preset!Ends, PresetInv, PendingTyped, OnlyPending, AwaitedAtMost, AnsweredIsOver,
       BetweenSteps, Verifying

\* A step that completes a step of the preset.
LEMMA CompleteStep ==
    ASSUME Preset!PresetAssumption, PresetInv, live = {}, NEW steps, Preset!Complete(steps),
           UNCHANGED <<presetPlayer, live>>
    PROVE  PresetInv'
<1>1. \/ presetPc' = "prepare"
      \/ presetPc' = "verify" /\ unconfirmed' = Preset!Slots
  BY DEF Preset!Complete
<1> QED BY <1>1, ClearedStep DEF Preset!Complete

\* Every step of a run, the controller, the player and the viewer keeps it.
LEMMA PresetStep ==
    ASSUME Preset!PresetAssumption, PresetInv, [Preset!Next]_PresetVars
    PROVE  PresetInv'
<1> USE DEF Preset!process
<1>0. /\ PendingTyped /\ OnlyPending /\ AnsweredIsOver /\ BetweenSteps /\ Verifying
      /\ NoKey \notin Key
      /\ Ttl \in Nat /\ Budget \in Nat /\ Margin \in Nat /\ Pause \in Nat /\ Pause <= Margin
  BY DEF PresetInv, Preset!PresetAssumption
<1>1. CASE UNCHANGED PresetVars
  BY <1>0, <1>1 DEF PresetVars, PresetInv, PendingTyped, OnlyPending, AwaitedAtMost, AnsweredIsOver,
     BetweenSteps, Verifying, Preset!Slots, Preset!M3u
<1>2. ASSUME NEW c \in live, Preset!Accept(c) PROVE PresetInv'
  <2> USE <1>2 DEF Preset!Accept
  <2>1. AwaitedAtMost(c) /\ live = {c}
    BY <1>0 DEF OnlyPending
  <2>2. live' = {[c EXCEPT !.state = "queued", !.left = Ttl]}
    BY <2>1
  <2>a. [c EXCEPT !.state = "queued", !.left = Ttl] =
            [key |-> c.key, step |-> c.step, saw |-> c.saw, state |-> "queued", left |-> Ttl]
    <3>1. c = [key |-> c.key, step |-> c.step, saw |-> c.saw, state |-> c.state, left |-> c.left]
      BY <2>1 DEF AwaitedAtMost
    <3> DEFINE q == [key |-> c.key, step |-> c.step, saw |-> c.saw, state |-> "queued",
                     left |-> c.left]
    <3> HIDE <1>2 DEF Preset!Accept
    <3>2. [c EXCEPT !.state = "queued"] = q
      BY <3>1
    <3>3. [q EXCEPT !.left = Ttl] =
              [key |-> c.key, step |-> c.step, saw |-> c.saw, state |-> "queued", left |-> Ttl]
      OBVIOUS
    <3> QED BY <3>2, <3>3
  <2>3. OnlyPending'
    <3>1. ASSUME NEW d \in live' PROVE AwaitedAtMost(d)'
      <4>1. d = [key |-> c.key, step |-> c.step, saw |-> c.saw, state |-> "queued",
                 left |-> Ttl]
        BY <2>2, <2>a
      <4>2. Ttl < presetFile.wait
        BY <1>0, <2>1 DEF AwaitedAtMost, PendingTyped
      <4> QED BY <1>0, <2>1, <4>1, <4>2 DEF AwaitedAtMost
    <3> QED BY <2>2, <3>1 DEF OnlyPending
  <2>4. PendingTyped' /\ AnsweredIsOver' /\ BetweenSteps' /\ Verifying'
    BY <1>0, <2>1 DEF PendingTyped, AnsweredIsOver, BetweenSteps, Verifying, Preset!Slots,
       Preset!M3u
  <2> QED BY <2>3, <2>4 DEF PresetInv
<1>3. ASSUME NEW c \in live, Preset!Lose(c) PROVE PresetInv'
  BY <1>0, <1>3 DEF Preset!Lose, PresetInv, PendingTyped, OnlyPending, AwaitedAtMost,
     AnsweredIsOver,
     BetweenSteps, Verifying, Preset!Slots, Preset!M3u
<1>4. ASSUME NEW c \in live, Preset!Execute(c) PROVE PresetInv'
  <2>1. live' = {}
    BY <1>0, <1>4 DEF Preset!Execute, OnlyPending
  <2>2. ~(presetPc \in {"prepare", "compared", "verify", "profiles", "send"})
    BY <1>4, NothingLive
  <2>3. /\ presetFile' = presetFile /\ pause' = pause /\ presetPc' = presetPc
        /\ unconfirmed' = unconfirmed
    BY <1>4 DEF Preset!Execute
  <2> QED BY <1>0, <2>1, <2>2, <2>3 DEF PresetInv, PendingTyped, OnlyPending, AnsweredIsOver,
             BetweenSteps, Verifying
<1>5. CASE Preset!Change
  BY <1>0, <1>5 DEF Preset!Change, PresetInv, PendingTyped, OnlyPending, AwaitedAtMost,
     AnsweredIsOver, BetweenSteps, Verifying
<1>6. CASE Preset!Tick
  <2> USE <1>6 DEF Preset!Tick
  <2>1. PendingTyped'
    BY <1>0 DEF PendingTyped
  <2>2. OnlyPending'
    <3>1. ASSUME NEW d \in live' PROVE AwaitedAtMost(d)'
      <4>1. PICK c \in live : d = [c EXCEPT !.left = @ - 1]
        OBVIOUS
      <4>2. AwaitedAtMost(c) /\ c.left > 0
        BY <1>0 DEF OnlyPending
      <4>3. d = [key |-> c.key, step |-> c.step, saw |-> c.saw, state |-> c.state,
                 left |-> c.left - 1]
        <5>1. c = [key |-> c.key, step |-> c.step, saw |-> c.saw, state |-> c.state,
                   left |-> c.left]
          BY <4>2 DEF AwaitedAtMost
        <5> HIDE <1>6 DEF Preset!Tick
        <5> QED BY <4>1, <5>1
      <4>4. presetFile.wait \in Nat /\ presetFile.wait > 0
        BY <1>0, <4>2 DEF AwaitedAtMost, PendingTyped
      <4>5. presetFile'.key = presetFile.key /\ presetFile'.wait = presetFile.wait - 1
        BY <1>0, <4>4 DEF PendingTyped
      <4> QED BY <1>0, <4>2, <4>3, <4>4, <4>5 DEF AwaitedAtMost
    <3>2. ASSUME NEW d \in live', NEW e \in live' PROVE d = e
      BY <1>0 DEF OnlyPending
    <3> QED BY <3>1, <3>2 DEF OnlyPending
  <2>3. AnsweredIsOver'
    BY <1>0 DEF AnsweredIsOver
  <2>4. BetweenSteps'
    <3>1. presetFile'.key = presetFile.key
      BY <1>0 DEF PendingTyped
    <3>2. CASE presetPc = "send"
      <4>1. /\ pause \in Nat /\ pause > 0 /\ presetFile.wait \in Nat
            /\ Ttl + Budget + 1 + pause <= presetFile.wait
        BY <1>0, <3>2 DEF PendingTyped, BetweenSteps
      <4>2. pause' = pause - 1 /\ presetFile'.wait = presetFile.wait - 1
        BY <1>0, <4>1 DEF PendingTyped
      <4>3. Ttl + Budget + 1 + pause' <= presetFile'.wait
        BY <1>0, <4>1, <4>2
      <4>4. live' = {} /\ presetReply' = presetReply /\ presetPc' = presetPc
        BY <1>0, <3>2 DEF BetweenSteps
      <4> QED BY <1>0, <3>1, <3>2, <4>3, <4>4 DEF BetweenSteps
    <3>3. CASE presetPc # "send"
      BY <1>0, <3>1, <3>3 DEF BetweenSteps
    <3> QED BY <3>2, <3>3
  <2>5. Verifying'
    BY <1>0 DEF Verifying, Preset!Slots, Preset!M3u
  <2> QED BY <2>1, <2>2, <2>3, <2>4, <2>5 DEF PresetInv
<1>7. CASE Preset!Open
  BY <1>0, <1>7 DEF Preset!Open, PresetInv, PendingTyped, OnlyPending, AwaitedAtMost,
     AnsweredIsOver, BetweenSteps, Verifying
<1>8. CASE Preset!Recover
  <2> USE <1>8 DEF Preset!Recover
  <2>1. CASE Preset!Over
    <3>1. live = {}
      BY <2>1, NothingLive DEF Preset!Over
    <3> QED BY <1>0, <2>1, <3>1, ClearedStep DEF PendingTyped
  <2>2. CASE ~Preset!Over
    BY <2>2, EndsStep
  <2> QED BY <2>1, <2>2
<1>9. CASE Preset!Compare
  BY <1>0, <1>9 DEF Preset!Compare, PresetInv, PendingTyped, OnlyPending, AwaitedAtMost,
     AnsweredIsOver, BetweenSteps, Verifying
<1>10. CASE Preset!Skip
  BY <1>10, NothingLive, CompleteStep DEF Preset!Skip
<1>11. ASSUME NEW k \in Key, Preset!Intend(k) PROVE PresetInv'
  <2> USE <1>11 DEF Preset!Intend
  <2>1. live = {} /\ live' = {}
    BY NothingLive
  <2>2. presetFile' = [key |-> k, wait |-> Ttl + Budget + Margin + 1] /\ pause' = Pause
    BY DEF Preset!Intent
  <2>3. PendingTyped'
    BY <1>0, <2>2 DEF PendingTyped
  <2>4. OnlyPending' /\ AnsweredIsOver' /\ Verifying'
    BY <2>1 DEF OnlyPending, AnsweredIsOver, Verifying
  <2>5. BetweenSteps'
    <3>1. Ttl + Budget + 1 + Pause <= Ttl + Budget + Margin + 1
      BY <1>0
    <3> QED BY <2>1, <2>2, <3>1 DEF BetweenSteps, Preset!NoReply
  <2> QED BY <2>3, <2>4, <2>5 DEF PresetInv
<1>12. CASE Preset!Send
  <2> USE <1>12 DEF Preset!Send
  <2>1. /\ live = {} /\ presetReply.status = "none" /\ presetFile.key \in Key
        /\ presetFile.wait \in Nat /\ pause \in Nat
        /\ Ttl + Budget + 1 + pause <= presetFile.wait
    BY <1>0 DEF BetweenSteps, PendingTyped
  <2>2. live' = {[key |-> presetFile.key, step |-> Preset!Here, saw |-> saw,
                 state |-> "flying", left |-> Budget]}
    BY <2>1
  <2>3. Budget + Ttl < presetFile.wait
    BY <1>0, <2>1
  <2>4. OnlyPending'
    BY <1>0, <2>1, <2>2, <2>3 DEF OnlyPending, AwaitedAtMost
  <2>5. PendingTyped' /\ AnsweredIsOver' /\ BetweenSteps' /\ Verifying'
    BY <1>0, <2>1 DEF PendingTyped, AnsweredIsOver, BetweenSteps, Verifying
  <2> QED BY <2>4, <2>5 DEF PresetInv
<1>13. CASE Preset!Receive
  <2> USE <1>13 DEF Preset!Receive
  <2>1. live = {}
    BY NothingLive
  <2>2. CASE Preset!Confirmed
    BY <2>1, <2>2, CompleteStep
  <2>3. CASE ~Preset!Confirmed
    BY <2>3, EndsStep
  <2> QED BY <2>2, <2>3
<1>14. CASE Preset!List
  BY <1>14, NothingLive, CompleteStep DEF Preset!List
<1>15. CASE Preset!Final
  <2>1. live = {}
    BY <1>15, NothingLive DEF Preset!Final
  <2>2. \/ Preset!Complete(Tail(todo)) /\ UNCHANGED <<presetPlayer, live>>
        \/ /\ Preset!Ends("failed")
           /\ UNCHANGED <<presetPlayer, live, presetReply, presetFile, quiet>>
    BY <1>15 DEF Preset!Final
  <2> QED BY <2>1, <2>2, CompleteStep, EndsStep
<1>16. CASE Preset!Fail
  BY <1>16, EndsStep DEF Preset!Fail
<1>17. CASE Preset!Kill
  BY <1>17, EndsStep DEF Preset!Kill
<1>18. ASSUME NEW s \in Preset!Slots, Preset!Verify(s) PROVE PresetInv'
  <2> USE <1>18 DEF Preset!Verify
  <2>1. CASE presetPlayer.set[s] = "preset"
    <3>1. Verifying'
      BY <1>0, <2>1 DEF Verifying, Preset!Slots, Preset!M3u
    <3> QED BY <1>0, <2>1, <3>1 DEF PresetInv, PendingTyped, OnlyPending, AwaitedAtMost,
               AnsweredIsOver, BetweenSteps
  <2>2. CASE presetPlayer.set[s] # "preset"
    BY <2>2, EndsStep
  <2> QED BY <2>1, <2>2
<1>19. CASE Preset!Status
  <2> USE <1>19 DEF Preset!Status
  <2>1. CASE presetPlayer.provider = "m3u"
    BY <1>0, <2>1 DEF PresetInv, PendingTyped, OnlyPending, AwaitedAtMost, AnsweredIsOver,
       BetweenSteps, Verifying, Preset!Slots, Preset!M3u
  <2>2. CASE presetPlayer.provider # "m3u"
    BY <2>2, EndsStep
  <2> QED BY <2>1, <2>2
<1>20. CASE Preset!Listed
  BY <1>20, EndsStep DEF Preset!Listed
<1> QED
  BY <1>1, <1>2, <1>3, <1>4, <1>5, <1>6, <1>7, <1>8, <1>9, <1>10, <1>11, <1>12, <1>13,
     <1>14, <1>15, <1>16, <1>17, <1>18, <1>19, <1>20 DEF Preset!Next, PresetVars

\* Only the last list of verify reports a preset as verified.
LEMMA VerifiedStep ==
    ASSUME PresetInv, [Preset!Next]_PresetVars
    PROVE  Preset!VerifiedIsTrue
<1> SUFFICES ASSUME verdict' = "verified", verdict # "verified"
             PROVE  /\ presetPlayer.provider = "m3u" /\ presetPlayer.active = Desired
                    /\ quiet => \A s \in Preset!Slots : presetPlayer.set[s] = "preset"
  BY DEF Preset!VerifiedIsTrue
<1>1. Preset!Listed /\ Preset!Selected
  <2>a. /\ ~UNCHANGED PresetVars /\ ~Preset!Change /\ ~Preset!Tick /\ ~Preset!Open
    BY DEF PresetVars, Preset!Change, Preset!Tick, Preset!Open
  <2>b. ASSUME NEW c \in live
        PROVE  ~Preset!Accept(c) /\ ~Preset!Lose(c) /\ ~Preset!Execute(c)
    BY DEF Preset!Accept, Preset!Lose, Preset!Execute
  <2>2. /\ ~Preset!Recover /\ ~Preset!Compare /\ ~Preset!Skip /\ ~Preset!Send
        /\ \A k \in Key : ~Preset!Intend(k)
    BY DEF Preset!Recover, Preset!Compare, Preset!Skip, Preset!Send, Preset!Intend, Preset!Ends,
           Preset!Complete
  <2>3. /\ ~Preset!Receive /\ ~Preset!List /\ ~Preset!Final /\ ~Preset!Fail /\ ~Preset!Kill
    BY DEF Preset!Receive, Preset!List, Preset!Final, Preset!Fail, Preset!Kill, Preset!Ends,
           Preset!Complete
  <2>4. ~Preset!Status /\ \A s \in Preset!Slots : ~Preset!Verify(s)
    BY DEF Preset!Status, Preset!Verify, Preset!Ends
  <2>5. Preset!Listed
    BY <2>a, <2>b, <2>2, <2>3, <2>4 DEF Preset!Next
  <2> QED BY <2>5 DEF Preset!Listed, Preset!Ends
<1> QED BY <1>1 DEF Preset!Listed, Preset!Selected, PresetInv, Verifying

\* The steps of a preset: a comparison is of a slot, and a selection of a provider or
\* a profile there is.
PresetSteps ==
    [op : {"connect", "cas", "save"}, at : Preset!Slots]
    \cup [op : {"final", "list"}, at : {"m3u", "vportal", "local"} \X {0}]
    \cup [op : {"provider"}, at : Preset!Providers \X {0}]
    \cup [op : {"profile"}, at : {"m3u"} \X Profiles]

\* The steps that the program makes are steps of the preset.
LEMMA StepsAre ==
    /\ \A p \in Extras \cup {"plex"}, act \in {"connect", "cas", "save"} :
          Preset!Step(act, p, 0) \in PresetSteps
    /\ \A n \in Profiles : /\ Preset!Step("save", "m3u", n) \in PresetSteps
                           /\ Preset!Step("profile", "m3u", n) \in PresetSteps
    /\ \A p \in Preset!Providers : Preset!Step("provider", p, 0) \in PresetSteps
    /\ \A p \in {"m3u", "vportal", "local"}, act \in {"final", "list"} :
          Preset!Step(act, p, 0) \in PresetSteps
BY DEF PresetSteps, Preset!Step, Preset!Slots, Preset!M3u

\* Steps after steps.
LEMMA Joined ==
    ASSUME NEW S, NEW s \in Seq(S), NEW t \in Seq(S)
    PROVE  s \o t \in Seq(S) /\ (t # <<>> => s \o t # <<>>)
<1>1. s \o t \in Seq(S) /\ Len(s \o t) = Len(s) + Len(t) /\ Len(s) \in Nat /\ Len(t) \in Nat
  OBVIOUS
<1>2. t # <<>> => Len(t) # 0
  OBVIOUS
<1> QED BY <1>1, <1>2

\* The saves of some profiles, in the order of their numbers,
LEMMA SavesAre ==
    ASSUME Preset!PresetAssumption, NEW S \in SUBSET Profiles
    PROVE  Preset!Saves(S) \in Seq(PresetSteps)
<1>1. S \in SUBSET Nat /\ IsFiniteSet(S)
  <2>1. IsFiniteSet(Profiles) /\ Profiles \subseteq Nat
    BY DEF Preset!PresetAssumption, Preset!IsFiniteSet, IsFiniteSet
  <2> QED BY <2>1, FS_Subset
<1>2. Preset!Cardinality(S) = Cardinality(S)
  BY DEF Preset!Cardinality, Cardinality
<1> DEFINE order == Preset!InOrder(S)
<1>3. Cardinality(S) \in Nat /\ order \in [1..Cardinality(S) -> S]
  BY <1>1, <1>2, Enumeration DEF Preset!InOrder
<1>4. Preset!Saves(S) = [i \in 1..Cardinality(S) |-> Preset!Step("save", "m3u", order[i])]
  BY <1>3 DEF Preset!Saves
<1> HIDE DEF order
<1>5. \A i \in 1..Cardinality(S) : Preset!Step("save", "m3u", order[i]) \in PresetSteps
  BY <1>3, StepsAre
<1> QED BY <1>3, <1>4, <1>5

\* those up to the list of profiles, of which there always are some,
LEMMA OpeningIs ==
    ASSUME Preset!PresetAssumption
    PROVE  Preset!Opening \in Seq(PresetSteps) /\ Preset!Opening # <<>>
<1> DEFINE local == Preset!If("local", <<Preset!Step("connect", "local", 0)>>)
           vportal == Preset!If("vportal", <<Preset!Step("cas", "vportal", 0)>>)
           stalker == Preset!If("stalker", <<Preset!Step("provider", "stalker", 0),
                                             Preset!Step("save", "stalker", 0)>>)
           rest == <<Preset!Step("provider", "plex", 0), Preset!Step("save", "plex", 0),
                     Preset!Step("provider", "m3u", 0), Preset!Step("list", "m3u", 0)>>
<1>1. /\ local \in Seq(PresetSteps) /\ vportal \in Seq(PresetSteps)
      /\ stalker \in Seq(PresetSteps)
  BY StepsAre DEF Preset!If, Preset!Providers
<1>2. rest \in Seq(PresetSteps) /\ rest # <<>>
  BY StepsAre DEF Preset!Providers
<1>3. Preset!Opening = ((local \o vportal) \o stalker) \o rest
  BY DEF Preset!Opening
<1> HIDE DEF local, vportal, stalker, rest
<1>4. (local \o vportal) \o stalker \in Seq(PresetSteps)
  BY <1>1, Joined
<1> QED BY <1>2, <1>3, <1>4, Joined

\* and those that follow it, whatever profile is active.
LEMMA ClosingIs ==
    ASSUME Preset!PresetAssumption, NEW active \in Profiles
    PROVE  Preset!Closing(active) \in Seq(PresetSteps)
<1> DEFINE others == Preset!Saves(Profiles \ {active})
           before == IF active = Desired THEN Preset!Saves({active}) ELSE <<>>
           chosen == <<Preset!Step("profile", "m3u", Desired)>>
           after == IF active \in Profiles \ {Desired} THEN Preset!Saves({active}) ELSE <<>>
           list == <<Preset!Step("final", "m3u", 0)>>
           vportal == Preset!If("vportal", <<Preset!Step("final", "vportal", 0)>>)
           local == Preset!If("local", <<Preset!Step("final", "local", 0)>>)
<1>1. /\ others \in Seq(PresetSteps) /\ before \in Seq(PresetSteps)
      /\ after \in Seq(PresetSteps)
  BY SavesAre
<1>2. chosen \in Seq(PresetSteps) /\ list \in Seq(PresetSteps)
  BY StepsAre DEF Preset!PresetAssumption
<1>3. vportal \in Seq(PresetSteps) /\ local \in Seq(PresetSteps)
  BY StepsAre DEF Preset!If
<1>4. Preset!Closing(active)
        = (((((others \o before) \o chosen) \o after) \o list) \o vportal) \o local
  BY DEF Preset!Closing
<1> HIDE DEF others, before, chosen, after, list, vportal, local
<1>5. ((others \o before) \o chosen) \o after \in Seq(PresetSteps)
  BY <1>1, <1>2, Joined
<1> QED BY <1>2, <1>3, <1>4, <1>5, Joined

\* The types, and what is ahead of a run and on its way are steps of the preset.
PresetTyped ==
    /\ Preset!TypeOK
    /\ todo \in Seq(PresetSteps)
    /\ presetPc \in {"prepare", "compared", "send", "await"} => todo # <<>>
    /\ \A c \in live : c.step \in PresetSteps

Players == [provider : Preset!Providers, active : Profiles, set : [Preset!Slots -> Preset!Values]]

\* A session starts with nothing ahead of it.
LEMMA PresetTypedInit ==
    ASSUME Preset!PresetAssumption, Preset!Init
    PROVE  PresetTyped
<1>1. presetPlayer \in Players
  BY DEF Preset!Init, Preset!Providers, Preset!Values, Players
<1>2. todo \in Seq(PresetSteps)
  BY DEF Preset!Init
<1> QED BY <1>1, <1>2 DEF Preset!PresetAssumption, Preset!Init, PresetTyped, Preset!TypeOK, Players,
           Preset!NoPending, Preset!Verdicts

\* A run that ends, and one that goes on with other steps of the preset.
LEMMA EndsTyped ==
    ASSUME Preset!PresetAssumption, PresetTyped, NEW v \in Preset!Verdicts, Preset!Ends(v),
           UNCHANGED <<presetPlayer, live, presetFile, quiet>>
    PROVE  PresetTyped'
<1>1. /\ todo' = <<>> /\ todo' \in Seq(PresetSteps) /\ presetPc' = "idle"
  BY DEF Preset!Ends
<1>2. Preset!TypeOK'
  BY DEF Preset!Ends, PresetTyped, Preset!TypeOK, Preset!PresetAssumption
<1> QED BY <1>1, <1>2 DEF PresetTyped

\* (with what is left of them, or the ones that a list decides)
LEMMA CompleteTyped ==
    ASSUME Preset!PresetAssumption, PresetTyped, NEW steps \in Seq(PresetSteps),
           Preset!Complete(steps), UNCHANGED <<presetPlayer, live>>, current' \in Profiles
    PROVE  PresetTyped'
<1>1. Preset!TypeOK'
  BY DEF Preset!Complete, PresetTyped, Preset!TypeOK, Preset!NoPending, Preset!PresetAssumption
<1> QED BY <1>1 DEF Preset!Complete, PresetTyped

\* Every step keeps the types.
LEMMA PresetTypedStep ==
    ASSUME Preset!PresetAssumption, PresetInv, PresetTyped, [Preset!Next]_PresetVars
    PROVE  PresetTyped'
<1> USE DEF Preset!process
<1>0. /\ Preset!TypeOK /\ todo \in Seq(PresetSteps)
      /\ presetPc \in {"prepare", "compared", "send", "await"} => todo # <<>>
      /\ \A c \in live : c.step \in PresetSteps
      /\ NoKey \notin Key /\ Desired \in Profiles
      /\ Ttl \in Nat /\ Budget \in Nat /\ Margin \in Nat /\ Pause \in Nat
  BY DEF PresetTyped, Preset!PresetAssumption
<1>a. /\ presetPlayer \in Players
      /\ presetFile \in [key : Key \cup {NoKey}, wait : Nat]
      /\ presetPc \in {"idle", "recover", "prepare", "compared", "send", "await", "verify",
                       "profiles"}
      /\ current \in Profiles /\ pause \in Nat
      /\ saw \in Preset!Values \cup {"none"} /\ unconfirmed \subseteq Preset!Slots
      /\ quiet \in BOOLEAN /\ verdict \in Preset!Verdicts
  BY <1>0 DEF Preset!TypeOK, Players
<1>b. todo # <<>> => Head(todo) \in PresetSteps /\ Tail(todo) \in Seq(PresetSteps)
  BY <1>0
<1>1. CASE UNCHANGED PresetVars
  BY <1>0, <1>1 DEF PresetVars, PresetTyped, Preset!TypeOK
<1>2. ASSUME NEW c \in live, Preset!Accept(c) PROVE PresetTyped'
  <2>1. /\ live' = (live \ {c}) \cup {[c EXCEPT !.state = "queued", !.left = Ttl]}
        /\ UNCHANGED <<presetPlayer, presetFile, presetPc, todo, current, pause, saw, unconfirmed,
                       quiet, verdict>>
    BY <1>2 DEF Preset!Accept
  <2>2. c = [key |-> c.key, step |-> c.step, saw |-> c.saw, state |-> c.state, left |-> c.left]
    BY DEF PresetInv, OnlyPending, AwaitedAtMost
  <2>3. [c EXCEPT !.state = "queued", !.left = Ttl].step = c.step
    BY <2>2
  <2>4. \A d \in live' : d.step \in PresetSteps
    BY <1>0, <2>1, <2>3
  <2> QED BY <1>0, <2>1, <2>4 DEF PresetTyped, Preset!TypeOK
<1>3. ASSUME NEW c \in live, Preset!Lose(c) PROVE PresetTyped'
  BY <1>0, <1>3 DEF Preset!Lose, PresetTyped, Preset!TypeOK
<1>4. ASSUME NEW c \in live, Preset!Execute(c) PROVE PresetTyped'
  <2>1. /\ live' = live \ {c}
        /\ presetPlayer' = presetPlayer \/ presetPlayer' = Preset!Applied(c.step)
        /\ UNCHANGED <<presetFile, presetPc, todo, current, pause, saw, unconfirmed, quiet,
                       verdict>>
    BY <1>4 DEF Preset!Execute
  <2>2. Preset!Applied(c.step) \in Players
    <3>1. c.step \in PresetSteps
      BY <1>0
    <3>2. CASE c.step.op = "provider"
      <4>1. c.step.at[1] \in Preset!Providers
        BY <3>1, <3>2 DEF PresetSteps
      <4> QED BY <1>a, <3>2, <4>1 DEF Preset!Applied, Players
    <3>3. CASE c.step.op = "profile"
      <4>1. c.step.at[2] \in Profiles
        BY <3>1, <3>3 DEF PresetSteps
      <4> QED BY <1>a, <3>3, <4>1 DEF Preset!Applied, Players
    <3>4. CASE c.step.op \notin {"provider", "profile"}
      <4>1. Preset!Applied(c.step) = [presetPlayer EXCEPT !.set[c.step.at] = "preset"]
        BY <3>4 DEF Preset!Applied
      <4>2. [presetPlayer.set EXCEPT ![c.step.at] = "preset"] \in [Preset!Slots -> Preset!Values]
        BY <1>a DEF Players, Preset!Values
      <4> QED BY <1>a, <4>1, <4>2 DEF Players
    <3> QED BY <3>2, <3>3, <3>4
  <2>3. presetPlayer' \in Players
    BY <1>a, <2>1, <2>2
  <2> QED BY <1>0, <2>1, <2>3 DEF PresetTyped, Preset!TypeOK, Players
<1>5. CASE Preset!Change
  <2>1. presetPlayer' \in Players
    <3> DEFINE At(q) == [presetPlayer EXCEPT !.provider = q]
               On(n) == [presetPlayer EXCEPT !.active = n]
               With(s, v) == [presetPlayer EXCEPT !.set[s] = v]
    <3>1. \A q \in Preset!Providers : At(q) \in Players
      BY <1>a DEF Players
    <3>2. \A n \in Profiles : On(n) \in Players
      BY <1>a DEF Players
    <3>3. ASSUME NEW s \in Preset!Slots, NEW v \in {"old", "new"} PROVE With(s, v) \in Players
      <4>1. [presetPlayer.set EXCEPT ![s] = v] \in [Preset!Slots -> Preset!Values]
        BY <1>a DEF Players, Preset!Values
      <4> QED BY <1>a, <4>1 DEF Players
    <3>4. presetPlayer' \in {At(q) : q \in Preset!Providers} \cup {On(n) : n \in Profiles}
                           \cup {With(s, v) : s \in Preset!Slots, v \in {"old", "new"}}
      BY <1>5 DEF Preset!Change
    <3> HIDE DEF At, On, With
    <3> QED BY <3>1, <3>2, <3>3, <3>4
  <2> QED BY <1>0, <1>5, <2>1 DEF Preset!Change, PresetTyped, Preset!TypeOK, Players
<1>6. CASE Preset!Tick
  <2>1. presetFile' \in [key : Key \cup {NoKey}, wait : Nat] /\ pause' \in Nat
    BY <1>a, <1>6 DEF Preset!Tick
  <2>2. ASSUME NEW d \in live' PROVE d.step \in PresetSteps
    <3>1. PICK c \in live : d = [c EXCEPT !.left = @ - 1]
      BY <1>6 DEF Preset!Tick
    <3>2. c = [key |-> c.key, step |-> c.step, saw |-> c.saw, state |-> c.state, left |-> c.left]
      BY DEF PresetInv, OnlyPending, AwaitedAtMost
    <3> QED BY <1>0, <3>1, <3>2
  <2>3. UNCHANGED <<presetPlayer, presetPc, todo, current, saw, unconfirmed, quiet, verdict>>
    BY <1>6 DEF Preset!Tick
  <2> QED BY <1>0, <2>1, <2>2, <2>3 DEF PresetTyped, Preset!TypeOK
<1>7. CASE Preset!Open
  BY <1>0, <1>7 DEF Preset!Open, PresetTyped, Preset!TypeOK, Preset!Verdicts
<1>8. CASE Preset!Recover
  <2>1. CASE Preset!Over
    <3>1. Preset!TypeOK'
      BY <1>a, <1>8, <2>1 DEF Preset!Recover, Preset!TypeOK, Preset!NoPending, Players
    <3> QED BY <1>0, <1>8, <2>1, <3>1, OpeningIs DEF Preset!Recover, PresetTyped
  <2>2. CASE ~Preset!Over
    BY <1>8, <2>2, EndsTyped DEF Preset!Recover, Preset!Verdicts
  <2> QED BY <2>1, <2>2
<1>9. CASE Preset!Compare
  <2>1. Preset!Here.at \in Preset!Slots
    <3>1. Head(todo) \in PresetSteps
      BY <1>0, <1>b, <1>9 DEF Preset!Compare
    <3>2. Head(todo).op \in {"connect", "cas", "save"}
      BY <1>9 DEF Preset!Compare, Preset!Compared, Preset!Here
    <3> QED BY <3>1, <3>2 DEF Preset!Here, PresetSteps
  <2>2. saw' \in Preset!Values
    BY <1>a, <1>9, <2>1 DEF Preset!Compare, Players
  <2> QED BY <1>0, <1>9, <2>2 DEF Preset!Compare, PresetTyped, Preset!TypeOK
<1>10. CASE Preset!Skip
  <2>1. Tail(todo) \in Seq(PresetSteps)
    BY <1>0, <1>b, <1>10 DEF Preset!Skip
  <2> QED BY <1>a, <1>10, <2>1, CompleteTyped DEF Preset!Skip
<1>11. ASSUME NEW k \in Key, Preset!Intend(k) PROVE PresetTyped'
  <2>1. presetFile' \in [key : Key \cup {NoKey}, wait : Nat] /\ pause' \in Nat
    BY <1>0, <1>11 DEF Preset!Intend, Preset!Intent
  <2> QED BY <1>0, <1>11, <2>1 DEF Preset!Intend, PresetTyped, Preset!TypeOK
<1>12. CASE Preset!Send
  <2>1. Preset!Here \in PresetSteps
    BY <1>0, <1>b, <1>12 DEF Preset!Send, Preset!Here
  <2>2. \A d \in live' : d.step \in PresetSteps
    BY <1>0, <1>12, <2>1 DEF Preset!Send
  <2> QED BY <1>0, <1>12, <2>2 DEF Preset!Send, PresetTyped, Preset!TypeOK
<1>13. CASE Preset!Receive
  <2>1. Tail(todo) \in Seq(PresetSteps)
    BY <1>0, <1>b, <1>13 DEF Preset!Receive
  <2>2. CASE Preset!Confirmed
    BY <1>0, <1>a, <1>13, <2>1, <2>2, CompleteTyped DEF Preset!Receive
  <2>3. CASE ~Preset!Confirmed
    BY <1>13, <2>3, EndsTyped DEF Preset!Receive, Preset!Verdicts
  <2> QED BY <2>2, <2>3
<1>14. CASE Preset!List
  <2>1. presetPlayer.active \in Profiles
    BY <1>a DEF Players
  <2> QED BY <1>14, <2>1, ClosingIs, CompleteTyped DEF Preset!List
<1>15. CASE Preset!Final
  <2>1. Tail(todo) \in Seq(PresetSteps)
    BY <1>0, <1>b, <1>15 DEF Preset!Final
  <2>2. \/ Preset!Complete(Tail(todo)) /\ UNCHANGED <<presetPlayer, live, current>>
        \/ Preset!Ends("failed") /\ UNCHANGED <<presetPlayer, live, presetFile, quiet>>
    BY <1>15 DEF Preset!Final
  <2> QED BY <1>a, <2>1, <2>2, CompleteTyped, EndsTyped DEF Preset!Verdicts
<1>16. CASE Preset!Fail \/ Preset!Kill
  BY <1>16, EndsTyped DEF Preset!Fail, Preset!Kill, Preset!Verdicts
<1>17. ASSUME NEW s \in Preset!Slots, Preset!Verify(s) PROVE PresetTyped'
  <2>1. CASE presetPlayer.set[s] = "preset"
    BY <1>0, <1>17, <2>1 DEF Preset!Verify, PresetTyped, Preset!TypeOK
  <2>2. CASE presetPlayer.set[s] # "preset"
    BY <1>17, <2>2, EndsTyped DEF Preset!Verify, Preset!Verdicts
  <2> QED BY <2>1, <2>2
<1>18. CASE Preset!Status
  <2>1. CASE presetPlayer.provider = "m3u"
    BY <1>0, <1>18, <2>1 DEF Preset!Status, PresetTyped, Preset!TypeOK
  <2>2. CASE presetPlayer.provider # "m3u"
    BY <1>18, <2>2, EndsTyped DEF Preset!Status, Preset!Verdicts
  <2> QED BY <2>1, <2>2
<1>19. CASE Preset!Listed
  BY <1>19, EndsTyped DEF Preset!Listed, Preset!Verdicts
<1> QED
  BY <1>1, <1>2, <1>3, <1>4, <1>5, <1>6, <1>7, <1>8, <1>9, <1>10, <1>11, <1>12, <1>13,
     <1>14, <1>15, <1>16, <1>17, <1>18, <1>19 DEF Preset!Next

\* What a session keeps, for one part of a composition.
LEMMA PresetKept ==
    ASSUME Preset!PresetAssumption
    PROVE  Preset!Init /\ [][Preset!Next]_PresetVars
             => /\ [](Preset!TypeOK /\ Preset!NeverInDoubt)
                /\ [][Preset!VerifiedIsTrue]_PresetVars
<1>1. Preset!Init => PresetInv /\ PresetTyped
  BY PresetInit, PresetTypedInit
<1>2. PresetInv /\ PresetTyped /\ [Preset!Next]_PresetVars => PresetInv' /\ PresetTyped'
  BY PresetStep, PresetTypedStep
<1>3. PresetInv /\ PresetTyped => Preset!TypeOK /\ Preset!NeverInDoubt
  BY DEF PresetInv, PresetTyped, OnlyPending, AwaitedAtMost, Preset!NeverInDoubt
<1>4. PresetInv /\ [Preset!Next]_PresetVars => [Preset!VerifiedIsTrue]_PresetVars
  BY VerifiedStep
<1> QED BY <1>1, <1>2, <1>3, <1>4, PTL

-----------------------------------------------------------------------------
(* The configuration file                                                  *)

\* A function of the updates.
Kept(F) == F = [u \in Updates |-> F[u]]

ConfigTyped ==
    /\ Kept(configPc) /\ Kept(configSeen) /\ Kept(configOutcome) /\ Kept(replaced) /\ Kept(since)
    /\ configLock = [l \in Config!Locks |-> configLock[l]]
    /\ \A u \in Updates : configPc[u] \in {"start", "loaded", "planned", "locked", "checked",
                                           "saved", "verified", "done"}
    /\ \A u \in Updates : configPc[u] # "done" => configOutcome[u] = "none"

\* Who has come this far holds the lock of its kind.
LockHeld ==
    \A u \in Updates :
        Kind[u] \in Config!Locks /\ configPc[u] \in {"locked", "checked", "saved", "verified"}
        => configLock[Kind[u]] = u

\* What a command read is there until another one replaces the configuration; after
\* its last look, that is one that its lock does not keep away.
UpToDate(u) ==
    /\ configPc[u] \notin {"start", "done"} /\ since[u] = {} => Config!Same(u)
    /\ configPc[u] = "verified" => \A v \in since[u] : ~Config!Exclude(u, v)

\* A favorites command has kept what it read.
BackedUp(u) ==
    Kind[u] = "favorites" /\ configPc[u] \in {"saved", "verified"}
    => configSeen[u].content \in backups

ConfigInv ==
    /\ ConfigTyped /\ LockHeld
    /\ \A u \in Updates : UpToDate(u) /\ BackedUp(u)
    /\ Config!SafeReplacement

\* It holds at first: every command has read the configuration as it is.
LEMMA ConfigInit ==
    ASSUME Config!ConfigAssumption, Config!Init
    PROVE  ConfigInv
BY DEF Config!ConfigAssumption, Config!Init, ConfigInv, ConfigTyped, LockHeld, UpToDate, BackedUp,
   Kept, Config!SafeReplacement, Config!Old

\* A step of one command that is not at its end leaves the reports of all alone.
LEMMA ReportsStay ==
    ASSUME ConfigInv, NEW u \in Updates, NEW where, configPc[u] # "done",
           configPc' = [configPc EXCEPT ![u] = where], backups \subseteq backups',
           UNCHANGED <<configOutcome, replaced>>,
           \A v \in Updates \ {u} : configSeen'[v] = configSeen[v] /\ since'[v] = since[v]
    PROVE  Config!SafeReplacement'
<1>1. configOutcome[u] = "none"
  BY DEF ConfigInv, ConfigTyped
<1> QED BY <1>1 DEF ConfigInv, Config!SafeReplacement, Config!Exclude

\* A step in which a command looks at the file, or goes on.
LEMMA LooksStep ==
    ASSUME ConfigInv, NEW u \in Updates, NEW where, configPc[u] # "done",
           where \in {"loaded", "planned", "locked", "checked", "saved", "verified"},
           configPc' = [configPc EXCEPT ![u] = where],
           UNCHANGED <<configFile, configOutcome, replaced>>, backups \subseteq backups',
           configLock' = [l \in Config!Locks |-> configLock'[l]],
           \/ UNCHANGED <<configSeen, since>> /\ configPc[u] # "start"
              /\ (where = "verified" => Kind[u] \notin Config!Locks)
           \/ /\ configSeen' = [configSeen EXCEPT ![u] = configFile]
              /\ since' = [since EXCEPT ![u] = {}]
           \/ /\ UNCHANGED configSeen /\ Config!Same(u)
              /\ since' = [since EXCEPT ![u] = {}],
           LockHeld',
           Kind[u] = "favorites" /\ where \in {"saved", "verified"} =>
             configSeen'[u].content \in backups'
    PROVE  ConfigInv'
<1>0. ConfigTyped /\ \A v \in Updates : UpToDate(v) /\ BackedUp(v)
  BY DEF ConfigInv
<1>1. ConfigTyped'
  BY <1>0 DEF ConfigTyped, Kept
<1>2. ASSUME NEW v \in Updates PROVE UpToDate(v)' /\ BackedUp(v)'
  <2>1. CASE v # u
    <3>1. /\ configPc'[v] = configPc[v] /\ configSeen'[v] = configSeen[v]
          /\ since'[v] = since[v]
      BY <1>0, <2>1 DEF ConfigTyped, Kept
    <3> QED BY <1>0, <3>1 DEF UpToDate, BackedUp, Config!Same, Config!Exclude
  <2>2. CASE v = u
    <3>1. configPc'[u] = where
      BY <1>0 DEF ConfigTyped, Kept
    <3>2. BackedUp(u)'
      BY <3>1 DEF BackedUp
    <3>3. CASE UNCHANGED <<configSeen, since>> /\ configPc[u] # "start"
               /\ (where = "verified" => Kind[u] \notin Config!Locks)
      BY <1>0, <2>2, <3>1, <3>2, <3>3 DEF UpToDate, Config!Same, Config!Exclude
    <3>4. CASE /\ configSeen' = [configSeen EXCEPT ![u] = configFile]
               /\ since' = [since EXCEPT ![u] = {}]
      BY <1>0, <2>2, <3>1, <3>2, <3>4 DEF UpToDate, Config!Same, Config!Exclude, ConfigTyped, Kept
    <3>5. CASE /\ UNCHANGED configSeen /\ Config!Same(u)
               /\ since' = [since EXCEPT ![u] = {}]
      BY <1>0, <2>2, <3>1, <3>2, <3>5 DEF UpToDate, Config!Same, Config!Exclude, ConfigTyped, Kept
    <3> QED BY <3>3, <3>4, <3>5
  <2> QED BY <2>1, <2>2
<1>3. \A v \in Updates \ {u} : configSeen'[v] = configSeen[v] /\ since'[v] = since[v]
  BY <1>0 DEF ConfigTyped, Kept
<1>4. Config!SafeReplacement'
  BY <1>3, ReportsStay
<1> QED BY <1>1, <1>2, <1>4 DEF ConfigInv

\* Every step of a command keeps it; the one that replaces the configuration is
\* known to all that are at work, and none of them holds its lock.
LEMMA ConfigStep ==
    ASSUME Config!ConfigAssumption, ConfigInv, [Config!Next]_ConfigVars
    PROVE  ConfigInv'
<1> USE DEF Config!Goes, Config!Looks, Config!At
<1>0. ConfigTyped /\ LockHeld /\ \A v \in Updates : UpToDate(v) /\ BackedUp(v)
  BY DEF ConfigInv
<1>1. CASE UNCHANGED ConfigVars
  BY <1>1 DEF ConfigVars, ConfigInv, ConfigTyped, Kept, LockHeld, UpToDate, BackedUp,
     Config!SafeReplacement, Config!Same, Config!Exclude
<1>2. ASSUME NEW u \in Updates, Config!Load(u) PROVE ConfigInv'
  <2>1. LockHeld' /\ configLock' = [l \in Config!Locks |-> configLock'[l]]
    BY <1>0, <1>2 DEF Config!Load, LockHeld, ConfigTyped, Kept
  <2> QED BY <1>2, <2>1, LooksStep DEF Config!Load
<1>3. ASSUME NEW u \in Updates, Config!Work(u) PROVE ConfigInv'
  <2>1. LockHeld' /\ configLock' = [l \in Config!Locks |-> configLock'[l]]
    BY <1>0, <1>3 DEF Config!Work, LockHeld, ConfigTyped, Kept
  <2> QED BY <1>3, <2>1, LooksStep DEF Config!Work
<1>4. ASSUME NEW u \in Updates, Config!ReadAgain(u) PROVE ConfigInv'
  <2>1. LockHeld' /\ configLock' = [l \in Config!Locks |-> configLock'[l]]
    BY <1>0, <1>4 DEF Config!ReadAgain, LockHeld, ConfigTyped, Kept
  <2> QED BY <1>4, <2>1, LooksStep DEF Config!ReadAgain
<1>5. ASSUME NEW u \in Updates, Config!TakeLock(u) PROVE ConfigInv'
  <2>1. configLock' = [l \in Config!Locks |-> configLock'[l]]
    BY <1>0, <1>5 DEF Config!TakeLock, ConfigTyped
  <2>2. LockHeld'
    BY <1>0, <1>5 DEF Config!TakeLock, Config!ConfigAssumption, LockHeld, ConfigTyped, Kept
  <2> QED BY <1>5, <2>1, <2>2, LooksStep DEF Config!TakeLock
<1>6. ASSUME NEW u \in Updates, Config!Check(u) PROVE ConfigInv'
  <2>1. LockHeld' /\ configLock' = [l \in Config!Locks |-> configLock'[l]]
    BY <1>0, <1>6 DEF Config!Check, LockHeld, ConfigTyped, Kept
  <2> QED BY <1>6, <2>1, LooksStep DEF Config!Check
<1>7. ASSUME NEW u \in Updates, Config!BackUp(u) PROVE ConfigInv'
  <2>1. LockHeld' /\ configLock' = [l \in Config!Locks |-> configLock'[l]]
    BY <1>0, <1>7 DEF Config!BackUp, LockHeld, ConfigTyped, Kept
  <2>2. configSeen'[u].content \in backups' /\ backups \subseteq backups'
    BY <1>7 DEF Config!BackUp
  <2> QED BY <1>7, <2>1, <2>2, LooksStep DEF Config!BackUp
<1>8. ASSUME NEW u \in Updates,
             Config!LookFavorites(u) \/ Config!LookGroup(u) \/ Config!LookPower(u)
      PROVE  ConfigInv'
  <2>1. /\ configPc[u] \in {"planned", "locked", "saved"} /\ Config!Same(u)
        /\ Config!Verified(u) /\ since' = [since EXCEPT ![u] = {}]
        /\ Kind[u] = "favorites" => configPc[u] = "saved"
        /\ Kind[u] \in Config!Locks => configPc[u] \in {"locked", "saved"}
    BY <1>8 DEF Config!LookFavorites, Config!LookGroup, Config!LookPower, Config!SameFile,
       Config!Same, Config!Locks
  <2>2. LockHeld' /\ configLock' = [l \in Config!Locks |-> configLock'[l]]
    BY <1>0, <2>1 DEF Config!Verified, LockHeld, ConfigTyped, Kept
  <2>3. Kind[u] = "favorites" => configSeen'[u].content \in backups'
    BY <1>0, <2>1 DEF BackedUp, Config!Verified
  <2> QED BY <2>1, <2>2, <2>3, LooksStep DEF Config!Verified
<1>9. ASSUME NEW u \in Updates, Config!LookNot(u) PROVE ConfigInv'
  <2>1. /\ Kind[u] \notin Config!Locks /\ Kind[u] # "favorites" /\ configPc[u] = "planned"
        /\ Config!Verified(u) /\ UNCHANGED since
    BY <1>9 DEF Config!LookNot, Config!Locks
  <2>2. LockHeld' /\ configLock' = [l \in Config!Locks |-> configLock'[l]]
    BY <1>0, <2>1 DEF Config!Verified, LockHeld, ConfigTyped, Kept
  <2> QED BY <2>1, <2>2, LooksStep DEF Config!Verified
<1>10. ASSUME NEW u \in Updates, Config!End(u) PROVE ConfigInv'
  <2>1. /\ configPc' = [configPc EXCEPT ![u] = "done"]
        /\ configOutcome' = [configOutcome EXCEPT ![u] = "refused"]
        /\ configLock' = Config!Released(u)
        /\ UNCHANGED <<configFile, backups, configSeen, since, replaced>>
    BY <1>10 DEF Config!End
  <2>2. ConfigTyped' /\ LockHeld'
    BY <1>0, <2>1 DEF ConfigTyped, Kept, LockHeld, Config!Released
  <2>3. \A v \in Updates : UpToDate(v)' /\ BackedUp(v)'
    BY <1>0, <2>1 DEF ConfigTyped, Kept, UpToDate, BackedUp, Config!Same, Config!Exclude
  <2>4. Config!SafeReplacement'
    BY <1>0, <2>1 DEF ConfigInv, ConfigTyped, Kept, Config!SafeReplacement, Config!Exclude
  <2> QED BY <2>2, <2>3, <2>4 DEF ConfigInv
<1>11. ASSUME NEW u \in Updates, Config!Replace(u) PROVE ConfigInv'
  <2>1. /\ configPc[u] = "verified" /\ configPc' = [configPc EXCEPT ![u] = "done"]
        /\ \E o \in {"changed", "uncertain"} : configOutcome' = [configOutcome EXCEPT ![u] = o]
        /\ since' = [v \in Updates |-> IF v # u /\ configPc[v] \notin {"start", "done"}
                                      THEN since[v] \cup {u} ELSE since[v]]
        /\ replaced' = [replaced EXCEPT ![u] = configFile.content]
        /\ configLock' = Config!Released(u)
        /\ UNCHANGED <<backups, configSeen>>
    BY <1>11 DEF Config!Replace
  <2>2. ConfigTyped' /\ LockHeld'
    BY <1>0, <2>1 DEF ConfigTyped, Kept, LockHeld, Config!Released
  <2>3. ASSUME NEW v \in Updates PROVE UpToDate(v)' /\ BackedUp(v)'
    <3>1. CASE v = u
      BY <1>0, <2>1, <3>1 DEF ConfigTyped, Kept, UpToDate, BackedUp
    <3>2. CASE v # u
      <4>1. configPc'[v] = configPc[v]
        BY <1>0, <2>1, <3>2 DEF ConfigTyped, Kept
      <4>2. configPc[v] = "verified" => ~Config!Exclude(v, u)
        BY <1>0, <2>1, <3>2 DEF LockHeld, Config!Exclude
      <4> QED BY <1>0, <2>1, <3>2, <4>1, <4>2 DEF UpToDate, BackedUp, Config!Exclude
    <3> QED BY <3>1, <3>2
  <2>4. Config!SafeReplacement'
    <3> SUFFICES ASSUME NEW v \in Updates, configOutcome'[v] \in {"changed", "uncertain"}
                 PROVE  /\ since'[v] = {} => replaced'[v] = configSeen'[v].content
                        /\ \A w \in since'[v] : ~Config!Exclude(v, w)
                        /\ Kind[v] = "favorites" => configSeen'[v].content \in backups'
      BY DEF Config!SafeReplacement, Config!Exclude
    <3>1. CASE v = u
      BY <1>0, <2>1, <3>1 DEF ConfigTyped, Kept, UpToDate, BackedUp, Config!Same
    <3>2. CASE v # u
      <4>1. configOutcome'[v] = configOutcome[v] /\ replaced'[v] = replaced[v]
        BY <1>0, <2>1, <3>2 DEF ConfigTyped, Kept
      <4>2. configPc[v] = "done" /\ since'[v] = since[v]
        BY <1>0, <2>1, <3>2, <4>1 DEF ConfigTyped
      <4> QED BY <2>1, <4>1, <4>2 DEF ConfigInv, Config!SafeReplacement
    <3> QED BY <3>1, <3>2
  <2> QED BY <2>2, <2>3, <2>4 DEF ConfigInv
<1> QED
  BY <1>1, <1>2, <1>3, <1>4, <1>5, <1>6, <1>7, <1>8, <1>9, <1>10, <1>11 DEF Config!Next

\* What the configuration file keeps, for one part of a composition.
LEMMA ConfigKept ==
    ASSUME Config!ConfigAssumption
    PROVE  Config!Init /\ [][Config!Next]_ConfigVars => []Config!SafeReplacement
<1>1. Config!Init => ConfigInv
  BY ConfigInit
<1>2. ConfigInv /\ [Config!Next]_ConfigVars => ConfigInv'
  BY ConfigStep
<1>3. ConfigInv => Config!SafeReplacement
  BY DEF ConfigInv
<1> QED BY <1>1, <1>2, <1>3, PTL

-----------------------------------------------------------------------------
(* Recovery over USB                                                       *)

\* A process is at work only with the lock, and one that is not has read nothing.
UsbExclusive(p) ==
    /\ usbPc[p] # "idle" => usbLock = p
    /\ usbPc[p] = "idle" => boot[p] = 0
    /\ usbPc[p] \in {"decide", "probe", "dismiss", "unlocked", "launch", "foreground",
                     "same boot", "still unlocked", "save"} => boot[p] # 0

\* Boots are read in their order, and none was attempted beyond the one observed.
BootsOrdered ==
    /\ state.observed <= tablet.boot /\ state.completed <= state.observed
    /\ \A p \in Proc : boot[p] # 0 => state.observed <= boot[p] /\ boot[p] <= tablet.boot
    /\ \A b \in Usb!Boots : state.observed < b => tried[b] = 0

\* The attempts on file are those of the boot observed, until it is completed.
AttemptsCounted ==
    /\ Usb!AttemptsBounded
    /\ state.observed # 0 /\ state.completed # state.observed =>
          tried[state.observed] <= state.attempts

\* What is in front was shown; what was launched was launched in this boot of the
\* process or a later one.
UsbLaunched(p) ==
    /\ usbPc[p] \in {"foreground", "same boot"} =>
          \E b \in shown : boot[p] <= b /\ b <= tablet.boot
    /\ usbPc[p] \in {"still unlocked", "save"} => boot[p] \in shown

UsbInv ==
    /\ Usb!TypeOK /\ BootsOrdered /\ AttemptsCounted
    /\ \A p \in Proc : UsbExclusive(p) /\ UsbLaunched(p)
    /\ Usb!CompletedWasShown

Tablets == [boot : Usb!Boots, up : BOOLEAN, locked : BOOLEAN, secure : BOOLEAN, front : BOOLEAN,
            node : Node \cup {0}]

\* It holds at first: nothing was observed, attempted or read.
LEMMA UsbInit ==
    ASSUME Usb!UsbAssumption, Usb!Init
    PROVE  UsbInv
<1> USE DEF Usb!Init
<1>1. Usb!TypeOK
  <2>1. 1 \in Usb!Boots /\ MaxAttempts \in Nat
    BY DEF Usb!UsbAssumption, Usb!Boots
  <2>2. tablet \in Tablets
    BY <2>1 DEF Tablets
  <2> QED BY <2>1, <2>2 DEF Usb!TypeOK, Usb!Kinds, Usb!Steps, Usb!NoContainer, Tablets
<1> USE DEF Usb!UsbAssumption, Usb!Boots
<1>2. BootsOrdered /\ AttemptsCounted /\ Usb!CompletedWasShown
  BY DEF BootsOrdered, AttemptsCounted, Usb!CompletedWasShown, Usb!AttemptsBounded
<1>3. ASSUME NEW p \in Proc PROVE UsbExclusive(p) /\ UsbLaunched(p)
  BY DEF UsbExclusive, UsbLaunched
<1> QED BY <1>1, <1>2, <1>3 DEF UsbInv

\* The numbers among the values of the state.
LEMMA UsbNumbers ==
    ASSUME Usb!UsbAssumption, Usb!TypeOK
    PROVE  /\ tablet.boot \in Nat /\ 1 <= tablet.boot /\ tablet.boot \in Usb!Boots
           /\ state.observed \in Nat /\ state.completed \in Nat /\ state.attempts \in Nat
           /\ \A p \in Proc : boot[p] \in Nat /\ (boot[p] # 0 => boot[p] \in Usb!Boots)
           /\ \A b \in Usb!Boots : b \in Nat \ {0}
           /\ shown \subseteq Usb!Boots /\ tried \in [Usb!Boots -> Nat]
           /\ usbPc = [p \in Proc |-> usbPc[p]] /\ boot = [p \in Proc |-> boot[p]]
           /\ MaxAttempts \in Nat
BY SMTT(30) DEF Usb!UsbAssumption, Usb!TypeOK, Usb!Boots

\* A reboot gives the tablet the next number.
LEMMA RestartedType ==
    ASSUME Usb!UsbAssumption, Usb!TypeOK, tablet.boot < MaxBoot, tablet' = Usb!Restarted
    PROVE  tablet' \in Tablets /\ tablet'.boot = tablet.boot + 1
<1>1. tablet \in Tablets
  BY DEF Usb!TypeOK, Tablets
<1>2. tablet.boot + 1 \in Usb!Boots
  BY DEF Usb!UsbAssumption, Usb!TypeOK, Usb!Boots
<1> QED
  BY <1>1, <1>2 DEF Tablets, Usb!Restarted

\* At most, between natural numbers.
LEMMA AtMost == \A m, n \in Nat : m <= m /\ (m <= n /\ n <= m => m = n)
OBVIOUS

\* While one process is at work the others are idle.
LEMMA UsbAlone ==
    ASSUME \A q \in Proc : UsbExclusive(q),
           NEW p \in Proc, usbPc[p] # "idle", NEW q \in Proc, q # p
    PROVE  usbPc[q] = "idle" /\ boot[q] = 0
BY DEF UsbExclusive

\* Every step of the tablet, the container and the processes keeps it.
LEMMA UsbStep ==
    ASSUME Usb!UsbAssumption, UsbInv, [Usb!Next]_UsbVars
    PROVE  UsbInv'
<1> USE DEF Usb!process
<1>0. /\ Usb!TypeOK /\ BootsOrdered /\ AttemptsCounted
      /\ \A p \in Proc : UsbExclusive(p) /\ UsbLaunched(p)
      /\ Usb!CompletedWasShown
  BY DEF UsbInv
<1> USE <1>0
<1>1. CASE UNCHANGED UsbVars
  <2> USE <1>1 DEF UsbVars
  <2>1. Usb!TypeOK'
    BY DEF Usb!TypeOK, Usb!Boots, Usb!Kinds, Usb!Steps
  <2>2. BootsOrdered' /\ AttemptsCounted' /\ Usb!CompletedWasShown'
    BY DEF BootsOrdered, AttemptsCounted, Usb!CompletedWasShown, Usb!AttemptsBounded, Usb!Boots
  <2>3. ASSUME NEW q \in Proc PROVE (UsbExclusive(q) /\ UsbLaunched(q))'
    BY DEF UsbExclusive, UsbLaunched
  <2> QED BY <2>1, <2>2, <2>3 DEF UsbInv
<1>2. ASSUME Usb!Reboot PROVE UsbInv'
  <2> USE <1>2 DEF Usb!Reboot
  <2>0. tablet' \in Tablets /\ tablet'.boot = tablet.boot + 1
    BY RestartedType
  <2>1. Usb!TypeOK'
    BY <2>0 DEF Tablets, Usb!UsbAssumption, Usb!TypeOK, Usb!Boots, Usb!Kinds, Usb!Steps
  <2>2. BootsOrdered'
    <3>1. state' = state /\ boot' = boot /\ tried' = tried /\ Usb!Boots' = Usb!Boots
      BY DEF Usb!Boots
    <3> QED BY <2>0, <3>1, UsbNumbers DEF BootsOrdered
  <2>3. AttemptsCounted'
    BY <2>0, UsbNumbers DEF BootsOrdered, AttemptsCounted, Usb!AttemptsBounded
  <2>4. ASSUME NEW q \in Proc PROVE (UsbExclusive(q) /\ UsbLaunched(q))'
    <3>1. shown' = shown /\ boot' = boot /\ usbPc' = usbPc /\ usbLock' = usbLock
      OBVIOUS
    <3>2. /\ tablet.boot \in Nat
          /\ \A b \in shown : b \in Nat
      BY UsbNumbers
    <3>3. \A b \in shown : b <= tablet.boot => b <= tablet'.boot
      <4> HIDE <1>2, <1>0 DEF Usb!Reboot
      <4> QED BY <2>0, <3>2
    <3>4. UsbExclusive(q)'
      <4>1. UsbExclusive(q)
        OBVIOUS
      <4> HIDE <1>2, <1>0 DEF Usb!Reboot
      <4> QED BY <3>1, <4>1 DEF UsbExclusive
    <3>5. UsbLaunched(q)'
      <4>1. UsbLaunched(q)
        OBVIOUS
      <4> HIDE <1>2, <1>0 DEF Usb!Reboot
      <4> QED BY <3>1, <3>3, <4>1 DEF UsbLaunched
    <3> QED BY <3>4, <3>5
  <2>5. Usb!CompletedWasShown'
    BY DEF UsbLaunched, Usb!CompletedWasShown
  <2> QED BY <2>1, <2>2, <2>3, <2>4, <2>5 DEF UsbInv
<1>3. ASSUME Usb!Started PROVE UsbInv'
  <2> USE <1>3 DEF Usb!Started
  <2>0. tablet' \in Tablets /\ tablet'.boot = tablet.boot
    BY DEF Usb!TypeOK, Tablets
  <2>1. Usb!TypeOK'
    BY <2>0 DEF Tablets, Usb!UsbAssumption, Usb!TypeOK, Usb!Boots, Usb!Kinds, Usb!Steps
  <2>2. BootsOrdered'
    BY <2>0, UsbNumbers DEF BootsOrdered, UsbExclusive
  <2>3. AttemptsCounted'
    BY <2>0, UsbNumbers DEF BootsOrdered, AttemptsCounted, Usb!AttemptsBounded
  <2>4. ASSUME NEW q \in Proc PROVE (UsbExclusive(q) /\ UsbLaunched(q))'
    BY <2>0, UsbNumbers DEF UsbExclusive, UsbLaunched, BootsOrdered
  <2>5. Usb!CompletedWasShown'
    BY DEF UsbLaunched, Usb!CompletedWasShown
  <2> QED BY <2>1, <2>2, <2>3, <2>4, <2>5 DEF UsbInv
<1>4. ASSUME Usb!Used PROVE UsbInv'
  <2> USE <1>4 DEF Usb!Used
  <2>0. tablet' \in Tablets /\ tablet'.boot = tablet.boot
    <3>1. tablet \in Tablets
      BY DEF Usb!TypeOK, Tablets
    <3>2. CASE tablet' = [tablet EXCEPT !.locked = ~@]
      BY <3>1, <3>2 DEF Tablets
    <3>3. CASE tablet' = [tablet EXCEPT !.secure = ~@, !.locked = TRUE]
      BY <3>1, <3>3 DEF Tablets
    <3>4. CASE tablet' = [tablet EXCEPT !.front = FALSE]
      BY <3>1, <3>4 DEF Tablets
    <3> QED BY <3>2, <3>3, <3>4
  <2>1. Usb!TypeOK'
    BY <2>0 DEF Tablets, Usb!UsbAssumption, Usb!TypeOK, Usb!Boots, Usb!Kinds, Usb!Steps
  <2>2. BootsOrdered'
    BY <2>0, UsbNumbers DEF BootsOrdered, UsbExclusive
  <2>3. AttemptsCounted'
    BY <2>0, UsbNumbers DEF BootsOrdered, AttemptsCounted, Usb!AttemptsBounded
  <2>4. ASSUME NEW q \in Proc PROVE (UsbExclusive(q) /\ UsbLaunched(q))'
    BY <2>0, UsbNumbers DEF UsbExclusive, UsbLaunched, BootsOrdered
  <2>5. Usb!CompletedWasShown'
    BY DEF UsbLaunched, Usb!CompletedWasShown
  <2> QED BY <2>1, <2>2, <2>3, <2>4, <2>5 DEF UsbInv
<1>5. ASSUME Usb!Plugged PROVE UsbInv'
  <2> USE <1>5 DEF Usb!Plugged
  <2>0. tablet' \in Tablets /\ tablet'.boot = tablet.boot
    BY DEF Usb!TypeOK, Tablets
  <2>1. Usb!TypeOK'
    BY <2>0 DEF Tablets, Usb!UsbAssumption, Usb!TypeOK, Usb!Boots, Usb!Kinds, Usb!Steps
  <2>2. BootsOrdered'
    BY <2>0, UsbNumbers DEF BootsOrdered, UsbExclusive
  <2>3. AttemptsCounted'
    BY <2>0, UsbNumbers DEF BootsOrdered, AttemptsCounted, Usb!AttemptsBounded
  <2>4. ASSUME NEW q \in Proc PROVE (UsbExclusive(q) /\ UsbLaunched(q))'
    BY <2>0, UsbNumbers DEF UsbExclusive, UsbLaunched, BootsOrdered
  <2>5. Usb!CompletedWasShown'
    BY DEF UsbLaunched, Usb!CompletedWasShown
  <2> QED BY <2>1, <2>2, <2>3, <2>4, <2>5 DEF UsbInv
<1>6. ASSUME Usb!ContainerStops PROVE UsbInv'
  <2> USE <1>6 DEF Usb!ContainerStops
  <2>1. Usb!TypeOK'
    BY DEF Usb!UsbAssumption, Usb!TypeOK, Usb!Boots, Usb!Kinds, Usb!Steps
  <2>2. BootsOrdered'
    BY UsbNumbers DEF BootsOrdered, UsbExclusive
  <2>3. AttemptsCounted'
    BY UsbNumbers DEF BootsOrdered, AttemptsCounted, Usb!AttemptsBounded
  <2>4. ASSUME NEW q \in Proc PROVE (UsbExclusive(q) /\ UsbLaunched(q))'
    BY UsbNumbers DEF UsbExclusive, UsbLaunched, BootsOrdered
  <2>5. Usb!CompletedWasShown'
    BY DEF UsbLaunched, Usb!CompletedWasShown
  <2> QED BY <2>1, <2>2, <2>3, <2>4, <2>5 DEF UsbInv
<1>7. ASSUME NEW p \in Proc, NEW k \in Usb!Kinds, Usb!Acquire(p, k) PROVE UsbInv'
  <2> USE <1>7 DEF Usb!Acquire, Usb!Go
  <2>1. Usb!TypeOK'
    BY DEF Usb!UsbAssumption, Usb!TypeOK, Usb!Boots, Usb!Kinds, Usb!Steps
  <2>2. BootsOrdered'
    BY UsbNumbers DEF BootsOrdered, UsbExclusive
  <2>3. AttemptsCounted'
    BY UsbNumbers DEF BootsOrdered, AttemptsCounted, Usb!AttemptsBounded
  <2>4. ASSUME NEW q \in Proc PROVE (UsbExclusive(q) /\ UsbLaunched(q))'
    <3>1. q # p => usbPc[q] = "idle"
      BY DEF Usb!UsbAssumption, UsbExclusive
    <3> QED BY <3>1, UsbNumbers DEF UsbExclusive, UsbLaunched
  <2>5. Usb!CompletedWasShown'
    BY DEF UsbLaunched, Usb!CompletedWasShown
  <2> QED BY <2>1, <2>2, <2>3, <2>4, <2>5 DEF UsbInv
<1>8. ASSUME NEW p \in Proc, Usb!Fail(p) PROVE UsbInv'
  <2> USE <1>8 DEF Usb!Fail, Usb!Go, Usb!Ends
  <2>1. Usb!TypeOK'
    BY DEF Usb!UsbAssumption, Usb!TypeOK, Usb!Boots, Usb!Kinds, Usb!Steps
  <2>2. BootsOrdered'
    BY UsbNumbers DEF BootsOrdered, UsbExclusive
  <2>3. AttemptsCounted'
    BY UsbNumbers DEF BootsOrdered, AttemptsCounted, Usb!AttemptsBounded
  <2>4. ASSUME NEW q \in Proc PROVE (UsbExclusive(q) /\ UsbLaunched(q))'
    <3>1. CASE q # p
      BY <3>1, UsbAlone, UsbNumbers DEF UsbExclusive, UsbLaunched
    <3>2. CASE q = p
      BY <3>2, UsbNumbers DEF UsbExclusive, UsbLaunched, BootsOrdered
    <3> QED BY <3>1, <3>2
  <2>5. Usb!CompletedWasShown'
    BY DEF UsbLaunched, Usb!CompletedWasShown
  <2> QED BY <2>1, <2>2, <2>3, <2>4, <2>5 DEF UsbInv
<1>9. ASSUME NEW p \in Proc, Usb!Reconcile(p) PROVE UsbInv'
  <2> USE <1>9 DEF Usb!Reconcile, Usb!Go, Usb!NoContainer
  <2>1. Usb!TypeOK'
    BY DEF Usb!UsbAssumption, Usb!TypeOK, Usb!Boots, Usb!Kinds, Usb!Steps
  <2>2. BootsOrdered'
    BY UsbNumbers DEF BootsOrdered, UsbExclusive
  <2>3. AttemptsCounted'
    BY UsbNumbers DEF BootsOrdered, AttemptsCounted, Usb!AttemptsBounded
  <2>4. ASSUME NEW q \in Proc PROVE (UsbExclusive(q) /\ UsbLaunched(q))'
    <3>1. CASE q # p
      BY <3>1, UsbAlone, UsbNumbers DEF UsbExclusive, UsbLaunched
    <3>2. CASE q = p
      BY <3>2, UsbNumbers DEF UsbExclusive, UsbLaunched, BootsOrdered
    <3> QED BY <3>1, <3>2
  <2>5. Usb!CompletedWasShown'
    BY DEF UsbLaunched, Usb!CompletedWasShown
  <2> QED BY <2>1, <2>2, <2>3, <2>4, <2>5 DEF UsbInv
<1>10. ASSUME NEW p \in Proc, Usb!Create(p) PROVE UsbInv'
  <2> USE <1>10 DEF Usb!Create, Usb!Go, Usb!Ends
  <2>1. Usb!TypeOK'
    BY ZenonT(60) DEF Usb!UsbAssumption, Usb!TypeOK, Usb!Boots, Usb!Kinds, Usb!Steps
  <2>2. BootsOrdered'
    BY UsbNumbers DEF BootsOrdered, UsbExclusive
  <2>3. AttemptsCounted'
    BY UsbNumbers DEF BootsOrdered, AttemptsCounted, Usb!AttemptsBounded
  <2>4. ASSUME NEW q \in Proc PROVE (UsbExclusive(q) /\ UsbLaunched(q))'
    <3>1. CASE q # p
      BY <3>1, UsbAlone, UsbNumbers DEF UsbExclusive, UsbLaunched
    <3>2. CASE q = p
      BY <3>2, UsbNumbers DEF UsbExclusive, UsbLaunched, BootsOrdered
    <3> QED BY <3>1, <3>2
  <2>5. Usb!CompletedWasShown'
    BY DEF UsbLaunched, Usb!CompletedWasShown
  <2> QED BY <2>1, <2>2, <2>3, <2>4, <2>5 DEF UsbInv
<1>11. ASSUME NEW p \in Proc, Usb!Bind(p) PROVE UsbInv'
  <2> USE <1>11 DEF Usb!Bind, Usb!Ask, Usb!Call, Usb!Go
  <2>1. Usb!TypeOK'
    BY DEF Usb!UsbAssumption, Usb!TypeOK, Usb!Boots, Usb!Kinds, Usb!Steps
  <2>2. BootsOrdered'
    BY UsbNumbers DEF BootsOrdered, UsbExclusive
  <2>3. AttemptsCounted'
    BY UsbNumbers DEF BootsOrdered, AttemptsCounted, Usb!AttemptsBounded
  <2>4. ASSUME NEW q \in Proc PROVE (UsbExclusive(q) /\ UsbLaunched(q))'
    <3>1. CASE q # p
      BY <3>1, UsbAlone, UsbNumbers DEF UsbExclusive, UsbLaunched
    <3>2. CASE q = p
      BY <3>2, UsbNumbers DEF UsbExclusive, UsbLaunched, BootsOrdered
    <3> QED BY <3>1, <3>2
  <2>5. Usb!CompletedWasShown'
    BY DEF UsbLaunched, Usb!CompletedWasShown
  <2> QED BY <2>1, <2>2, <2>3, <2>4, <2>5 DEF UsbInv
<1>12. ASSUME NEW p \in Proc, Usb!ReadBoot(p) PROVE UsbInv'
  <2> USE <1>12 DEF Usb!ReadBoot, Usb!Call, Usb!Go
  <2>1. Usb!TypeOK'
    BY ZenonT(60) DEF Usb!UsbAssumption, Usb!TypeOK, Usb!Boots, Usb!Kinds, Usb!Steps
  <2>2. BootsOrdered'
    <3>1. \A q \in Proc : boot'[q] \in {0, tablet.boot}
      <4>1. usbPc[p] # "idle"
        OBVIOUS
      <4>2. ASSUME NEW q \in Proc PROVE boot'[q] \in {0, tablet.boot}
        <5>1. CASE q = p
          BY <5>1, UsbNumbers
        <5>2. CASE q # p
          <6>1. boot[q] = 0
            BY <4>1, <5>2, UsbAlone
          <6> QED BY <5>2, <6>1, UsbNumbers
        <5> QED BY <5>1, <5>2
      <4> QED BY <4>2
    <3>2. /\ state' = state /\ tablet' = tablet /\ tried' = tried /\ Usb!Boots' = Usb!Boots
      BY DEF Usb!Boots
    <3>3. /\ state.observed \in Nat /\ tablet.boot \in Nat
          /\ state.observed <= tablet.boot /\ tablet.boot <= tablet.boot
      <4>1. tablet.boot \in Nat /\ state.observed \in Nat
        BY UsbNumbers
      <4>2. state.observed <= tablet.boot
        BY DEF BootsOrdered
      <4> QED BY <4>1, <4>2, AtMost
    <3>4. BootsOrdered
      OBVIOUS
    <3> HIDE <1>12, <1>0
    <3> QED BY <3>1, <3>2, <3>3, <3>4 DEF BootsOrdered
  <2>3. AttemptsCounted'
    BY UsbNumbers DEF BootsOrdered, AttemptsCounted, Usb!AttemptsBounded
  <2>4. ASSUME NEW q \in Proc PROVE (UsbExclusive(q) /\ UsbLaunched(q))'
    <3>1. CASE q # p
      BY <3>1, UsbAlone, UsbNumbers DEF UsbExclusive, UsbLaunched
    <3>2. CASE q = p
      BY <3>2, UsbNumbers DEF UsbExclusive, UsbLaunched, BootsOrdered
    <3> QED BY <3>1, <3>2
  <2>5. Usb!CompletedWasShown'
    BY DEF UsbLaunched, Usb!CompletedWasShown
  <2> QED BY <2>1, <2>2, <2>3, <2>4, <2>5 DEF UsbInv
<1>13. ASSUME NEW p \in Proc, Usb!Decide(p) PROVE UsbInv'
  <2> USE <1>13 DEF Usb!Decide, Usb!Go, Usb!Ends
  <2>0. /\ boot[p] \in Usb!Boots /\ boot[p] <= tablet.boot /\ state.observed <= boot[p]
        /\ \/ /\ state.observed # 0 /\ state.completed # boot[p]
              /\ Usb!Attempts(boot[p]) < MaxAttempts
              /\ state' = Usb!Attempted(boot[p]) /\ shown' = shown
              /\ tried' = [tried EXCEPT ![boot[p]] = tried[boot[p]] + 1]
           \/ /\ state.observed = 0 /\ state' = Usb!Armed(boot[p]) /\ tried' = tried
              /\ shown' = shown \cup {boot[p]}
           \/ state' = state /\ shown' = shown /\ tried' = tried
    BY UsbNumbers DEF BootsOrdered, UsbExclusive
  <2>a. /\ Usb!Attempts(boot[p]) \in Nat
        /\ Usb!Attempted(boot[p]).observed = boot[p]
        /\ Usb!Attempted(boot[p]).completed = state.completed
        /\ Usb!Attempted(boot[p]).attempts = Usb!Attempts(boot[p]) + 1
    BY <2>0, UsbNumbers DEF Usb!TypeOK, Usb!Attempts, Usb!Attempted
  <2>1. Usb!TypeOK'
    <3>1. state' \in [observed : {0} \cup Usb!Boots, completed : {0} \cup Usb!Boots,
                     attempts : 0..MaxAttempts]
      <4>1. CASE state' = state
        BY <4>1 DEF Usb!TypeOK
      <4>2. CASE state' = Usb!Armed(boot[p])
        BY <4>2, <2>0, UsbNumbers DEF Usb!Armed
      <4>3. CASE state' = Usb!Attempted(boot[p]) /\ Usb!Attempts(boot[p]) < MaxAttempts
        <5>1. /\ state \in [observed : {0} \cup Usb!Boots, completed : {0} \cup Usb!Boots,
                           attempts : 0..MaxAttempts]
              /\ boot[p] \in {0} \cup Usb!Boots
          BY <2>0 DEF Usb!TypeOK
        <5>2. Usb!Attempts(boot[p]) + 1 \in 0..MaxAttempts
          <6> HIDE <1>13, <1>0
          <6> QED BY <4>3, <2>a, UsbNumbers, <1>0
        <5>3. state' = [state EXCEPT !.observed = boot[p],
                                    !.attempts = Usb!Attempts(boot[p]) + 1]
          BY <4>3 DEF Usb!Attempted
        <5> HIDE <1>13, <1>0
        <5> QED BY <5>1, <5>2, <5>3
      <4> HIDE <1>13, <1>0
      <4> QED BY <4>1, <4>2, <4>3, <2>0
    <3>2. tried' \in [Usb!Boots -> Nat] /\ shown' \subseteq Usb!Boots
      BY <2>0, UsbNumbers
    <3> QED BY <3>1, <3>2, ZenonT(60) DEF Usb!Go, Usb!Ends, Usb!TypeOK, Usb!Boots, Usb!Kinds,
       Usb!Steps
  <2>2. BootsOrdered'
    <3>1. \A q \in Proc : boot'[q] \in {0, boot[p]}
      BY UsbAlone, UsbNumbers DEF Usb!Ends
    <3> QED BY <2>0, <2>a, <3>1, UsbNumbers DEF BootsOrdered, Usb!Armed
  <2>3. AttemptsCounted'
    BY <2>0, <2>a, UsbNumbers DEF BootsOrdered, AttemptsCounted, Usb!AttemptsBounded,
       Usb!Attempts, Usb!Armed
  <2>4. ASSUME NEW q \in Proc PROVE (UsbExclusive(q) /\ UsbLaunched(q))'
    <3>1. CASE q # p
      BY <3>1, UsbAlone, UsbNumbers, ZenonT(60) DEF UsbExclusive, UsbLaunched, Usb!Go, Usb!Ends
    <3>2. CASE q = p
      BY <3>2, UsbNumbers DEF UsbExclusive, UsbLaunched, BootsOrdered, Usb!Go, Usb!Ends
    <3> QED BY <3>1, <3>2
  <2>5. Usb!CompletedWasShown'
    BY <2>0, <2>a DEF Usb!CompletedWasShown, Usb!Armed
  <2> QED BY <2>1, <2>2, <2>3, <2>4, <2>5 DEF UsbInv
<1>14. ASSUME NEW p \in Proc, Usb!Begin(p) PROVE UsbInv'
  <2> USE <1>14 DEF Usb!Begin, Usb!Ask, Usb!Call, Usb!Go
  <2>1. Usb!TypeOK'
    BY DEF Usb!UsbAssumption, Usb!TypeOK, Usb!Boots, Usb!Kinds, Usb!Steps
  <2>2. BootsOrdered'
    BY UsbNumbers DEF BootsOrdered, UsbExclusive
  <2>3. AttemptsCounted'
    BY UsbNumbers DEF BootsOrdered, AttemptsCounted, Usb!AttemptsBounded
  <2>4. ASSUME NEW q \in Proc PROVE (UsbExclusive(q) /\ UsbLaunched(q))'
    <3>1. CASE q # p
      BY <3>1, UsbAlone, UsbNumbers DEF UsbExclusive, UsbLaunched
    <3>2. CASE q = p
      BY <3>2, UsbNumbers DEF UsbExclusive, UsbLaunched, BootsOrdered
    <3> QED BY <3>1, <3>2
  <2>5. Usb!CompletedWasShown'
    BY DEF UsbLaunched, Usb!CompletedWasShown
  <2> QED BY <2>1, <2>2, <2>3, <2>4, <2>5 DEF UsbInv
<1>15. ASSUME NEW p \in Proc, Usb!Probe(p) PROVE UsbInv'
  <2> USE <1>15 DEF Usb!Probe, Usb!Ask, Usb!Call, Usb!Go
  <2>1. Usb!TypeOK'
    BY DEF Usb!UsbAssumption, Usb!TypeOK, Usb!Boots, Usb!Kinds, Usb!Steps
  <2>2. BootsOrdered'
    BY UsbNumbers DEF BootsOrdered, UsbExclusive
  <2>3. AttemptsCounted'
    BY UsbNumbers DEF BootsOrdered, AttemptsCounted, Usb!AttemptsBounded
  <2>4. ASSUME NEW q \in Proc PROVE (UsbExclusive(q) /\ UsbLaunched(q))'
    <3>1. CASE q # p
      BY <3>1, UsbAlone, UsbNumbers DEF UsbExclusive, UsbLaunched
    <3>2. CASE q = p
      BY <3>2, UsbNumbers DEF UsbExclusive, UsbLaunched, BootsOrdered
    <3> QED BY <3>1, <3>2
  <2>5. Usb!CompletedWasShown'
    BY DEF UsbLaunched, Usb!CompletedWasShown
  <2> QED BY <2>1, <2>2, <2>3, <2>4, <2>5 DEF UsbInv
<1>16. ASSUME NEW p \in Proc, Usb!Dismiss(p) PROVE UsbInv'
  <2> USE <1>16 DEF Usb!Dismiss, Usb!Call, Usb!Go
  <2>0. tablet' \in Tablets /\ tablet'.boot = tablet.boot
    <3>1. tablet \in Tablets
      BY DEF Usb!TypeOK, Tablets
    <3>2. tablet' = tablet \/ tablet' = [tablet EXCEPT !.locked = FALSE]
      OBVIOUS
    <3> QED BY <3>1, <3>2 DEF Tablets
  <2>1. Usb!TypeOK'
    BY <2>0 DEF Tablets, Usb!UsbAssumption, Usb!TypeOK, Usb!Boots, Usb!Kinds, Usb!Steps
  <2>2. BootsOrdered'
    BY <2>0, UsbNumbers DEF BootsOrdered, UsbExclusive
  <2>3. AttemptsCounted'
    BY <2>0, UsbNumbers DEF BootsOrdered, AttemptsCounted, Usb!AttemptsBounded
  <2>4. ASSUME NEW q \in Proc PROVE (UsbExclusive(q) /\ UsbLaunched(q))'
    <3>1. CASE q # p
      BY <2>0, <3>1, UsbAlone, UsbNumbers DEF UsbExclusive, UsbLaunched
    <3>2. CASE q = p
      BY <2>0, <3>2, UsbNumbers DEF UsbExclusive, UsbLaunched, BootsOrdered
    <3> QED BY <3>1, <3>2
  <2>5. Usb!CompletedWasShown'
    BY DEF UsbLaunched, Usb!CompletedWasShown
  <2> QED BY <2>1, <2>2, <2>3, <2>4, <2>5 DEF UsbInv
<1>17. ASSUME NEW p \in Proc, Usb!Unlocked(p) PROVE UsbInv'
  <2> USE <1>17 DEF Usb!Unlocked, Usb!Ask, Usb!Call, Usb!Go
  <2>1. Usb!TypeOK'
    BY DEF Usb!UsbAssumption, Usb!TypeOK, Usb!Boots, Usb!Kinds, Usb!Steps
  <2>2. BootsOrdered'
    BY UsbNumbers DEF BootsOrdered, UsbExclusive
  <2>3. AttemptsCounted'
    BY UsbNumbers DEF BootsOrdered, AttemptsCounted, Usb!AttemptsBounded
  <2>4. ASSUME NEW q \in Proc PROVE (UsbExclusive(q) /\ UsbLaunched(q))'
    <3>1. CASE q # p
      BY <3>1, UsbAlone, UsbNumbers DEF UsbExclusive, UsbLaunched
    <3>2. CASE q = p
      BY <3>2, UsbNumbers DEF UsbExclusive, UsbLaunched, BootsOrdered
    <3> QED BY <3>1, <3>2
  <2>5. Usb!CompletedWasShown'
    BY DEF UsbLaunched, Usb!CompletedWasShown
  <2> QED BY <2>1, <2>2, <2>3, <2>4, <2>5 DEF UsbInv
<1>18. ASSUME NEW p \in Proc, Usb!Launch(p) PROVE UsbInv'
  <2> USE <1>18 DEF Usb!Launch, Usb!Call, Usb!Go
  <2>0. tablet' \in Tablets /\ tablet'.boot = tablet.boot
    BY DEF Usb!TypeOK, Tablets
  <2>1. Usb!TypeOK'
    BY <2>0 DEF Tablets, Usb!UsbAssumption, Usb!TypeOK, Usb!Boots, Usb!Kinds, Usb!Steps
  <2>2. BootsOrdered'
    BY <2>0, UsbNumbers DEF BootsOrdered, UsbExclusive
  <2>3. AttemptsCounted'
    BY <2>0, UsbNumbers DEF BootsOrdered, AttemptsCounted, Usb!AttemptsBounded
  <2>4. ASSUME NEW q \in Proc PROVE (UsbExclusive(q) /\ UsbLaunched(q))'
    <3>1. CASE q # p
      BY <2>0, <3>1, UsbAlone, UsbNumbers DEF UsbExclusive, UsbLaunched
    <3>2. CASE q = p
      <4>1. UsbExclusive(p) /\ boot[p] <= tablet.boot /\ tablet'.boot = tablet.boot
        BY <2>0, UsbNumbers DEF BootsOrdered, UsbExclusive
      <4>2. tablet.boot \in shown' /\ tablet.boot <= tablet.boot
        BY <2>0, UsbNumbers
      <4>3. usbPc'[p] = "foreground" /\ boot'[p] = boot[p] /\ usbLock' = p
        BY <4>1, UsbNumbers DEF UsbExclusive
      <4> QED BY <3>2, <4>1, <4>2, <4>3 DEF UsbExclusive, UsbLaunched
    <3> QED BY <3>1, <3>2
  <2>5. Usb!CompletedWasShown'
    BY DEF UsbLaunched, Usb!CompletedWasShown
  <2> QED BY <2>1, <2>2, <2>3, <2>4, <2>5 DEF UsbInv
<1>19. ASSUME NEW p \in Proc, Usb!Foreground(p) PROVE UsbInv'
  <2> USE <1>19 DEF Usb!Foreground, Usb!Ask, Usb!Call, Usb!Go
  <2>1. Usb!TypeOK'
    BY DEF Usb!UsbAssumption, Usb!TypeOK, Usb!Boots, Usb!Kinds, Usb!Steps
  <2>2. BootsOrdered'
    BY UsbNumbers DEF BootsOrdered, UsbExclusive
  <2>3. AttemptsCounted'
    BY UsbNumbers DEF BootsOrdered, AttemptsCounted, Usb!AttemptsBounded
  <2>4. ASSUME NEW q \in Proc PROVE (UsbExclusive(q) /\ UsbLaunched(q))'
    <3>1. CASE q # p
      BY <3>1, UsbAlone, UsbNumbers DEF UsbExclusive, UsbLaunched
    <3>2. CASE q = p
      BY <3>2, UsbNumbers DEF UsbExclusive, UsbLaunched, BootsOrdered
    <3> QED BY <3>1, <3>2
  <2>5. Usb!CompletedWasShown'
    BY DEF UsbLaunched, Usb!CompletedWasShown
  <2> QED BY <2>1, <2>2, <2>3, <2>4, <2>5 DEF UsbInv
<1>20. ASSUME NEW p \in Proc, Usb!Again(p) PROVE UsbInv'
  <2> USE <1>20 DEF Usb!Again, Usb!Ask, Usb!Call, Usb!Go, Usb!SameBoot
  <2>1. Usb!TypeOK'
    BY ZenonT(60) DEF Usb!UsbAssumption, Usb!TypeOK, Usb!Boots, Usb!Kinds, Usb!Steps
  <2>2. BootsOrdered'
    BY UsbNumbers DEF BootsOrdered, UsbExclusive
  <2>3. AttemptsCounted'
    BY UsbNumbers DEF BootsOrdered, AttemptsCounted, Usb!AttemptsBounded
  <2>4. ASSUME NEW q \in Proc PROVE (UsbExclusive(q) /\ UsbLaunched(q))'
    <3>1. CASE q # p
      BY <3>1, UsbAlone, UsbNumbers DEF UsbExclusive, UsbLaunched
    <3>2. CASE q = p
      <4>1. usbPc[p] = "same boot" => boot[p] \in shown
        <5> SUFFICES ASSUME usbPc[p] = "same boot" PROVE boot[p] \in shown
          OBVIOUS
        <5>1. PICK b \in shown : boot[p] <= b /\ b <= tablet.boot
          BY DEF UsbLaunched
        <5>2. tablet.boot = boot[p]
          <6>1. ~(usbPc[p] = "still unlocked")
            OBVIOUS
          <6> QED BY <6>1
        <5>3. boot[p] \in Nat /\ tablet.boot \in Nat /\ b \in Nat
          BY UsbNumbers
        <5>4. b = boot[p]
          <6> HIDE <1>20, <1>0
          <6>1. tablet.boot <= b
            BY <5>1, <5>2
          <6>2. b <= tablet.boot
            BY <5>1
          <6>3. b = tablet.boot
            BY <6>1, <6>2, <5>3, AtMost, Zenon
          <6> QED BY <6>3, <5>2
        <5> QED BY <5>4
      <4> QED BY <3>2, <4>1, UsbNumbers DEF UsbExclusive, UsbLaunched
    <3> QED BY <3>1, <3>2
  <2>5. Usb!CompletedWasShown'
    BY DEF UsbLaunched, Usb!CompletedWasShown
  <2> QED BY <2>1, <2>2, <2>3, <2>4, <2>5 DEF UsbInv
<1>21. ASSUME NEW p \in Proc, Usb!Save(p) PROVE UsbInv'
  <2> USE <1>21 DEF Usb!Save, Usb!Go, Usb!Ends
  <2>1. Usb!TypeOK'
    <3>1. boot[p] \in Usb!Boots
      <4>1. boot[p] # 0 /\ boot[p] \in {0} \cup Usb!Boots
        BY DEF UsbExclusive, Usb!TypeOK
      <4> QED BY <4>1
    <3>2. state' \in [observed : {0} \cup Usb!Boots, completed : {0} \cup Usb!Boots,
                     attempts : 0..MaxAttempts]
      BY <3>1, UsbNumbers
    <3> QED BY <3>2 DEF Usb!TypeOK, Usb!Boots, Usb!Kinds, Usb!Steps
  <2>2. BootsOrdered'
    <3>1. \A q \in Proc : boot'[q] = 0
      BY UsbAlone, UsbNumbers
    <3>2. boot[p] # 0
      BY DEF UsbExclusive
    <3> QED BY <3>1, <3>2, UsbNumbers DEF BootsOrdered
  <2>3. AttemptsCounted'
    BY UsbNumbers DEF BootsOrdered, AttemptsCounted, Usb!AttemptsBounded
  <2>4. ASSUME NEW q \in Proc PROVE (UsbExclusive(q) /\ UsbLaunched(q))'
    <3>1. CASE q # p
      BY <3>1, UsbAlone, UsbNumbers DEF UsbExclusive, UsbLaunched
    <3>2. CASE q = p
      BY <3>2, UsbNumbers DEF UsbExclusive, UsbLaunched, BootsOrdered
    <3> QED BY <3>1, <3>2
  <2>5. Usb!CompletedWasShown'
    BY DEF UsbLaunched, Usb!CompletedWasShown
  <2> QED BY <2>1, <2>2, <2>3, <2>4, <2>5 DEF UsbInv
<1>22. ASSUME NEW p \in Proc, Usb!Restart(p) PROVE UsbInv'
  <2> USE <1>22 DEF Usb!Restart, Usb!Go, Usb!Ends
  <2>0. tablet' \in Tablets /\ tablet'.boot = tablet.boot + 1
    BY RestartedType
  <2>1. Usb!TypeOK'
    BY <2>0 DEF Tablets, Usb!UsbAssumption, Usb!TypeOK, Usb!Boots, Usb!Kinds, Usb!Steps
  <2>2. BootsOrdered'
    <3>1. state' = state /\ tried' = tried /\ Usb!Boots' = Usb!Boots
      BY DEF Usb!Boots
    <3>2. \A q \in Proc : boot'[q] = 0
      BY UsbAlone, UsbNumbers
    <3> QED BY <2>0, <3>1, <3>2, UsbNumbers DEF BootsOrdered
  <2>3. AttemptsCounted'
    BY <2>0, UsbNumbers DEF BootsOrdered, AttemptsCounted, Usb!AttemptsBounded
  <2>4. ASSUME NEW q \in Proc PROVE (UsbExclusive(q) /\ UsbLaunched(q))'
    <3>1. CASE q # p
      BY <2>0, <3>1, UsbAlone, UsbNumbers DEF UsbExclusive, UsbLaunched
    <3>2. CASE q = p
      BY <2>0, <3>2, UsbNumbers DEF UsbExclusive, UsbLaunched, BootsOrdered
    <3> QED BY <3>1, <3>2
  <2>5. Usb!CompletedWasShown'
    BY DEF UsbLaunched, Usb!CompletedWasShown
  <2> QED BY <2>1, <2>2, <2>3, <2>4, <2>5 DEF UsbInv
<1> QED
  BY <1>1, <1>2, <1>3, <1>4, <1>5, <1>6, <1>7, <1>8, <1>9, <1>10, <1>11, <1>12, <1>13, <1>14,
     <1>15, <1>16, <1>17, <1>18, <1>19, <1>20, <1>21, <1>22 DEF Usb!Next, UsbVars

\* What the supervisor keeps, for one part of a composition.
LEMMA UsbKept ==
    ASSUME Usb!UsbAssumption
    PROVE  Usb!Init /\ [][Usb!Next]_UsbVars
             => [](Usb!TypeOK /\ Usb!AttemptsBounded /\ Usb!CompletedWasShown)
<1>1. Usb!Init => UsbInv
  BY UsbInit
<1>2. UsbInv /\ [Usb!Next]_UsbVars => UsbInv'
  BY UsbStep
<1>3. UsbInv => Usb!TypeOK /\ Usb!AttemptsBounded /\ Usb!CompletedWasShown
  BY DEF UsbInv, AttemptsCounted
<1> QED BY <1>1, <1>2, <1>3, PTL

-----------------------------------------------------------------------------
(* The commands together                                                   *)

\* Whatever else runs, the commands on the favorites of a group are those of
\* FavoritesReplace, so its theorems hold of every part.
THEOREM GroupImplemented == WritesSpec => Spec
<1>1. WritesInit => Init
  BY DEF WritesInit
<1>2. [WritesNext]_writesVars => [Next]_vars
  BY DEF WritesNext, writesVars
<1> QED BY <1>1, <1>2, PTL DEF WritesSpec, Spec

\* A list that is shown was the player's at one moment, also when favorites change
\* between its pages; all documents have their items once (ItemsPeer.list, _select,
\* plan_documents): for every set of runs and items, and every length.
THEOREM ListedAtOnceCorrect == WritesSpec => []ListedAtOnce
<1>1. WritesInit /\ part = "lists" => Lists!Init
  BY DEF WritesInit
<1>2. [WritesNext]_writesVars /\ part = "lists" => [Lists!Next]_Lists!vars
  <2>1. WritesNext /\ part = "lists" => Lists!Next
    BY DEF WritesNext
  <2>2. UNCHANGED writesVars => UNCHANGED Lists!vars
    BY DEF writesVars, GlobalVars, Lists!vars, Lists!player, Lists!inputs
  <2> QED BY <2>1, <2>2
<1>3. [WritesNext]_writesVars => ((part = "lists")' <=> part = "lists")
  BY DEF WritesNext, writesVars
<1>4. Lists!Init /\ [][Lists!Next]_Lists!vars
        => [](Lists!TypeOK /\ Lists!ListedAtOnce)
  BY ListsKept, ListConstants
<1> QED BY <1>1, <1>2, <1>3, <1>4, PTL DEF WritesSpec, ListedAtOnce

\* What a commit changes is what the user was told: the favorites were those of the
\* snapshot and become those of the plan, however late the commit is executed and
\* whatever other runs and the viewer did (_stage, _preview, _commit, reconcile).
THEOREM CommitsThePlanCorrect == WritesSpec => CommitsThePlan
<1>1. WritesInit /\ part = "plans" => Plans!Init
  BY DEF WritesInit
<1>2. [WritesNext]_writesVars /\ part = "plans" => [Plans!Next]_Plans!vars
  <2>1. WritesNext /\ part = "plans" => Plans!Next
    BY DEF WritesNext
  <2>2. UNCHANGED writesVars => UNCHANGED Plans!vars
    BY DEF writesVars, GlobalVars, Plans!vars, Plans!player, Plans!inputs
  <2> QED BY <2>1, <2>2
<1>3. [WritesNext]_writesVars => ((part = "plans")' <=> part = "plans")
  BY DEF WritesNext, writesVars
<1>4. Plans!Init /\ [][Plans!Next]_Plans!vars
        => [][Plans!CommitsThePlan]_Plans!vars
  BY PlansKept, PlanConstants
<1>5. ASSUME [WritesNext]_writesVars, UNCHANGED Plans!vars, part = "plans"
      PROVE  UNCHANGED writesVars
  <2>1. CASE WritesNext
    <3>1. UNCHANGED <<part, vars, PresetVars, ConfigVars, UsbVars>>
      BY <2>1, <1>5 DEF WritesNext
    <3>2. UNCHANGED GlobalVars
      BY <1>5 DEF GlobalVars, Plans!vars, Plans!player, Plans!inputs
    <3> QED BY <3>1, <3>2 DEF writesVars
  <2>2. CASE UNCHANGED writesVars
    BY <2>2
  <2> QED BY <2>1, <2>2, <1>5
<1>6. [WritesNext]_writesVars /\ part = "plans" /\ [Plans!CommitsThePlan]_Plans!vars
        => [part = "plans" => Plans!CommitsThePlan]_writesVars
  BY <1>5
<1>7. ~(part = "plans") => [part = "plans" => Plans!CommitsThePlan]_writesVars
  OBVIOUS
<1> QED BY <1>1, <1>2, <1>3, <1>4, <1>6, <1>7, PTL DEF WritesSpec, CommitsThePlan

\* Whatever was killed, lost or late, only the command on file as pending may still
\* be executed, so no step is repeated and no later one taken meanwhile; and a
\* preset that is reported as verified is the player's (preset_session.py: retry,
\* complete, recover, verify): for every preset, number of keys and times.
THEOREM SafePresetCorrect == WritesSpec => SafePreset
<1>1. WritesInit /\ part = "preset" => Preset!Init
  BY DEF WritesInit
<1>2. [WritesNext]_writesVars /\ part = "preset" => [Preset!Next]_PresetVars
  <2>1. WritesNext /\ part = "preset" => Preset!Next
    BY DEF WritesNext
  <2>2. UNCHANGED writesVars => UNCHANGED PresetVars
    BY DEF writesVars, PresetVars
  <2> QED BY <2>1, <2>2
<1>3. [WritesNext]_writesVars => ((part = "preset")' <=> part = "preset")
  BY DEF WritesNext, writesVars
<1>4. Preset!Init /\ [][Preset!Next]_PresetVars
        => /\ [](Preset!TypeOK /\ Preset!NeverInDoubt)
           /\ [][Preset!VerifiedIsTrue]_PresetVars
  BY PresetKept, PresetConstants
<1>5. ASSUME [WritesNext]_writesVars, UNCHANGED PresetVars, part = "preset"
      PROVE  UNCHANGED writesVars
  <2>1. CASE WritesNext
    <3>1. UNCHANGED <<part, vars, GlobalVars, ConfigVars, UsbVars>>
      BY <2>1, <1>5 DEF WritesNext
    <3> QED BY <3>1, <1>5 DEF writesVars
  <2>2. CASE UNCHANGED writesVars
    BY <2>2
  <2> QED BY <2>1, <2>2, <1>5
<1>6. [WritesNext]_writesVars /\ part = "preset" /\ [Preset!VerifiedIsTrue]_PresetVars
        => [part = "preset" => Preset!VerifiedIsTrue]_writesVars
  BY <1>5
<1>7. ~(part = "preset") => [part = "preset" => Preset!VerifiedIsTrue]_writesVars
  OBVIOUS
<1> QED BY <1>1, <1>2, <1>3, <1>4, <1>6, <1>7, PTL DEF WritesSpec, SafePreset

\* However the commands that write cli.json overlap, one replaces what it saw when it
\* last looked, unless another that no lock keeps away wrote after that look, and
\* what a favorites command saw is in a backup (preset_favorites.py, player_groups.py,
\* device_power.py, and the writers of cli.json in ott.py).
THEOREM SafeReplacementCorrect == WritesSpec => []SafeReplacement
<1>1. WritesInit /\ part = "config" => Config!Init
  BY DEF WritesInit
<1>2. [WritesNext]_writesVars /\ part = "config" => [Config!Next]_ConfigVars
  <2>1. WritesNext /\ part = "config" => Config!Next
    BY DEF WritesNext
  <2>2. UNCHANGED writesVars => UNCHANGED ConfigVars
    BY DEF writesVars, ConfigVars
  <2> QED BY <2>1, <2>2
<1>3. [WritesNext]_writesVars => ((part = "config")' <=> part = "config")
  BY DEF WritesNext, writesVars
<1>4. Config!Init /\ [][Config!Next]_ConfigVars
        => []Config!SafeReplacement
  BY ConfigKept, ConfigConstants
<1> QED BY <1>1, <1>2, <1>3, <1>4, PTL DEF WritesSpec, SafeReplacement

\* No boot of the tablet is recovered automatically more often than max_attempts,
\* whoever is killed or recovers it by hand meanwhile, and a boot on file as
\* completed is one in which the player was shown or the first one seen
\* (Supervisor.tick, recover; the state has its types).
THEOREM SafeAttemptsCorrect == WritesSpec => []SafeAttempts
<1>1. WritesInit /\ part = "usb" => Usb!Init
  BY DEF WritesInit
<1>2. [WritesNext]_writesVars /\ part = "usb" => [Usb!Next]_UsbVars
  <2>1. WritesNext /\ part = "usb" => Usb!Next
    BY DEF WritesNext
  <2>2. UNCHANGED writesVars => UNCHANGED UsbVars
    BY DEF writesVars, UsbVars
  <2> QED BY <2>1, <2>2
<1>3. [WritesNext]_writesVars => ((part = "usb")' <=> part = "usb")
  BY DEF WritesNext, writesVars
<1>4. Usb!Init /\ [][Usb!Next]_UsbVars
        => [](Usb!TypeOK /\ Usb!AttemptsBounded /\ Usb!CompletedWasShown)
  BY UsbKept, UsbConstants
<1> QED BY <1>1, <1>2, <1>3, <1>4, PTL DEF WritesSpec, SafeAttempts
=============================================================================
