------------------------- MODULE BundleUpdateProofs -------------------------
(***************************************************************************)
(* Proofs about BundleUpdate: for any components and any number of         *)
(* failures and crashes, provided that the write of the committed state    *)
(* fails only before it replaced the file.                                 *)
(*                                                                         *)
(* The inductive invariant says for each step what is installed, what the  *)
(* files hold, and how /system is mounted.                                 *)
(***************************************************************************)
EXTENDS BundleUpdate, TLAPS

Pending == txn.state = "pending"

\* The steps between the pending state and the final one.
Open == {"stop", "guard", "install", "seal", "check", "start", "verify", "reseal",
         "commit", "record", "restore", "giveUp"}

\* The steps after both components were replaced.
Replaced == {"seal", "check", "start", "verify", "reseal", "commit", "record"}

Sealed == ~Pending => mount = "ro"

Tracked ==
    phase \in Open =>
        /\ Pending
        /\ txn.previous = work.previous /\ txn.candidate = work.candidate
        /\ txn.baseline = work.baseline

NotBegun ==
    /\ phase \in Early \cup {"ready", "settle"} => ~Pending
    /\ phase \in Early => installed = work.previous
    /\ phase = "saveGuard" => saved.apk = work.previous.apk
    /\ phase = "begin" => saved = work.previous

Modes ==
    /\ phase \in Early \cup {"ready", "reseal", "commit"} => work.mode = "apply"
    /\ phase \in {"check", "record", "restore", "giveUp"} => work.mode # "apply"
    /\ phase \in {"start", "verify"} => work.mode # "recover"

Installed ==
    /\ phase = "install" => installed.guard = Target.guard
    /\ phase \in Replaced => installed = Target
    /\ phase \in Replaced \ {"seal"} => mount = "ro"
    /\ phase \in {"reseal", "commit"} => running

Fencing ==
    /\ phase # "idle" => ~fenced
    /\ phase = "idle" /\ ~fenced => ~Pending

IInv ==
    /\ TypeOK /\ RollbackPairKept /\ WholePair /\ Sealed /\ Tracked /\ NotBegun
    /\ Modes /\ Installed /\ Fencing

-----------------------------------------------------------------------------
LEMMA Counted ==
    ASSUME TypeOK, Fault
    PROVE  faults' \in 0..MaxFaults
BY BundleAssumption DEF TypeOK, Fault

\* The update or recovery a step works on, and the same rolling back.
LEMMA Working ==
    ASSUME TypeOK, phase \in Steps
    PROVE  /\ work \in Works
           /\ [work EXCEPT !.mode = "rollback"] \in Works
           /\ [work EXCEPT !.mode = "rollback"].mode = "rollback"
           /\ [work EXCEPT !.mode = "rollback"].previous = work.previous
           /\ [work EXCEPT !.mode = "rollback"].candidate = work.candidate
           /\ [work EXCEPT !.mode = "rollback"].baseline = work.baseline
<1>1. work \in Works
  BY DEF TypeOK, Steps, Early
<1> QED
  BY <1>1 DEF Works

\* Where a step that succeeded leads.
LEMMA Advance ==
    ASSUME Succeed, phase \in Steps
    PROVE  /\ work' = work /\ fenced' = fenced /\ faults' = faults
           /\ phase = "saveApk" => phase' = "saveGuard"
           /\ phase = "saveGuard" => phase' = "begin"
           /\ phase = "begin" => phase' = "stop"
           /\ phase = "stop" => phase' = "guard"
           /\ phase = "guard" => phase' = "install"
           /\ phase = "install" => phase' = "seal"
           /\ phase = "seal" /\ work.mode = "apply" => phase' = "start"
           /\ phase = "seal" /\ work.mode # "apply" => phase' = "check"
           /\ phase = "check" /\ work.mode = "recover" => phase' = "record"
           /\ phase = "check" /\ work.mode # "recover" => phase' = "start"
           /\ phase = "start" => phase' = "verify"
           /\ phase = "verify" /\ work.mode = "apply" => phase' = "reseal"
           /\ phase = "verify" /\ work.mode # "apply" => phase' = "record"
           /\ phase = "reseal" => phase' = "commit"
           /\ phase \in {"commit", "record"} => phase' = "settle"
BY DEF Succeed, After, Ahead

\* Where an error leads before the transaction is pending.
LEMMA Refused ==
    ASSUME Err, phase \in Early
    PROVE  phase' = "failed" /\ work' = work /\ fenced' = fenced
BY DEF Err, OnError

\* Where an error leads once it is pending: an update rolls back, and a rollback
\* gives up.
LEMMA Undone ==
    ASSUME TypeOK, Err, phase \in Steps \ Early
    PROVE  /\ phase' \in {"restore", "giveUp", "failed"}
           /\ fenced' = fenced
           /\ work' \in Works
           /\ work'.previous = work.previous /\ work'.candidate = work.candidate
           /\ work'.baseline = work.baseline
           /\ phase' \in {"restore", "giveUp"} => work'.mode # "apply"
           /\ phase = "record" /\ work.mode # "apply" => phase' = "failed"
<1>1. CASE work.mode = "apply"
  <2>1. phase' = "restore" /\ work' = [work EXCEPT !.mode = "rollback"]
        /\ fenced' = fenced
    BY <1>1 DEF Err, OnError
  <2> QED
    BY <1>1, <2>1, Working
<1>2. CASE work.mode # "apply"
  <2>1. /\ phase' \in {"giveUp", "failed"} /\ work' = work /\ fenced' = fenced
        /\ phase = "record" => phase' = "failed"
    BY <1>2 DEF Err, OnError
  <2> QED
    BY <2>1, <1>2, Working
<1> QED
  BY <1>1, <1>2

\* However a step of a pending transaction ends, the agent goes on.
LEMMA GoesOn ==
    ASSUME TypeOK, phase \in Steps \ Early, Succeed \/ Err,
           faults' = faults \/ Fault
    PROVE  /\ phase' \in Phases \ {"down", "idle"}
           /\ work' \in Works /\ fenced' = fenced /\ faults' \in 0..MaxFaults
<1>1. CASE Succeed
  BY <1>1, Advance DEF TypeOK, Phases, Steps
<1>2. CASE Err
  <2>1. faults' \in 0..MaxFaults
    BY Counted DEF TypeOK
  <2> QED
    BY <1>2, <2>1, Undone DEF Phases
<1> QED
  BY <1>1, <1>2

\* A pair is two matching components.
LEMMA PairsMatch ==
    ASSUME NEW w \in Works
    PROVE  /\ w.previous \in Components /\ Matched(w.previous)
           /\ w.candidate \in Components /\ Matched(w.candidate)
           /\ w # NoWork
BY DEF Works, Pairs, NoWork

LEMMA PrepareStep ==
    ASSUME "committed" \notin Torn, IInv, NEW next \in Components, Prepare(next)
    PROVE  IInv'
<1>1. TypeOK'
  <2>1. work' \in Works
    BY DEF IInv, TypeOK, Prepare, Fit, Works, Pairs
  <2>2. phase' = "ready"
    BY DEF Prepare
  <2> QED
    BY <2>1, PairsMatch DEF IInv, TypeOK, Prepare, Phases
<1>2. RollbackPairKept'
  BY DEF Prepare, RollbackPairKept
<1>3. WholePair'
  BY DEF Prepare, WholePair
<1>4. Sealed'
  BY DEF IInv, Prepare, Sealed, Pending
<1>5. Tracked'
  BY DEF Prepare, Tracked, Open
<1>6. NotBegun'
  BY DEF Prepare, NotBegun, Pending
<1>7. Modes'
  BY DEF Prepare, Modes
<1>8. Installed'
  BY DEF Prepare, Installed, Replaced
<1>9. Fencing'
  BY DEF Prepare, Fencing
<1> QED
  BY <1>1, <1>2, <1>3, <1>4, <1>5, <1>6, <1>7, <1>8, <1>9 DEF IInv

LEMMA ExecuteStep ==
    ASSUME "committed" \notin Torn, IInv, Execute
    PROVE  IInv'
<1>1. TypeOK'
  BY DEF IInv, TypeOK, Execute, Phases, Steps, Early
<1>2. RollbackPairKept'
  BY DEF IInv, Execute, RollbackPairKept
<1>3. WholePair'
  BY DEF IInv, Execute, WholePair
<1>4. Sealed'
  BY DEF IInv, Execute, Sealed, Pending
<1>5. Tracked'
  BY DEF Execute, Tracked, Open
<1>6. NotBegun'
  BY DEF IInv, Execute, NotBegun, Pending, Early
<1>7. Modes'
  BY DEF IInv, Execute, Modes
<1>8. Installed'
  BY DEF Execute, Installed, Replaced
<1>9. Fencing'
  BY DEF IInv, Execute, Fencing
<1> QED
  BY <1>1, <1>2, <1>3, <1>4, <1>5, <1>6, <1>7, <1>8, <1>9 DEF IInv

LEMMA DropStep ==
    ASSUME "committed" \notin Torn, IInv, Drop
    PROVE  IInv'
<1>1. TypeOK'
  BY DEF IInv, TypeOK, Drop, Phases
<1>2. RollbackPairKept'
  BY DEF IInv, Drop, RollbackPairKept
<1>3. WholePair'
  BY DEF IInv, Drop, WholePair
<1>4. Sealed'
  BY DEF IInv, Drop, Sealed, Pending
<1>5. Tracked'
  BY DEF Drop, Tracked, Open
<1>6. NotBegun'
  BY DEF Drop, NotBegun, Early
<1>7. Modes'
  BY DEF Drop, Modes, Early
<1>8. Installed'
  BY DEF Drop, Installed, Replaced
<1>9. Fencing'
  BY DEF IInv, Drop, Fencing, Pending, NotBegun
<1> QED
  BY <1>1, <1>2, <1>3, <1>4, <1>5, <1>6, <1>7, <1>8, <1>9 DEF IInv

LEMMA SaveApkStep ==
    ASSUME "committed" \notin Torn, IInv, Save("saveApk", "apk")
    PROVE  IInv'
<1>1. TypeOK'
  BY Counted, Advance, Refused DEF IInv, TypeOK, Save, Fail, Early, Steps, Components,
     Pairs, Works, Phases
<1>2. RollbackPairKept'
  BY DEF IInv, Save, RollbackPairKept, Early, Pending, NotBegun
<1>3. WholePair'
  BY DEF IInv, Save, WholePair
<1>4. Sealed'
  BY DEF IInv, Save, Sealed, Pending
<1>5. Tracked'
  BY Advance, Refused DEF Save, Tracked, Open, Fail, Early, Steps
<1>6. NotBegun'
  BY Advance, Refused DEF IInv, TypeOK, Save, NotBegun, Pending, Early, Fail, Steps
<1>7. Modes'
  BY Advance, Refused DEF IInv, Save, Modes, Early, Fail, Steps
<1>8. Installed'
  BY Advance, Refused DEF Save, Installed, Replaced, Fail, Early, Steps
<1>9. Fencing'
  BY Advance, Refused DEF IInv, Save, Fencing, Fail, Early, Steps
<1> QED
  BY <1>1, <1>2, <1>3, <1>4, <1>5, <1>6, <1>7, <1>8, <1>9 DEF IInv

LEMMA SaveGuardStep ==
    ASSUME "committed" \notin Torn, IInv, Save("saveGuard", "guard")
    PROVE  IInv'
<1>1. TypeOK'
  BY Counted, Advance, Refused DEF IInv, TypeOK, Save, Fail, Early, Steps, Components,
     Pairs, Works, Phases
<1>2. RollbackPairKept'
  BY DEF IInv, Save, RollbackPairKept, Early, Pending, NotBegun
<1>3. WholePair'
  BY DEF IInv, Save, WholePair
<1>4. Sealed'
  BY DEF IInv, Save, Sealed, Pending
<1>5. Tracked'
  BY Advance, Refused DEF Save, Tracked, Open, Fail, Early, Steps
<1>6. NotBegun'
  <2>1. ~Pending' /\ installed' = installed
    BY DEF Save, IInv, NotBegun, Pending, Early
  <2>2. CASE Succeed
    <3>1. phase' = "begin" /\ work' = work
      BY <2>2, Advance DEF Save, Steps, Early
    <3>2. saved' = [saved EXCEPT !.guard = work.previous.guard]
      BY <2>2 DEF Save, Succeed, Fail, Err, OnError, After, Ahead
    <3>3. saved' = work.previous
      <4>1. saved.apk = work.previous.apk /\ work.previous \in Components
        BY Working, PairsMatch DEF Save, IInv, NotBegun, Steps, Early
      <4> QED
        BY <3>2, <4>1 DEF IInv, TypeOK, Components
    <3>4. installed = work.previous
      BY DEF Save, IInv, NotBegun, Early
    <3> QED
      BY <2>1, <3>1, <3>3, <3>4 DEF NotBegun
  <2>3. CASE Fail
    <3>1. phase' = "failed"
      BY <2>3, Refused DEF Save, Fail, Early
    <3> QED
      BY <3>1 DEF NotBegun, Early
  <2> QED
    BY <2>2, <2>3 DEF Save
<1>7. Modes'
  BY Advance, Refused DEF IInv, Save, Modes, Early, Fail, Steps
<1>8. Installed'
  BY Advance, Refused DEF Save, Installed, Replaced, Fail, Early, Steps
<1>9. Fencing'
  BY Advance, Refused DEF IInv, Save, Fencing, Fail, Early, Steps
<1> QED
  BY <1>1, <1>2, <1>3, <1>4, <1>5, <1>6, <1>7, <1>8, <1>9 DEF IInv

LEMMA WriteStateBeginStep ==
    ASSUME "committed" \notin Torn, IInv, WriteState("begin", "pending")
    PROVE  IInv'
<1>1. TypeOK'
  BY Counted, Advance, Refused DEF IInv, TypeOK, WriteState, Fail, Steps,
     Transactions, Works, Phases
<1>2. RollbackPairKept'
  <2>1. saved = work.previous /\ Matched(saved)
    BY Working, PairsMatch DEF WriteState, IInv, NotBegun, Steps, Early
  <2>2. ~Pending
    BY DEF WriteState, IInv, NotBegun, Early
  <2>3. /\ txn' = txn \/ txn'.previous = work.previous
        /\ saved' = saved
    BY DEF WriteState
  <2> QED
    BY <2>1, <2>2, <2>3 DEF RollbackPairKept, Pending
<1>3. WholePair'
  BY DEF IInv, WriteState, WholePair
<1>4. Sealed'
  BY DEF IInv, WriteState, Sealed, Pending
<1>5. Tracked'
  BY Advance, Refused DEF WriteState, Tracked, Pending, Open, Fail, Early, Steps
<1>6. NotBegun'
  BY Advance, Refused DEF WriteState, NotBegun, Early, Fail, Steps
<1>7. Modes'
  BY Advance, Refused DEF WriteState, Modes, Early, Fail, Steps
<1>8. Installed'
  BY Advance, Refused DEF WriteState, Installed, Replaced, Fail, Early, Steps
<1>9. Fencing'
  BY Advance, Refused DEF IInv, WriteState, Fencing, Fail, Early, Steps
<1> QED
  BY <1>1, <1>2, <1>3, <1>4, <1>5, <1>6, <1>7, <1>8, <1>9 DEF IInv

LEMMA StopStep ==
    ASSUME "committed" \notin Torn, IInv, Stop
    PROVE  IInv'
<1>1. TypeOK'
  <2>1. running' \in BOOLEAN
    BY DEF IInv, TypeOK, Stop
  <2>2. /\ phase' \in Phases \ {"down", "idle"}
        /\ work' \in Works /\ faults' \in 0..MaxFaults
        /\ fenced' = fenced
    BY GoesOn DEF IInv, Stop, Fail, Succeed, Steps, Early
  <2> QED
    BY <2>2, PairsMatch DEF IInv, TypeOK, Stop
<1>2. RollbackPairKept'
  BY DEF IInv, Stop, RollbackPairKept
<1>3. WholePair'
  BY DEF IInv, Stop, WholePair
<1>4. Sealed'
  BY DEF IInv, Stop, Sealed, Pending
<1>5. Tracked'
  BY Advance, Undone DEF IInv, Stop, Tracked, Pending, Open, Fail, Early, Steps
<1>6. NotBegun'
  BY Advance, Undone DEF IInv, Stop, NotBegun, Early, Fail, Steps
<1>7. Modes'
  BY Advance, Undone DEF IInv, Stop, Modes, Early, Fail, Steps
<1>8. Installed'
  BY Advance, Undone DEF IInv, Stop, Installed, Replaced, Fail, Early, Steps
<1>9. Fencing'
  <2>1. phase' \in Phases \ {"down", "idle"} /\ fenced' = fenced
    BY GoesOn DEF IInv, Stop, Fail, Succeed, Steps, Early
  <2>2. ~fenced
    BY DEF IInv, Fencing, Stop
  <2> QED
    BY <2>1, <2>2 DEF Fencing
<1> QED
  BY <1>1, <1>2, <1>3, <1>4, <1>5, <1>6, <1>7, <1>8, <1>9 DEF IInv

LEMMA ReplaceGuardStep ==
    ASSUME "committed" \notin Torn, IInv, ReplaceGuard
    PROVE  IInv'
<1>1. TypeOK'
  BY Counted, Advance, Undone DEF IInv, TypeOK, ReplaceGuard, Fail, Early, Steps,
     Target, Components, Pairs, Works, NoWork, Phases
<1>2. RollbackPairKept'
  BY DEF IInv, ReplaceGuard, RollbackPairKept
<1>3. WholePair'
  BY DEF IInv, ReplaceGuard, WholePair, Pending, Tracked, Open
<1>4. Sealed'
  BY DEF IInv, ReplaceGuard, Sealed, Pending, Tracked, Open
<1>5. Tracked'
  BY Advance, Undone DEF IInv, ReplaceGuard, Tracked, Pending, Open, Fail, Early,
     Steps
<1>6. NotBegun'
  BY Advance, Undone DEF IInv, ReplaceGuard, NotBegun, Early, Fail, Steps
<1>7. Modes'
  BY Advance, Undone DEF IInv, ReplaceGuard, Modes, Early, Fail, Steps
<1>8. Installed'
  <2>1. CASE Succeed
    <3>1. phase' = "install" /\ work' = work
      BY <2>1, Advance DEF ReplaceGuard, Steps
    <3>2. installed'.guard = Target.guard
      <4>1. Target \in Components
        BY Working, PairsMatch DEF ReplaceGuard, Target, IInv, Steps
      <4>2. installed' = [installed EXCEPT !.guard = Target.guard]
        BY <3>1 DEF ReplaceGuard, Fail, Err, OnError
      <4>3. installed \in Components /\ (phase = "install" => installed.guard = Target.guard)
        BY DEF IInv, TypeOK, Installed
      <4> QED
        BY <4>2
    <3> QED
      BY <3>1, <3>2 DEF Installed, Replaced, Target
  <2>2. CASE Fail
    <3>1. phase' \in {"restore", "giveUp", "failed"}
      BY <2>2, Undone DEF ReplaceGuard, Fail, Steps, Early, IInv
    <3> QED
      BY <3>1 DEF Installed, Replaced
  <2> QED
    BY <2>1, <2>2 DEF ReplaceGuard
<1>9. Fencing'
  BY Advance, Undone DEF IInv, ReplaceGuard, Fencing, Fail, Early, Steps
<1> QED
  BY <1>1, <1>2, <1>3, <1>4, <1>5, <1>6, <1>7, <1>8, <1>9 DEF IInv

LEMMA InstallAPKStep ==
    ASSUME "committed" \notin Torn, IInv, InstallAPK
    PROVE  IInv'
<1>1. TypeOK'
  BY Counted, Advance, Undone DEF IInv, TypeOK, InstallAPK, Fail, Early, Steps,
     Target, Components, Pairs, Works, NoWork, Phases
<1>2. RollbackPairKept'
  BY DEF IInv, InstallAPK, RollbackPairKept
<1>3. WholePair'
  BY DEF IInv, InstallAPK, WholePair, Pending, Tracked, Open
<1>4. Sealed'
  BY DEF IInv, InstallAPK, Sealed, Pending
<1>5. Tracked'
  BY Advance, Undone DEF IInv, InstallAPK, Tracked, Pending, Open, Fail, Early, Steps
<1>6. NotBegun'
  BY Advance, Undone DEF IInv, InstallAPK, NotBegun, Early, Fail, Steps
<1>7. Modes'
  BY Advance, Undone DEF IInv, InstallAPK, Modes, Early, Fail, Steps
<1>8. Installed'
  <2>1. CASE Succeed
    <3>1. phase' = "seal" /\ work' = work
      BY <2>1, Advance DEF InstallAPK, Steps
    <3>2. installed' = Target
      <4>1. Target \in Components
        BY Working, PairsMatch DEF InstallAPK, Target, IInv, Steps
      <4>2. installed' = [installed EXCEPT !.apk = Target.apk]
        BY <3>1 DEF InstallAPK, Fail, Err, OnError
      <4>3. installed \in Components /\ (phase = "install" => installed.guard = Target.guard)
        BY DEF IInv, TypeOK, Installed
      <4> QED
        BY <4>1, <4>2, <4>3 DEF InstallAPK, Components
    <3> QED
      BY <3>1, <3>2 DEF Installed, Target
  <2>2. CASE Fail
    <3>1. phase' \in {"restore", "giveUp", "failed"}
      BY <2>2, Undone DEF InstallAPK, Fail, Steps, Early, IInv
    <3> QED
      BY <3>1 DEF Installed, Replaced
  <2> QED
    BY <2>1, <2>2 DEF InstallAPK
<1>9. Fencing'
  BY Advance, Undone DEF IInv, InstallAPK, Fencing, Fail, Early, Steps
<1> QED
  BY <1>1, <1>2, <1>3, <1>4, <1>5, <1>6, <1>7, <1>8, <1>9 DEF IInv

LEMMA EnsureReadOnlyStep ==
    ASSUME "committed" \notin Torn, IInv, EnsureReadOnly
    PROVE  IInv'
<1>1. TypeOK'
  BY Counted, Advance, Undone DEF IInv, TypeOK, EnsureReadOnly, Fail, Early, Steps,
     Works, NoWork, Phases
<1>2. RollbackPairKept'
  BY DEF IInv, EnsureReadOnly, RollbackPairKept
<1>3. WholePair'
  BY DEF IInv, EnsureReadOnly, WholePair
<1>4. Sealed'
  BY DEF IInv, EnsureReadOnly, Sealed, Pending
<1>5. Tracked'
  BY Advance, Undone DEF IInv, EnsureReadOnly, Tracked, Pending, Open, Fail, Early,
     Steps
<1>6. NotBegun'
  BY Advance, Undone DEF IInv, EnsureReadOnly, NotBegun, Early, Fail, Steps
<1>7. Modes'
  BY Advance, Undone DEF IInv, EnsureReadOnly, Modes, Early, Fail, Steps
<1>8. Installed'
  BY Advance, Undone DEF IInv, EnsureReadOnly, Installed, Replaced, Target, Fail,
     Early, Steps
<1>9. Fencing'
  BY Advance, Undone DEF IInv, EnsureReadOnly, Fencing, Fail, Early, Steps
<1> QED
  BY <1>1, <1>2, <1>3, <1>4, <1>5, <1>6, <1>7, <1>8, <1>9 DEF IInv

LEMMA CheckStep ==
    ASSUME "committed" \notin Torn, IInv, Check
    PROVE  IInv'
<1>1. TypeOK'
  BY Counted, Advance, Undone DEF IInv, TypeOK, Check, Fail, Early, Steps, Works,
     NoWork, Phases
<1>2. RollbackPairKept'
  BY DEF IInv, Check, RollbackPairKept
<1>3. WholePair'
  BY DEF IInv, Check, WholePair
<1>4. Sealed'
  BY DEF IInv, Check, Sealed, Pending
<1>5. Tracked'
  BY Advance, Undone DEF IInv, Check, Tracked, Pending, Open, Fail, Early, Steps
<1>6. NotBegun'
  BY Advance, Undone DEF IInv, Check, NotBegun, Early, Fail, Steps
<1>7. Modes'
  BY Advance, Undone DEF IInv, Check, Modes, Early, Fail, Steps
<1>8. Installed'
  BY Advance, Undone DEF IInv, Check, Installed, Replaced, Target, Fail, Early, Steps
<1>9. Fencing'
  BY Advance, Undone DEF IInv, Check, Fencing, Fail, Early, Steps
<1> QED
  BY <1>1, <1>2, <1>3, <1>4, <1>5, <1>6, <1>7, <1>8, <1>9 DEF IInv

LEMMA StartStep ==
    ASSUME "committed" \notin Torn, IInv, Start
    PROVE  IInv'
<1>1. TypeOK'
  <2>1. running' \in BOOLEAN
    BY DEF IInv, TypeOK, Start
  <2>2. /\ phase' \in Phases \ {"down", "idle"}
        /\ work' \in Works /\ faults' \in 0..MaxFaults
        /\ fenced' = fenced
    BY GoesOn DEF IInv, Start, Fail, Succeed, Steps, Early
  <2> QED
    BY <2>2, PairsMatch DEF IInv, TypeOK, Start
<1>2. RollbackPairKept'
  BY DEF IInv, Start, RollbackPairKept
<1>3. WholePair'
  BY DEF IInv, Start, WholePair
<1>4. Sealed'
  BY DEF IInv, Start, Sealed, Pending
<1>5. Tracked'
  BY Advance, Undone DEF IInv, Start, Tracked, Pending, Open, Fail, Early, Steps
<1>6. NotBegun'
  BY Advance, Undone DEF IInv, Start, NotBegun, Early, Fail, Steps
<1>7. Modes'
  BY Advance, Undone DEF IInv, Start, Modes, Early, Fail, Steps
<1>8. Installed'
  BY Advance, Undone DEF IInv, Start, Installed, Replaced, Target, Fail, Early, Steps
<1>9. Fencing'
  <2>1. phase' \in Phases \ {"down", "idle"} /\ fenced' = fenced
    BY GoesOn DEF IInv, Start, Fail, Succeed, Steps, Early
  <2>2. ~fenced
    BY DEF IInv, Fencing, Start
  <2> QED
    BY <2>1, <2>2 DEF Fencing
<1> QED
  BY <1>1, <1>2, <1>3, <1>4, <1>5, <1>6, <1>7, <1>8, <1>9 DEF IInv

LEMMA VerifyStep ==
    ASSUME "committed" \notin Torn, IInv, Verify
    PROVE  IInv'
<1>1. TypeOK'
  BY Counted, Advance, Undone DEF IInv, TypeOK, Verify, Fail, Early, Steps, Works,
     NoWork, Phases
<1>2. RollbackPairKept'
  BY DEF IInv, Verify, RollbackPairKept
<1>3. WholePair'
  BY DEF IInv, Verify, WholePair
<1>4. Sealed'
  BY DEF IInv, Verify, Sealed, Pending
<1>5. Tracked'
  BY Advance, Undone DEF IInv, Verify, Tracked, Pending, Open, Fail, Early, Steps
<1>6. NotBegun'
  BY Advance, Undone DEF IInv, Verify, NotBegun, Early, Fail, Steps
<1>7. Modes'
  BY Advance, Undone DEF IInv, Verify, Modes, Early, Fail, Steps
<1>8. Installed'
  <2>1. CASE Succeed /\ Verified
    <3>1. phase' \in {"reseal", "record"} /\ work' = work
      BY <2>1, Advance DEF Verify, Steps
    <3>2. installed = Target /\ running /\ mount = "ro"
      BY <2>1 DEF Verify, Verified, IInv, Installed, Replaced
    <3> QED
      BY <3>1, <3>2 DEF Verify, Installed, Target
  <2>2. CASE Err
    <3>1. phase' \in {"restore", "giveUp", "failed"}
      BY <2>2, Undone DEF Verify, Steps, Early, IInv
    <3> QED
      BY <3>1 DEF Installed, Replaced
  <2> QED
    BY <2>1, <2>2 DEF Verify, Fail
<1>9. Fencing'
  BY Advance, Undone DEF IInv, Verify, Fencing, Fail, Early, Steps
<1> QED
  BY <1>1, <1>2, <1>3, <1>4, <1>5, <1>6, <1>7, <1>8, <1>9 DEF IInv

LEMMA WriteStateCommitStep ==
    ASSUME "committed" \notin Torn, IInv, WriteState("commit", "committed")
    PROVE  IInv'
<1>1. TypeOK'
  BY Counted, Advance, Undone DEF IInv, TypeOK, WriteState, Fail, Early, Transactions,
     Works, NoWork, Phases
<1>2. RollbackPairKept'
  BY DEF IInv, WriteState, RollbackPairKept
<1>3. WholePair'
  <2>1. Matched(installed)
    BY Working, PairsMatch DEF WriteState, IInv, Installed, Replaced, Target, Steps
  <2> QED
    BY <2>1 DEF WriteState, WholePair
<1>4. Sealed'
  BY DEF IInv, WriteState, Sealed, Installed, Replaced
<1>5. Tracked'
  BY Advance, Undone DEF IInv, WriteState, Tracked, Pending, Open, Fail, Early, Steps
<1>6. NotBegun'
  BY Advance, Undone DEF IInv, WriteState, NotBegun, Pending, Early, Fail, Steps
<1>7. Modes'
  BY Advance, Undone DEF IInv, WriteState, Modes, Early, Fail, Steps
<1>8. Installed'
  BY Advance, Undone DEF IInv, WriteState, Installed, Replaced, Fail, Early, Steps
<1>9. Fencing'
  BY Advance, Undone DEF IInv, WriteState, Fencing, Fail, Early, Steps
<1> QED
  BY <1>1, <1>2, <1>3, <1>4, <1>5, <1>6, <1>7, <1>8, <1>9 DEF IInv

LEMMA WriteStateRecordStep ==
    ASSUME "committed" \notin Torn, IInv, WriteState("record", "rolled_back")
    PROVE  IInv'
<1>1. TypeOK'
  BY Counted, Advance, Undone DEF IInv, TypeOK, WriteState, Fail, Early, Transactions,
     Works, NoWork, Phases
<1>2. RollbackPairKept'
  BY DEF IInv, WriteState, RollbackPairKept
<1>3. WholePair'
  <2>1. Matched(installed)
    BY Working, PairsMatch DEF WriteState, IInv, Installed, Replaced, Target, Steps
  <2> QED
    BY <2>1 DEF WriteState, WholePair
<1>4. Sealed'
  BY DEF IInv, WriteState, Sealed, Installed, Replaced
<1>5. Tracked'
  BY Advance, Undone DEF IInv, WriteState, Tracked, Open, Fail, Steps, Modes
<1>6. NotBegun'
  BY Advance, Undone DEF IInv, WriteState, NotBegun, Pending, Early, Fail, Steps
<1>7. Modes'
  BY Advance, Undone DEF IInv, WriteState, Modes, Early, Fail, Steps
<1>8. Installed'
  BY Advance, Undone DEF IInv, WriteState, Installed, Replaced, Fail, Early, Steps
<1>9. Fencing'
  BY Advance, Undone DEF IInv, WriteState, Fencing, Fail, Early, Steps
<1> QED
  BY <1>1, <1>2, <1>3, <1>4, <1>5, <1>6, <1>7, <1>8, <1>9 DEF IInv

LEMMA RestoreStep ==
    ASSUME "committed" \notin Torn, IInv, Restore
    PROVE  IInv'
<1>1. TypeOK'
  BY Counted DEF IInv, TypeOK, Restore, Phases, Steps
<1>2. RollbackPairKept'
  BY DEF IInv, Restore, RollbackPairKept
<1>3. WholePair'
  BY DEF IInv, Restore, WholePair
<1>4. Sealed'
  BY DEF IInv, Restore, Sealed, Pending
<1>5. Tracked'
  BY DEF IInv, Restore, Tracked, Pending, Open
<1>6. NotBegun'
  BY DEF Restore, NotBegun, Early
<1>7. Modes'
  BY DEF IInv, Restore, Modes, Early
<1>8. Installed'
  BY DEF Restore, Installed, Replaced
<1>9. Fencing'
  BY DEF IInv, Restore, Fencing
<1> QED
  BY <1>1, <1>2, <1>3, <1>4, <1>5, <1>6, <1>7, <1>8, <1>9 DEF IInv

LEMMA GiveUpStep ==
    ASSUME "committed" \notin Torn, IInv, GiveUp
    PROVE  IInv'
<1>1. TypeOK'
  BY Counted DEF IInv, TypeOK, GiveUp, Phases
<1>2. RollbackPairKept'
  BY DEF IInv, GiveUp, RollbackPairKept
<1>3. WholePair'
  BY DEF IInv, GiveUp, WholePair
<1>4. Sealed'
  BY DEF IInv, GiveUp, Sealed, Pending
<1>5. Tracked'
  BY DEF GiveUp, Tracked, Open
<1>6. NotBegun'
  BY DEF GiveUp, NotBegun, Early
<1>7. Modes'
  BY DEF GiveUp, Modes, Early
<1>8. Installed'
  BY DEF GiveUp, Installed, Replaced
<1>9. Fencing'
  BY DEF IInv, GiveUp, Fencing
<1> QED
  BY <1>1, <1>2, <1>3, <1>4, <1>5, <1>6, <1>7, <1>8, <1>9 DEF IInv

LEMMA SettleStep ==
    ASSUME "committed" \notin Torn, IInv, Settle
    PROVE  IInv'
<1>1. TypeOK'
  <2>1. phase' = "idle" /\ work' = NoWork
    BY DEF Settle
  <2>2. fenced' \in BOOLEAN
    BY DEF Settle
  <2>3. faults' \in 0..MaxFaults
    BY Counted DEF IInv, TypeOK, Settle
  <2> QED
    BY <2>1, <2>2, <2>3 DEF IInv, TypeOK, Settle, Phases
<1>2. RollbackPairKept'
  BY DEF IInv, Settle, RollbackPairKept
<1>3. WholePair'
  BY DEF IInv, Settle, WholePair
<1>4. Sealed'
  BY DEF IInv, Settle, Sealed, Pending
<1>5. Tracked'
  BY DEF Settle, Tracked, Open
<1>6. NotBegun'
  BY DEF Settle, NotBegun, Early
<1>7. Modes'
  BY DEF Settle, Modes, Early
<1>8. Installed'
  BY DEF Settle, Installed, Replaced
<1>9. Fencing'
  BY DEF IInv, Settle, Fencing, Pending, NotBegun
<1> QED
  BY <1>1, <1>2, <1>3, <1>4, <1>5, <1>6, <1>7, <1>8, <1>9 DEF IInv

LEMMA StartupStep ==
    ASSUME "committed" \notin Torn, IInv, Startup
    PROVE  IInv'
<1>1. TypeOK'
  <2>1. CASE txn.state = "pending" /\ phase' = "restore" /\ UNCHANGED <<mount, fenced, faults>>
             /\ work' = [mode |-> "recover", previous |-> txn.previous,
                         candidate |-> txn.candidate, baseline |-> txn.baseline]
    <3>1. txn \in Transactions
      BY <2>1 DEF IInv, TypeOK, NoTransaction
    <3>2. work' \in Works
      BY <2>1, <3>1 DEF Transactions, Works
    <3> QED
      BY <3>2, PairsMatch DEF IInv, TypeOK, Startup, Phases
  <2>2. CASE phase' = "idle" /\ UNCHANGED work /\ mount' \in {mount, "ro"}
             /\ fenced' \in BOOLEAN /\ faults' \in 0..MaxFaults
    BY <2>2 DEF IInv, TypeOK, Startup, Phases
  <2> QED
    BY <2>1, <2>2, Counted DEF Startup, IInv, TypeOK
<1>2. RollbackPairKept'
  BY DEF IInv, Startup, RollbackPairKept
<1>3. WholePair'
  BY DEF IInv, Startup, WholePair
<1>4. Sealed'
  BY DEF IInv, Startup, Sealed, Pending
<1>5. Tracked'
  BY DEF Startup, Tracked, Pending, Open
<1>6. NotBegun'
  BY DEF Startup, NotBegun, Early
<1>7. Modes'
  BY DEF Startup, Modes, Early
<1>8. Installed'
  BY DEF Startup, Installed, Replaced
<1>9. Fencing'
  BY DEF IInv, Startup, Fencing, Pending
<1> QED
  BY <1>1, <1>2, <1>3, <1>4, <1>5, <1>6, <1>7, <1>8, <1>9 DEF IInv

LEMMA InstallAloneStep ==
    ASSUME "committed" \notin Torn, IInv, NEW apk \in Apks, InstallAlone(apk)
    PROVE  IInv'
<1>1. TypeOK'
  BY DEF IInv, TypeOK, InstallAlone, Components
<1>2. RollbackPairKept'
  BY DEF IInv, InstallAlone, RollbackPairKept
<1>3. WholePair'
  BY DEF InstallAlone, WholePair, Matched
<1>4. Sealed'
  BY DEF IInv, InstallAlone, Sealed, Pending
<1>5. Tracked'
  BY DEF InstallAlone, Tracked, Open
<1>6. NotBegun'
  BY DEF InstallAlone, NotBegun, Early
<1>7. Modes'
  BY DEF InstallAlone, Modes, Early
<1>8. Installed'
  BY DEF InstallAlone, Installed, Replaced
<1>9. Fencing'
  BY DEF IInv, InstallAlone, Fencing, Pending
<1> QED
  BY <1>1, <1>2, <1>3, <1>4, <1>5, <1>6, <1>7, <1>8, <1>9 DEF IInv

LEMMA ByHandStep ==
    ASSUME "committed" \notin Torn, IInv, NEW p \in Pairs, ByHand(p)
    PROVE  IInv'
<1>1. TypeOK'
  BY DEF IInv, TypeOK, ByHand, Pairs
<1>2. RollbackPairKept'
  BY DEF IInv, ByHand, RollbackPairKept
<1>3. WholePair'
  BY DEF ByHand, WholePair, Pairs
<1>4. Sealed'
  BY DEF ByHand, Sealed
<1>5. Tracked'
  BY DEF ByHand, Tracked, Open
<1>6. NotBegun'
  BY DEF IInv, ByHand, NotBegun, Pending, Early
<1>7. Modes'
  BY DEF IInv, ByHand, Modes
<1>8. Installed'
  BY DEF ByHand, Installed, Replaced
<1>9. Fencing'
  BY DEF IInv, ByHand, Fencing, Pending
<1> QED
  BY <1>1, <1>2, <1>3, <1>4, <1>5, <1>6, <1>7, <1>8, <1>9 DEF IInv

LEMMA RestartAppStep ==
    ASSUME "committed" \notin Torn, IInv, RestartApp
    PROVE  IInv'
<1>1. TypeOK'
  BY DEF IInv, TypeOK, RestartApp
<1>2. RollbackPairKept'
  BY DEF IInv, RestartApp, RollbackPairKept
<1>3. WholePair'
  BY DEF IInv, RestartApp, WholePair
<1>4. Sealed'
  BY DEF IInv, RestartApp, Sealed, Pending
<1>5. Tracked'
  BY DEF RestartApp, Tracked, Open
<1>6. NotBegun'
  BY DEF IInv, RestartApp, NotBegun, Pending
<1>7. Modes'
  BY DEF IInv, RestartApp, Modes
<1>8. Installed'
  BY DEF RestartApp, Installed, Replaced
<1>9. Fencing'
  BY DEF IInv, RestartApp, Fencing, Pending
<1> QED
  BY <1>1, <1>2, <1>3, <1>4, <1>5, <1>6, <1>7, <1>8, <1>9 DEF IInv

LEMMA PlayerChangesStep ==
    ASSUME "committed" \notin Torn, IInv, PlayerChanges
    PROVE  IInv'
<1>1. TypeOK'
  BY DEF IInv, TypeOK, PlayerChanges
<1>2. RollbackPairKept'
  BY DEF IInv, PlayerChanges, RollbackPairKept
<1>3. WholePair'
  BY DEF IInv, PlayerChanges, WholePair
<1>4. Sealed'
  BY DEF IInv, PlayerChanges, Sealed, Pending
<1>5. Tracked'
  BY DEF IInv, PlayerChanges, Tracked, Pending
<1>6. NotBegun'
  BY DEF IInv, PlayerChanges, NotBegun, Pending
<1>7. Modes'
  BY DEF IInv, PlayerChanges, Modes
<1>8. Installed'
  BY DEF IInv, PlayerChanges, Installed, Target
<1>9. Fencing'
  BY DEF IInv, PlayerChanges, Fencing, Pending
<1> QED
  BY <1>1, <1>2, <1>3, <1>4, <1>5, <1>6, <1>7, <1>8, <1>9 DEF IInv

LEMMA CrashStep ==
    ASSUME "committed" \notin Torn, IInv, Crash
    PROVE  IInv'
<1>1. TypeOK'
  BY Counted DEF IInv, TypeOK, Crash, Exit, Phases
<1>2. RollbackPairKept'
  BY DEF IInv, Crash, RollbackPairKept, Exit
<1>3. WholePair'
  BY DEF IInv, Crash, WholePair, Exit
<1>4. Sealed'
  BY DEF IInv, Crash, Sealed, Pending, Exit
<1>5. Tracked'
  BY DEF Crash, Tracked, Open, Exit
<1>6. NotBegun'
  BY DEF Crash, NotBegun, Early, Exit
<1>7. Modes'
  BY DEF Crash, Modes, Early, Exit
<1>8. Installed'
  BY DEF Crash, Installed, Replaced, Exit
<1>9. Fencing'
  BY DEF Crash, Fencing, Exit
<1> QED
  BY <1>1, <1>2, <1>3, <1>4, <1>5, <1>6, <1>7, <1>8, <1>9 DEF IInv

LEMMA PowerLossStep ==
    ASSUME "committed" \notin Torn, IInv, PowerLoss
    PROVE  IInv'
<1>1. TypeOK'
  BY Counted DEF IInv, TypeOK, PowerLoss, Exit, Phases
<1>2. RollbackPairKept'
  BY DEF IInv, PowerLoss, RollbackPairKept, Exit
<1>3. WholePair'
  BY DEF IInv, PowerLoss, WholePair, Exit
<1>4. Sealed'
  BY DEF PowerLoss, Sealed
<1>5. Tracked'
  BY DEF PowerLoss, Tracked, Open, Exit
<1>6. NotBegun'
  BY DEF PowerLoss, NotBegun, Early, Exit
<1>7. Modes'
  BY DEF PowerLoss, Modes, Early, Exit
<1>8. Installed'
  BY DEF PowerLoss, Installed, Replaced, Exit
<1>9. Fencing'
  BY DEF PowerLoss, Fencing, Exit
<1> QED
  BY <1>1, <1>2, <1>3, <1>4, <1>5, <1>6, <1>7, <1>8, <1>9 DEF IInv

LEMMA RepairStep ==
    ASSUME "committed" \notin Torn, IInv, Repair
    PROVE  IInv'
<1>1. TypeOK'
  BY DEF IInv, TypeOK, Repair, Exit, Phases
<1>2. RollbackPairKept'
  BY DEF IInv, Repair, RollbackPairKept, Exit
<1>3. WholePair'
  BY DEF IInv, Repair, WholePair, Exit
<1>4. Sealed'
  BY DEF IInv, Repair, Sealed, Pending, Exit
<1>5. Tracked'
  BY DEF Repair, Tracked, Open, Exit
<1>6. NotBegun'
  BY DEF Repair, NotBegun, Early, Exit
<1>7. Modes'
  BY DEF Repair, Modes, Early, Exit
<1>8. Installed'
  BY DEF Repair, Installed, Replaced, Exit
<1>9. Fencing'
  BY DEF Repair, Fencing, Exit
<1> QED
  BY <1>1, <1>2, <1>3, <1>4, <1>5, <1>6, <1>7, <1>8, <1>9 DEF IInv

-----------------------------------------------------------------------------
(* The invariant is inductive                                              *)

LEMMA InitialIInv ==
    ASSUME Init
    PROVE  IInv
<1>1. TypeOK
  <2>1. faults \in 0..MaxFaults
    BY BundleAssumption DEF Init
  <2>2. running \in BOOLEAN /\ fenced \in BOOLEAN
    BY DEF Init
  <2>3. installed \in Components /\ mount \in {"ro", "rw"} /\ txn = NoTransaction
    BY DEF Init, Pairs
  <2>4. saved \in [apk : Apks \cup {None}, guard : Guards \cup {None}]
    BY DEF Init
  <2>5. player \in Baselines \cup {None} /\ phase = "down" /\ work = NoWork
    BY DEF Init
  <2> QED
    BY <2>1, <2>2, <2>3, <2>4, <2>5 DEF TypeOK, Phases
<1>2. RollbackPairKept /\ WholePair /\ Sealed /\ Tracked
  BY DEF Init, RollbackPairKept, WholePair, Sealed, Tracked, NoTransaction, Pairs,
     Open
<1>3. NotBegun /\ Modes /\ Installed /\ Fencing
  BY DEF Init, NotBegun, Modes, Installed, Fencing, Replaced, Early
<1> QED
  BY <1>1, <1>2, <1>3 DEF IInv

LEMMA StutterIInv ==
    ASSUME IInv, UNCHANGED vars
    PROVE  IInv'
<1>1. TypeOK' /\ RollbackPairKept' /\ WholePair' /\ Sealed'
  BY DEF IInv, TypeOK, RollbackPairKept, WholePair, Sealed, Pending, vars
<1>2. Tracked' /\ NotBegun' /\ Modes' /\ Installed' /\ Fencing'
  BY DEF IInv, Tracked, NotBegun, Modes, Installed, Fencing, Pending, Target, vars
<1> QED
  BY <1>1, <1>2 DEF IInv

LEMMA UpdateKeepsIInv ==
    ASSUME "committed" \notin Torn, IInv, Update
    PROVE  IInv'
BY SaveApkStep, SaveGuardStep, WriteStateBeginStep, StopStep, ReplaceGuardStep,
   InstallAPKStep, EnsureReadOnlyStep, CheckStep, StartStep, VerifyStep,
   WriteStateCommitStep, WriteStateRecordStep, RestoreStep, GiveUpStep, SettleStep,
   StartupStep DEF Update

LEMMA EnvironmentKeepsIInv ==
    ASSUME "committed" \notin Torn, IInv, Environment
    PROVE  IInv'
BY InstallAloneStep, ByHandStep, RestartAppStep, PlayerChangesStep, CrashStep,
   PowerLossStep DEF Environment

LEMMA NextKeepsIInv ==
    ASSUME "committed" \notin Torn, IInv, [Next]_vars
    PROVE  IInv'
BY UpdateKeepsIInv, EnvironmentKeepsIInv, PrepareStep, ExecuteStep, DropStep,
   RepairStep, StutterIInv DEF Next

LEMMA Invariance ==
    ASSUME "committed" \notin Torn
    PROVE  Spec => []IInv
<1>1. Init => IInv
  BY InitialIInv
<1>2. IInv /\ [Next]_vars => IInv'
  BY NextKeepsIInv
<1> QED
  BY <1>1, <1>2, PTL DEF Spec

-----------------------------------------------------------------------------
(* Which steps launch the player, begin an update and commit it            *)

LEMMA Launching ==
    ASSUME IInv, [Next]_vars, ~running, running', phase' # "down"
    PROVE  Matched(installed') /\ mount = "ro" /\ work.mode # "recover"
<1>1. CASE Start
  <2>1. phase \in Replaced \ {"seal"} /\ phase \in Steps /\ installed' = installed
    BY <1>1 DEF Start, Replaced, Steps
  <2>2. installed = Target /\ mount = "ro" /\ work.mode # "recover"
    BY <1>1, <2>1 DEF IInv, Installed, Modes, Start
  <2>3. Matched(installed)
    BY <2>1, <2>2, Working, PairsMatch DEF IInv, Target
  <2> QED
    BY <2>1, <2>2, <2>3
<1>2. ASSUME NEW a \in Apks, InstallAlone(a)
      PROVE  Matched(installed') /\ mount = "ro" /\ work.mode # "recover"
  BY <1>2 DEF InstallAlone
<1>3. CASE RestartApp
  <2>1. ~Pending /\ installed' = installed
    BY <1>3 DEF RestartApp, IInv, Fencing, NotBegun
  <2>2. work.mode # "recover"
    BY <1>3 DEF RestartApp, IInv, TypeOK, Modes, NoWork
  <2> QED
    BY <2>1, <2>2 DEF IInv, WholePair, Sealed, Pending
<1>4. CASE Update /\ ~Start
  BY <1>4 DEF Update, Save, WriteState, Stop, ReplaceGuard, InstallAPK,
     EnsureReadOnly, Check, Verify, Restore, GiveUp, Settle, Startup
<1>5. CASE Crash \/ PowerLoss \/ Repair
  BY <1>5 DEF Crash, PowerLoss, Repair, Exit
<1>6. CASE \/ \E next \in Components : Prepare(next)
           \/ Execute \/ Drop \/ PlayerChanges \/ UNCHANGED vars
           \/ \E p \in Pairs : ByHand(p)
  BY <1>6 DEF Prepare, Execute, Drop, PlayerChanges, ByHand, vars
<1> QED
  BY <1>1, <1>2, <1>3, <1>4, <1>5, <1>6 DEF Next, Environment

\* Only writes of the transaction change it.
LEMMA Writing ==
    ASSUME [Next]_vars
    PROVE  \/ txn' = txn
           \/ WriteState("begin", "pending")
           \/ WriteState("commit", "committed")
           \/ WriteState("record", "rolled_back")
BY DEF Next, Update, Environment, Prepare, Execute, Drop, Save, Stop, ReplaceGuard,
   InstallAPK, EnsureReadOnly, Check, Start, Verify, Restore, GiveUp, Settle, Startup,
   InstallAlone, ByHand, RestartApp, PlayerChanges, Crash, PowerLoss, Repair, Exit, vars

LEMMA Committing ==
    ASSUME IInv, [Next]_vars, txn'.state = "committed", txn.state # "committed"
    PROVE  /\ installed = txn.candidate /\ mount = "ro" /\ running
           /\ saved = txn.previous
<1>1. WriteState("commit", "committed")
  BY Writing DEF WriteState
<1>2. phase = "commit"
  BY <1>1 DEF WriteState
<1>3. Pending /\ txn.candidate = work.candidate /\ work.mode = "apply"
  BY <1>2 DEF IInv, Tracked, Open, Modes
<1>4. installed = Target /\ mount = "ro" /\ running
  BY <1>2 DEF IInv, Installed, Replaced
<1> QED
  BY <1>3, <1>4 DEF IInv, RollbackPairKept, Pending, Target

LEMMA Beginning ==
    ASSUME IInv, [Next]_vars, txn.state # "pending", txn'.state = "pending"
    PROVE  txn'.previous = installed
<1>1. WriteState("begin", "pending")
  BY Writing DEF WriteState
<1>2. installed = work.previous
  BY <1>1 DEF WriteState, IInv, NotBegun, Early
<1>3. txn'.previous = work.previous
  BY <1>1 DEF WriteState
<1> QED
  BY <1>2, <1>3

-----------------------------------------------------------------------------
(* The theorems                                                            *)

\* Every variable keeps its type, and the agent works on an update exactly while it
\* is neither down nor idle.
THEOREM TypeCorrect ==
    ASSUME "committed" \notin Torn
    PROVE  Spec => []TypeOK
<1>1. IInv => TypeOK
  BY DEF IInv
<1> QED
  BY <1>1, Invariance, PTL

\* While a transaction is pending the complete pair to restore is on file, wherever
\* the agent or the tablet stops.
THEOREM RollbackPairKeptCorrect ==
    ASSUME "committed" \notin Torn
    PROVE  Spec => []RollbackPairKept
<1>1. IInv => RollbackPairKept
  BY DEF IInv
<1> QED
  BY <1>1, Invariance, PTL

\* The player and the touch helper match except while startup would restore them.
THEOREM WholePairCorrect ==
    ASSUME "committed" \notin Torn
    PROVE  Spec => []WholePair
<1>1. IInv => WholePair
  BY DEF IInv
<1> QED
  BY <1>1, Invariance, PTL

\* An agent that accepts work has nothing to recover, and /system is read-only.
THEOREM NothingToRecoverCorrect ==
    ASSUME "committed" \notin Torn
    PROVE  Spec => []NothingToRecover
<1>1. IInv => NothingToRecover
  BY DEF IInv, NothingToRecover, Fencing, NotBegun, Sealed, Pending
<1> QED
  BY <1>1, Invariance, PTL

\* The agent launches the player only as a matching pair on a read-only system, and
\* never from startup recovery.
THEOREM LaunchesMatchedCorrect ==
    ASSUME "committed" \notin Torn
    PROVE  Spec => LaunchesMatched
<1>1. IInv /\ [Next]_vars
        => [~running /\ running' /\ phase' # "down" =>
              Matched(installed') /\ mount = "ro" /\ work.mode # "recover"]_vars
  BY Launching
<1> QED
  BY <1>1, Invariance, PTL DEF Spec, LaunchesMatched

\* What is committed is the candidate, installed, sealed and running, while the pair
\* it replaced is still on file.
THEOREM CommitsTheCandidateCorrect ==
    ASSUME "committed" \notin Torn
    PROVE  Spec => CommitsTheCandidate
<1>1. IInv /\ [Next]_vars
        => [txn'.state = "committed" /\ txn.state # "committed" =>
              /\ installed = txn.candidate /\ mount = "ro" /\ running
              /\ saved = txn.previous]_vars
  BY Committing
<1> QED
  BY <1>1, Invariance, PTL DEF Spec, CommitsTheCandidate

\* However late it executes, an update begins over the pair that a rollback will
\* restore.
THEOREM StartsAsAdmittedCorrect ==
    ASSUME "committed" \notin Torn
    PROVE  Spec => StartsAsAdmitted
<1>1. IInv /\ [Next]_vars
        => [txn.state # "pending" /\ txn'.state = "pending" =>
              txn'.previous = installed]_vars
  BY Beginning
<1> QED
  BY <1>1, Invariance, PTL DEF Spec, StartsAsAdmitted

\* Wherever the agent or the tablet stops, an update can be undone and leaves a
\* pair that matches.
THEOREM PairKeptCorrect ==
    ASSUME "committed" \notin Torn
    PROVE  Spec => []PairKept
<1>1. RollbackPairKept /\ WholePair /\ NothingToRecover => PairKept
  BY DEF PairKept
<1> QED
  BY <1>1, RollbackPairKeptCorrect, WholePairCorrect, NothingToRecoverCorrect, PTL

\* Each step of an update is taken over the pair that was admitted, sealed or
\* verified before it.
THEOREM StepsMatchedCorrect ==
    ASSUME "committed" \notin Torn
    PROVE  Spec => StepsMatched
BY LaunchesMatchedCorrect, CommitsTheCandidateCorrect, StartsAsAdmittedCorrect
   DEF StepsMatched
=============================================================================
