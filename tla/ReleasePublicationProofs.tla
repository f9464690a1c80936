---------------------- MODULE ReleasePublicationProofs ----------------------
(***************************************************************************)
(* Theorems about ReleasePublication, for every number of runs, sources    *)
(* and incidents: reservations are numbered and named apart and never      *)
(* lost, a number stands for one build, and, while the workflow runs one   *)
(* at a time, what becomes public is what was accepted, in ascending order.*)
(* And about VersionPreparation: for any number of preparations, versions  *)
(* and commits, none builds on what others left unmerged.  And about       *)
(* ImagePublication: for any number of runs, destinations and versions, the*)
(* images of a version are its approved bytes.                             *)
(*                                                                         *)
(* The invariant IInv follows a number through its life: reserved in the   *)
(* ledger, held as a run's plan, spent, drafted, filled and made public.   *)
(***************************************************************************)
EXTENDS MCReleaseControl, SequenceTheorems, WellFoundedInduction, TLAPS

-----------------------------------------------------------------------------
(* The invariant                                                           *)

Tagged == [base : Nat, channel : Channels, sequence : Nat, run : Run \cup {NoRun}]
Planned == [number : Nat \ {0}, tag : Tagged, source : Nat, parent : Run \cup {NoRun}]
Ledgers == [rev : Nat, counter : Nat, floor : Nat, plans : [Run -> Planned \cup {NoPlan}]]
Bytes == (Run \cup {NoRun}) \X Nat
Drafts == [tag : Tagged, number : Nat, state : {"draft", "full", "public", "deleted"}, by : Run,
           bytes : Bytes, built : Bytes]

Workspaces ==
    /\ pc \in [Run -> Stages \cup {"idle", "failed", "succeeded"}] /\ copy \in [Run -> Ledgers]
    /\ seen \in [Run -> Nat] /\ staged \in [Run -> Bytes] /\ release \in [Run -> Nat]

Typed ==
    /\ head \in Sources /\ ledger \in Ledgers /\ tags \subseteq Tagged /\ releases \in Seq(Drafts)
    /\ evidence \in [Run -> Nat] /\ incidents \in Nat
    /\ trigger \in [Run -> Occasions \cup {<<"none", "none">>}]
    /\ source \in [Run -> Sources] /\ attempt \in [Run -> Nat] /\ fresh \in [Run -> BOOLEAN]
    /\ input \in [Run -> Run \cup {NoRun}] /\ plan \in [Run -> Planned \cup {NoPlan}]
    /\ Workspaces

\* What a run holds of the ledger is an earlier state of it.
ReadBefore ==
    /\ ledger.rev = 0 => ledger = Blank
    /\ \A r \in Run :
        /\ copy[r].rev <= ledger.rev
        /\ copy[r].rev = ledger.rev => copy[r] = ledger
        /\ \A q \in Run : copy[r].plans[q] # NoPlan => copy[r].plans[q] = ledger.plans[q]

\* A reservation is the run's own, for what the run was started for.
Reservations ==
    /\ DistinctPlans
    /\ \A q \in Plans :
        /\ pc[q] # "idle" /\ ~Promoting(q)
        /\ ledger.plans[q].tag.channel = Channel(q)
        /\ ledger.plans[q].tag.channel = "nightly" => ledger.plans[q].tag.run = q

\* What is numbered and named under a line lies under a common bound.
BoundedBy(b) ==
    /\ \A t \in tags : t.sequence <= b
    /\ \A i \in DOMAIN releases : releases[i].tag.sequence <= b
    /\ \A q \in Plans : ledger.plans[q].tag.sequence <= b

Bounded == \E b \in Nat : BoundedBy(b)

\* The stages after the number was spent.
Committed == {"tag", "create", "readback", "upload", "confirm", "public", "evidence"}

\* The plan a run publishes: its reservation, or the promoted candidate's.
OwnPlan(r) ==
    IF Promoting(r) THEN [ledger.plans[input[r]] EXCEPT !.tag = Final(@.base)] ELSE ledger.plans[r]

\* What a run has by the stage it has reached.
Placed(r) ==
    /\ pc[r] = "idle" => plan[r] = NoPlan
    /\ pc[r] # "idle" => trigger[r] \in Occasions
    /\ pc[r] # "idle" /\ Channel(r) = "stable" =>
         input[r] \in Run /\ ledger.plans[input[r]] # NoPlan
    /\ plan[r] # NoPlan => plan[r] = OwnPlan(r)
    /\ pc[r] \in {"publish", "begin", "spend"} \cup Committed => plan[r] # NoPlan
    /\ pc[r] \in {"promote", "stage"} => Promoting(r)
    /\ pc[r] \in {"reserve", "publish", "readback", "evidence"} => ~Promoting(r)
    /\ pc[r] \in {"upload", "confirm", "public"} => release[r] \in DOMAIN releases

\* A number is spent above those spent before, and drafted once.
Spending(r) ==
    /\ pc[r] = "spend" => copy[r].floor <= plan[r].number
                          /\ (~Promoting(r) => copy[r].floor < plan[r].number)
    /\ pc[r] \in Committed => plan[r].number <= ledger.floor
    /\ pc[r] \in {"tag", "create"} /\ ~Promoting(r) => \A i \in DOMAIN releases : releases[i].by # r

\* A draft is numbered and named by the plan of the run that created it.
Drafted ==
    \A i \in DOMAIN releases :
        LET r == releases[i].by IN
        /\ pc[r] # "idle" /\ OwnPlan(r) # NoPlan
        /\ releases[i].number = OwnPlan(r).number /\ releases[i].tag = OwnPlan(r).tag
        /\ releases[i].number <= ledger.floor
        /\ ~Promoting(r) => \A j \in DOMAIN releases : releases[j].by = r => j = i

\* The bytes of releases and of staging directories, where bytes are promoted.
BuiltBy(q, b) == \E k \in DOMAIN releases : releases[k].by = q /\ releases[k].built = b
Filled(i) ==
    /\ releases[i].bytes \in {<<NoRun, 0>>, releases[i].built}
    /\ Promoting(releases[i].by) => BuiltBy(input[releases[i].by], releases[i].built)

Holding(r) ==
    /\ Promoting(r) /\ pc[r] \in {"begin", "spend", "tag", "create"} => BuiltBy(input[r], staged[r])
    /\ pc[r] = "readback" =>
         \A i \in DOMAIN releases : releases[i].by = r => releases[i].built = staged[r]
    /\ pc[r] = "upload" => releases[release[r]].built = staged[r]

Copied == (\A i \in DOMAIN releases : Filled(i)) /\ \A r \in Run : Holding(r)

\* With the concurrency group, the run at work is alone, and so is its tag.
OneAtATime == Serial =>
    /\ \A r, s \in Run : Active(r) /\ Active(s) => r = s
    /\ \A r \in Run : pc[r] = "create" => WithTag(plan[r].tag) = {}
    /\ \A i, j \in Alive : releases[i].tag = releases[j].tag => i = j

\* What a run at work in the concurrency group relies on.
Working == {"begin", "spend"} \cup (Committed \ {"evidence"})

AtWork(r) ==
    /\ pc[r] \in Committed => ledger.floor = plan[r].number
    /\ pc[r] = "readback" => \A i \in WithTag(plan[r].tag) : releases[i].by = r
    /\ pc[r] \in {"upload", "confirm", "public"} => releases[release[r]].by = r
    /\ pc[r] \in {"confirm", "public"} => /\ releases[release[r]].state \in {"full", "deleted"}
                                          /\ releases[release[r]].bytes = staged[r]
    /\ pc[r] \in Working =>
         IF Promoting(r) THEN staged[r] = <<input[r], evidence[input[r]]>>
                         ELSE staged[r] = <<r, attempt[r]>> /\ GateReady(r)
    /\ pc[r] \in Working /\ plan[r].tag.channel \in {"beta", "rc"} =>
         \A j \in Public : releases[j].tag # Final(plan[r].tag.base)

\* A plan is for the base version of its run's source.
Based == \A q \in Plans : ledger.plans[q].tag.base = Base(q)

IInv == /\ Typed /\ ReadBefore /\ Reservations /\ Based /\ Bounded
        /\ \A r \in Run : Placed(r) /\ Spending(r)
        /\ Drafted /\ (Promotion = "promote-bytes" => Copied) /\ OneAtATime
        /\ Serial => \A r \in Run : AtWork(r)

-----------------------------------------------------------------------------
\* The largest of a bounded set of numbers.
LEMMA LargestBounds ==
    ASSUME NEW S \in SUBSET Nat, NEW b \in Nat, \A m \in S : m <= b
    PROVE  Largest(S) \in Nat /\ Largest(S) \in S \cup {0} /\ \A m \in S : m <= Largest(S)
<1> DEFINE Bounds(k) == \A m \in S : m <= k
<1> DEFINE T == {k \in Nat : Bounds(k)}
<1>1. \E n \in T : \A k \in T : ~(<<k, n>> \in OpToRel(<, Nat))
  <2>1. b \in T /\ T \subseteq Nat
    OBVIOUS
  <2> HIDE DEF T
  <2> QED BY <2>1, NatLessThanWellFounded, WFMin
<1>2. PICK n \in Nat : Bounds(n) /\ \A k \in Nat : Bounds(k) => ~(k < n)
  <2>1. PICK n \in T : \A k \in T : ~(<<k, n>> \in OpToRel(<, Nat))
    BY <1>1
  <2>2. n \in Nat /\ Bounds(n)
    OBVIOUS
  <2>3. ASSUME NEW k \in Nat, Bounds(k) PROVE ~(k < n)
    <3>1. k \in T
      BY <2>3
    <3>2. ~(<<k, n>> \in OpToRel(<, Nat))
      BY <2>1, <3>1
    <3> QED BY <2>2, <2>3, <3>2 DEF OpToRel
  <2> QED BY <2>2, <2>3
<1>3. n \in S \cup {0}
  <2> SUFFICES ASSUME n # 0, n \notin S PROVE FALSE
    OBVIOUS
  <2>1. n - 1 \in Nat /\ Bounds(n - 1)
    BY <1>2
  <2>2. ~(n - 1 < n)
    BY <1>2, <2>1
  <2> QED BY <2>2
<1>4. \E k \in S \cup {0} : Bounds(k)
  BY <1>2, <1>3
<1> DEFINE l == Largest(S)
<1>5. l \in S \cup {0} /\ \A m \in S : m <= l
  BY <1>4 DEF Largest
<1>6. l \in Nat /\ l \in S \cup {0} /\ \A m \in S : m <= l
  <2> HIDE DEF l
  <2> QED BY <1>5
<1> QED BY <1>6
-----------------------------------------------------------------------------
(* Types                                                                   *)

\* The releases are well formed.
LEMMA ReleasesTyped ==
    ASSUME Typed
    PROVE  /\ Len(releases) \in Nat /\ DOMAIN releases = 1..Len(releases)
           /\ \A i \in DOMAIN releases :
                /\ releases[i] \in Drafts /\ releases[i].tag \in Tagged
                /\ releases[i].number \in Nat /\ releases[i].by \in Run
                /\ releases[i].bytes \in Bytes /\ releases[i].built \in Bytes
                /\ releases[i].state \in {"draft", "full", "public", "deleted"}
<1>1. releases \in Seq(Drafts)
  BY DEF Typed
<1>2. \A i \in DOMAIN releases : releases[i] \in Drafts
  BY <1>1
<1> QED BY <1>1, <1>2 DEF Drafts

\* A sequence number is fresh: above the tags, releases and reservations of its line.
LEMMA NextSequenceFresh ==
    ASSUME Typed, NEW b \in Nat, BoundedBy(b), NEW r \in Run, copy[r] = ledger
    PROVE  /\ NextSequence(r) \in Nat
           /\ \A q \in Plans : LET t == ledger.plans[q].tag IN
                t.base = Base(r) /\ t.channel = Channel(r) => t.sequence < NextSequence(r)
<1> DEFINE P == {p.tag : p \in {copy[r].plans[q] : q \in Run} \ {NoPlan}}
<1> DEFINE U == {u \in tags \cup {releases[i].tag : i \in Alive} \cup P :
                   u.base = Base(r) /\ u.channel = Channel(r)}
<1> DEFINE S == {t.sequence : t \in U}
<1>1. \A u \in tags \cup {releases[i].tag : i \in Alive} : u \in Tagged /\ u.sequence <= b
  <2>1. \A u \in tags : u \in Tagged /\ u.sequence <= b
    BY DEF Typed, BoundedBy
  <2>2. \A i \in Alive : releases[i].tag \in Tagged /\ releases[i].tag.sequence <= b
    BY ReleasesTyped DEF BoundedBy, Alive
  <2> QED BY <2>1, <2>2
<1>2. \A u \in P : \E q \in Plans : u = ledger.plans[q].tag
  BY DEF Plans
<1>3. \A q \in Plans : ledger.plans[q].tag \in Tagged /\ ledger.plans[q].tag \in P
  <2> SUFFICES ASSUME NEW q \in Plans
               PROVE  ledger.plans[q].tag \in Tagged /\ ledger.plans[q].tag \in P
    OBVIOUS
  <2>1. q \in Run /\ ledger.plans[q] # NoPlan /\ ledger.plans[q] \in Planned
    BY DEF Typed, Ledgers, Plans
  <2>2. ledger.plans[q] \in {copy[r].plans[p] : p \in Run} \ {NoPlan}
    BY <2>1
  <2> QED BY <2>1, <2>2 DEF Planned
<1>4. \A u \in U : u \in Tagged /\ u.sequence <= b
  BY <1>1, <1>2, <1>3 DEF BoundedBy
<1>5. S \in SUBSET Nat /\ \A m \in S : m <= b
  BY <1>4 DEF Tagged
<1>6. Largest(S) \in Nat /\ \A m \in S : m <= Largest(S)
  BY <1>5, LargestBounds
<1>7. NextSequence(r) = 1 + Largest(S)
  BY DEF NextSequence
<1>8. ASSUME NEW q \in Plans, ledger.plans[q].tag.base = Base(r),
             ledger.plans[q].tag.channel = Channel(r)
      PROVE  ledger.plans[q].tag.sequence < NextSequence(r)
  <2>1. ledger.plans[q].tag \in U
    BY <1>3, <1>8
  <2>2. ledger.plans[q].tag.sequence \in S /\ ledger.plans[q].tag.sequence \in Nat
    BY <1>4, <2>1 DEF Tagged
  <2> HIDE DEF S, U, P
  <2> QED BY <1>6, <1>7, <2>2
<1> HIDE DEF S
<1> QED BY <1>6, <1>7, <1>8

\* The tag and the plan a run reserves.
LEMMA NewPlanTyped ==
    ASSUME ReleaseAssumption, Typed, Bounded, NEW r \in Run, trigger[r] \in Occasions,
           copy[r] = ledger
    PROVE  /\ NewPlan(r) \in Planned /\ NewPlan(r).number = ledger.counter + 1
           /\ NewPlan(r).tag.channel = Channel(r)
           /\ Channel(r) = "nightly" => NewPlan(r).tag.run = r
           /\ Channel(r) \in {"beta", "rc"} =>
                 \A q \in Plans : ledger.plans[q].tag # NewPlan(r).tag
<1>1. PICK b \in Nat : BoundedBy(b)
  BY DEF Bounded, BoundedBy
<1>2. /\ NextSequence(r) \in Nat
      /\ \A q \in Plans : LET t == ledger.plans[q].tag IN
           t.base = Base(r) /\ t.channel = Channel(r) => t.sequence < NextSequence(r)
  BY <1>1, NextSequenceFresh
<1>3. Channel(r) \in Channels /\ Base(r) \in Nat /\ ledger.counter \in Nat
  BY DEF Typed, Ledgers, Occasions, Channel, Base, ReleaseAssumption, Channels
<1>4. NewTag(r) \in Tagged /\ NewTag(r).channel = Channel(r)
  BY <1>2, <1>3 DEF NewTag, Tag, Final, Tagged, Channels
<1>5. NewPlan(r) \in Planned /\ NewPlan(r).number = ledger.counter + 1 /\ NewPlan(r).tag = NewTag(r)
  <2>1. source[r] \in Nat /\ input[r] \in Run \cup {NoRun}
    BY DEF Typed, Sources, ReleaseAssumption
  <2> QED BY <1>3, <1>4, <2>1 DEF NewPlan, Planned
<1>6. Channel(r) = "nightly" => NewTag(r).run = r
  BY DEF NewTag, Tag
<1>7. ASSUME Channel(r) \in {"beta", "rc"}, NEW q \in Plans, ledger.plans[q].tag = NewTag(r)
      PROVE  FALSE
  <2>1. NewTag(r) = Tag(Base(r), Channel(r), NextSequence(r), NoRun)
    BY <1>7 DEF NewTag
  <2>2. ledger.plans[q].tag.sequence < NextSequence(r)
    BY <1>2, <1>7, <2>1 DEF Tag
  <2> QED BY <1>2, <1>7, <2>1, <2>2 DEF Tag
<1> QED BY <1>4, <1>5, <1>6, <1>7
-----------------------------------------------------------------------------
(* Steps                                                                   *)

USE DEF Go, Ends, Skip, Ambiguous, Jobs, remote, job, vars

\* The plan a promotion publishes.
LEMMA PromotedTyped ==
    ASSUME Typed, NEW r \in Run, Placed(r), pc[r] # "idle", Promoting(r)
    PROVE  /\ input[r] \in Plans /\ OwnPlan(r) \in Planned
           /\ OwnPlan(r).number = ledger.plans[input[r]].number
           /\ OwnPlan(r).tag = Final(ledger.plans[input[r]].tag.base)
<1>1. input[r] \in Run /\ ledger.plans[input[r]] # NoPlan
  BY DEF Placed, Promoting
<1>2. ledger.plans[input[r]] \in Planned
  BY <1>1 DEF Typed, Ledgers
<1> DEFINE p == ledger.plans[input[r]]
<1>3. OwnPlan(r) = [p EXCEPT !.tag = Final(p.tag.base)]
  BY DEF OwnPlan
<1>4. Final(p.tag.base) \in Tagged
  BY <1>2 DEF Final, Tag, Tagged, Planned, Channels
<1> HIDE DEF p
<1>5. [p EXCEPT !.tag = Final(p.tag.base)] \in Planned
  BY <1>2, <1>4 DEF Planned, p
<1> QED BY <1>1, <1>2, <1>3, <1>5 DEF Plans, Planned, p

\* What a write leaves in the ledger.
LEMMA Written ==
    ASSUME Typed, ReadBefore, NEW r \in Run, Current(r)
    PROVE  copy[r] = ledger
BY DEF Typed, ReadBefore, Current
\* The published candidate a promotion finds.
LEMMA RcFound ==
    ASSUME NEW r \in Run, Accepted(r)
    PROVE  /\ Rc(r) \in DOMAIN releases /\ Rc(r) \in Public
           /\ releases[Rc(r)].tag = ledger.plans[input[r]].tag
<1>1. \E i \in Public : releases[i].tag = ledger.plans[input[r]].tag
  BY DEF Accepted, Published
<1> DEFINE i == Rc(r)
<1>2. i \in Public /\ releases[i].tag = ledger.plans[input[r]].tag
  BY <1>1 DEF Rc
<1> HIDE DEF i
<1>3. i \in DOMAIN releases
  BY <1>2 DEF Public, Alive
<1> QED BY <1>2, <1>3 DEF i

\* A release whose state and bytes are written stays well formed.
LEMMA ReleaseWritten ==
    ASSUME Typed, NEW i \in DOMAIN releases, NEW s \in {"draft", "full", "public", "deleted"},
           NEW b \in Bytes, releases' = [releases EXCEPT ![i] = [@ EXCEPT !.state = s, !.bytes = b]]
    PROVE  releases' \in Seq(Drafts)
<1>1. releases[i] \in Drafts /\ releases \in Seq(Drafts)
  BY ReleasesTyped DEF Typed
<1>2. [releases[i] EXCEPT !.state = s, !.bytes = b] \in Drafts
  BY <1>1 DEF Drafts
<1> QED BY <1>1, <1>2

\* What a reservation writes in the ledger.
LEMMA ReserveWrites ==
    ASSUME Typed, ReadBefore, NEW r \in Run, NEW answered \in BOOLEAN, Reserve(r, answered)
    PROVE  /\ copy[r] = ledger /\ ledger.plans[r] = NoPlan
           /\ ledger' = [rev |-> ledger.rev + 1, counter |-> ledger.counter + 1,
                         floor |-> ledger.floor, plans |-> [ledger.plans EXCEPT ![r] = NewPlan(r)]]
<1>1. copy[r] = ledger
  BY Written DEF Reserve, Write
<1>2. ledger' = [[ledger EXCEPT !.counter = @ + 1, !.plans[r] = NewPlan(r)]
                   EXCEPT !.rev = ledger.rev + 1]
  BY <1>1 DEF Reserve, Write
<1>3. ledger = [rev |-> ledger.rev, counter |-> ledger.counter, floor |-> ledger.floor,
                plans |-> ledger.plans]
  BY DEF Typed, Ledgers
<1> QED BY <1>1, <1>2, <1>3 DEF Reserve

\* What the start of a publication writes in the ledger.
LEMMA SpendWrites ==
    ASSUME Typed, ReadBefore, NEW r \in Run, NEW answered \in BOOLEAN, Spend(r, answered)
    PROVE  /\ copy[r] = ledger
           /\ ledger' = [rev |-> ledger.rev + 1, counter |-> ledger.counter,
                         floor |-> plan[r].number, plans |-> ledger.plans]
<1>1. copy[r] = ledger
  BY Written DEF Spend, Write
<1>2. ledger' = [[ledger EXCEPT !.floor = plan[r].number] EXCEPT !.rev = ledger.rev + 1]
  BY <1>1 DEF Spend, Write
<1>3. ledger = [rev |-> ledger.rev, counter |-> ledger.counter, floor |-> ledger.floor,
                plans |-> ledger.plans]
  BY DEF Typed, Ledgers
<1> QED BY <1>1, <1>2, <1>3

\* A run whose process ends leaves a well formed workspace.
LEMMA EndsTyped ==
    ASSUME Typed, NEW r \in Run, NEW how \in {"failed", "succeeded"}, Ends(r, how)
    PROVE  Workspaces'
<1>1. Blank \in Ledgers /\ <<NoRun, 0>> \in Bytes
  BY DEF Blank, Ledgers, Bytes
<1> QED BY <1>1 DEF Typed, Workspaces

\* Each step of a run keeps the types.
LEMMA TypedByRun ==
    ASSUME ReleaseAssumption, Typed, ReadBefore, Bounded, NEW r \in Run, Placed(r), Step(r)
    PROVE  Typed'
<1> USE DEF Typed, Workspaces
<1>0. Blank \in Ledgers /\ <<NoRun, 0>> \in Bytes
  BY DEF Blank, Ledgers, Bytes
<1>1. CASE \E t \in Triggers, rc \in Run \cup {NoRun} : Start(r, t, rc)
  BY <1>0, <1>1 DEF Start, Stages, ReleaseAssumption
<1>2. CASE \E all \in BOOLEAN : Rerun(r, all)
  BY <1>0, <1>2 DEF Rerun, Stages, Active
<1>3. CASE Fail(r)
  BY <1>0, <1>3 DEF Fail, Blank, Stages, Active
<1>4. CASE Prepare(r)
  BY <1>0, <1>4 DEF Prepare, Stages, Active
<1>5. CASE ClosedCycle(r)
  BY <1>0, <1>5 DEF ClosedCycle, Stages, Active
<1>6. CASE Reuse(r)
  <2>1. copy[r].plans[r] \in Planned \cup {NoPlan}
    BY DEF Ledgers
  <2> QED BY <1>0, <1>6, <2>1 DEF Reuse, Stages
<1>7. CASE \E answered \in BOOLEAN : Reserve(r, answered)
  <2>1. PICK answered \in BOOLEAN : Reserve(r, answered)
    BY <1>7
  <2>2. copy[r] = ledger /\ trigger[r] \in Occasions
    BY <2>1, Written DEF Reserve, Write, Placed
  <2>3. NewPlan(r) \in Planned
    BY <2>2, NewPlanTyped
  <2>4. ledger' \in Ledgers
    <3>1. [ledger.plans EXCEPT ![r] = NewPlan(r)] \in [Run -> Planned \cup {NoPlan}]
      BY <2>3 DEF Ledgers
    <3>2. ledger' = [rev |-> ledger.rev + 1, counter |-> ledger.counter + 1, floor |-> ledger.floor,
                     plans |-> [ledger.plans EXCEPT ![r] = NewPlan(r)]]
      BY <2>1, ReserveWrites
    <3> QED BY <3>1, <3>2 DEF Ledgers
  <2>5. plan' \in [Run -> Planned \cup {NoPlan}]
    BY <2>1, <2>3 DEF Reserve
  <2>6. pc' \in [Run -> Stages \cup {"idle", "failed", "succeeded"}] /\ copy' \in [Run -> Ledgers]
    BY <1>0, <2>1 DEF Reserve, Stages
  <2> QED BY <2>1, <2>4, <2>5, <2>6 DEF Reserve
<1>8. CASE Superseded(r)
  BY <1>0, <1>8 DEF Superseded, Stages, Active
<1>9. CASE Reused(r)
  BY <1>0, <1>9 DEF Reused, Stages, Active
<1>10. CASE Publish(r)
  <2>1. head \in Nat /\ <<r, attempt[r]>> \in Bytes
    BY DEF Sources, ReleaseAssumption, Bytes
  <2> QED BY <1>10, <2>1 DEF Publish, Stages
<1>11. CASE Promote(r)
  <2>1. Rc(r) \in Nat
    BY <1>11, RcFound, ReleasesTyped DEF Promote
  <2> QED BY <1>11, <2>1 DEF Promote, Stages
<1>12. CASE Stage(r)
  <2>1. Promoting(r) /\ OwnPlan(r) \in Planned
    BY <1>12, PromotedTyped DEF Stage, Placed
  <2>2. releases[Rc(r)].bytes \in Bytes
    BY <1>12, RcFound, ReleasesTyped DEF Stage
  <2>3. plan' = [plan EXCEPT ![r] = OwnPlan(r)]
    BY <1>12, <2>1 DEF Stage, OwnPlan
  <2> QED BY <1>12, <2>1, <2>2, <2>3 DEF Stage, Stages
<1>13. CASE Begin(r)
  BY <1>0, <1>13 DEF Begin, Stages, Active
<1>14. CASE \E answered \in BOOLEAN : Spend(r, answered)
  <2>1. PICK answered \in BOOLEAN : Spend(r, answered)
    BY <1>14
  <2>2. plan[r].number \in Nat
    BY DEF Planned, NoPlan
  <2>3. ledger' \in Ledgers
    <3>1. ledger' = [rev |-> ledger.rev + 1, counter |-> ledger.counter,
                     floor |-> plan[r].number, plans |-> ledger.plans]
      BY <2>1, SpendWrites
    <3> QED BY <2>2, <3>1 DEF Ledgers
  <2>4. Workspaces'
    <3>1. CASE answered
      BY <2>1, <2>3, <3>1 DEF Spend, Stages
    <3>2. CASE ~answered
      BY <2>1, <3>2, EndsTyped DEF Spend
    <3> QED BY <3>1, <3>2
  <2> QED BY <2>1, <2>3, <2>4 DEF Spend
<1>15. CASE \E answered \in BOOLEAN : CreateTag(r, answered)
  <2>1. PICK answered \in BOOLEAN : CreateTag(r, answered)
    BY <1>15
  <2>2. plan[r].tag \in Tagged
    BY <2>1 DEF CreateTag, Placed, Committed, Planned
  <2>3. tags' \subseteq Tagged
    BY <2>1, <2>2 DEF CreateTag
  <2>4. Workspaces'
    <3>1. CASE answered
      BY <2>1, <3>1 DEF CreateTag, Stages
    <3>2. CASE ~answered
      BY <2>1, <3>2, EndsTyped DEF CreateTag
    <3> QED BY <3>1, <3>2
  <2> QED BY <2>1, <2>3, <2>4 DEF CreateTag
<1>16. CASE \E answered \in BOOLEAN : Create(r, answered)
  <2>1. PICK answered \in BOOLEAN : Create(r, answered)
    BY <1>16
  <2>2. plan[r] \in Planned
    BY <2>1 DEF Create, Placed, Committed
  <2>3. Draft(r) \in Drafts
    BY <1>0, <2>2 DEF Draft, Drafts, Planned
  <2>4. releases' \in Seq(Drafts)
    BY <2>1, <2>3 DEF Create
  <2>5. Workspaces'
    <3>1. CASE answered
      <4>1. Len(releases) + 1 \in Nat
        BY ReleasesTyped
      <4> QED BY <2>1, <3>1, <4>1 DEF Create, Stages
    <3>2. CASE ~answered /\ Promoting(r)
      BY <2>1, <3>2, EndsTyped DEF Create
    <3>3. CASE ~answered /\ ~Promoting(r)
      BY <2>1, <3>3 DEF Create, Stages
    <3> QED BY <3>1, <3>2, <3>3
  <2> QED BY <2>1, <2>4, <2>5 DEF Create
<1>17. CASE \E answered \in BOOLEAN : MakePublic(r, answered)
  <2>1. PICK answered \in BOOLEAN : MakePublic(r, answered)
    BY <1>17
  <2>2. release[r] \in DOMAIN releases
    BY <2>1 DEF MakePublic, Placed
  <2>3. releases[release[r]] \in Drafts /\ releases[release[r]].bytes \in Bytes
    BY <2>2, ReleasesTyped
  <2> DEFINE i == release[r]
  <2>4. releases' = [releases EXCEPT ![i] =
                       [@ EXCEPT !.state = "public", !.bytes = releases[i].bytes]]
    BY <2>1, <2>3 DEF MakePublic, Drafts
  <2>5. releases' \in Seq(Drafts)
    BY <2>2, <2>3, <2>4, ReleaseWritten
  <2>6. Workspaces'
    <3>1. CASE ~answered
      BY <2>1, <3>1, EndsTyped DEF MakePublic
    <3>2. CASE answered /\ Promoting(r)
      BY <2>1, <3>2, EndsTyped DEF MakePublic
    <3>3. CASE answered /\ ~Promoting(r)
      BY <2>1, <3>3 DEF MakePublic, Stages
    <3> QED BY <3>1, <3>2, <3>3
  <2> QED BY <2>1, <2>5, <2>6 DEF MakePublic
<1>18. CASE CreateLost(r)
  <2>1. Workspaces'
    <3>1. CASE Promoting(r)
      BY <1>18, <3>1, EndsTyped DEF CreateLost
    <3>2. CASE ~Promoting(r)
      BY <1>18, <3>2 DEF CreateLost, Stages
    <3> QED BY <3>1, <3>2
  <2> QED BY <1>18, <2>1 DEF CreateLost
<1>19. CASE Readback(r)
  <2>1. release' \in [Run -> Nat]
    BY <1>19, ReleasesTyped DEF Readback, Alive
  <2> QED BY <1>19, <2>1 DEF Readback, Stages
<1>20. CASE Upload(r)
  <2>1. release[r] \in DOMAIN releases /\ staged[r] \in Bytes
    BY <1>20 DEF Upload, Placed
  <2>2. releases[release[r]] \in Drafts
    BY <2>1, ReleasesTyped
  <2> DEFINE i == release[r]
  <2>3. releases' = [releases EXCEPT ![i] = [@ EXCEPT !.state = "full", !.bytes = staged[r]]]
    BY <1>20, <2>2 DEF Upload, Drafts
  <2>4. releases' \in Seq(Drafts)
    BY <2>1, <2>3, ReleaseWritten
  <2> QED BY <1>20, <2>4 DEF Upload, Stages
<1>21. CASE Confirm(r)
  BY <1>0, <1>21 DEF Confirm, Stages, Active
<1>22. CASE StoreEvidence(r)
  BY <1>0, <1>22 DEF StoreEvidence, Stages, Active
<1> QED BY <1>1, <1>2, <1>3, <1>4, <1>5, <1>6, <1>7, <1>8, <1>9, <1>10, <1>11, <1>12,
           <1>13, <1>14, <1>15, <1>16, <1>17, <1>18, <1>19, <1>20, <1>21, <1>22 DEF Step
Maintenance ==
    \/ HeadMoves
    \/ \E i \in DOMAIN releases : ReplaceAsset(i)
    \/ \E t \in tags : Discard(t)

\* Maintainers write the releases in place: nothing is renamed or brought back.
LEMMA Maintained ==
    ASSUME ReleaseAssumption, Typed, Maintenance
    PROVE  /\ UNCHANGED <<ledger, evidence, Jobs>> /\ head' \in Sources /\ incidents' \in Nat
           /\ tags' \subseteq tags
           /\ DOMAIN releases' = DOMAIN releases /\ releases' \in Seq(Drafts)
           /\ \A i \in DOMAIN releases :
                /\ releases'[i].tag = releases[i].tag /\ releases'[i].number = releases[i].number
                /\ releases'[i].by = releases[i].by /\ releases'[i].built = releases[i].built
                /\ releases'[i].bytes \in {releases[i].bytes, <<NoRun, 0>>}
                /\ releases[i].state # "public" => releases'[i].bytes = releases[i].bytes
                /\ releases'[i].state \in {releases[i].state, "deleted"}
<1>0. \A i \in DOMAIN releases : releases[i] \in Drafts
  BY ReleasesTyped
<1>1. CASE HeadMoves
  BY <1>1 DEF HeadMoves, Typed, Sources, ReleaseAssumption
<1>2. CASE \E i \in DOMAIN releases : ReplaceAsset(i)
  <2>1. PICK i \in DOMAIN releases : ReplaceAsset(i)
    BY <1>2
  <2> DEFINE d == [releases[i] EXCEPT !.bytes = <<NoRun, 0>>]
  <2>2. d \in Drafts /\ d.tag = releases[i].tag /\ d.number = releases[i].number
        /\ d.by = releases[i].by /\ d.built = releases[i].built /\ d.bytes = <<NoRun, 0>>
        /\ d.state = releases[i].state
    <3>1. <<NoRun, 0>> \in Bytes
      BY DEF Bytes
    <3> QED BY <1>0, <3>1 DEF Drafts
  <2>3. releases' = [releases EXCEPT ![i] = d]
    BY <2>1 DEF ReplaceAsset
  <2>4. UNCHANGED <<ledger, evidence, tags, head, Jobs>> /\ incidents' \in Nat
    BY <2>1 DEF ReplaceAsset, Typed
  <2> HIDE DEF d
  <2>5. releases' \in Seq(Drafts) /\ DOMAIN releases' = DOMAIN releases
    BY <2>2, <2>3 DEF Typed
  <2>6. \A j \in DOMAIN releases : releases'[j] = IF j = i THEN d ELSE releases[j]
    BY <2>3
  <2>7. releases[i].state = "public"
    BY <2>1 DEF ReplaceAsset, Public
  <2> QED BY <2>2, <2>4, <2>5, <2>6, <2>7 DEF Typed
<1>3. CASE \E t \in tags : Discard(t)
  <2>1. PICK t \in tags : Discard(t)
    BY <1>3
  <2>2. DOMAIN releases' = DOMAIN releases /\ \A i \in DOMAIN releases :
          releases'[i] \in {releases[i], [releases[i] EXCEPT !.state = "deleted"]}
    BY <2>1 DEF Discard
  <2>3. \A i \in DOMAIN releases : releases'[i] \in Drafts
    BY <1>0, <2>2 DEF Drafts
  <2>4. releases' \in [1..Len(releases) -> Drafts]
    <3>1. releases' = [i \in DOMAIN releases |-> releases'[i]]
      BY <2>1 DEF Discard
    <3> QED BY <2>2, <2>3, <3>1, ReleasesTyped
  <2>5. releases' \in Seq(Drafts)
    BY <2>4, ReleasesTyped, SeqDef
  <2> QED BY <1>0, <2>1, <2>2, <2>5 DEF Discard, Typed, Drafts
<1> QED BY <1>1, <1>2, <1>3 DEF Maintenance

\* Every step keeps the types.
LEMMA TypedStep ==
    ASSUME ReleaseAssumption, Typed, ReadBefore, Bounded, \A r \in Run : Placed(r), [Next]_vars
    PROVE  Typed'
<1>1. CASE \E r \in Run : Step(r)
  BY <1>1, TypedByRun
<1>2. CASE Maintenance
  <2>1. tags' \subseteq Tagged /\ releases' \in Seq(Drafts) /\ UNCHANGED <<ledger, evidence, Jobs>>
        /\ head' \in Sources /\ incidents' \in Nat
    BY <1>2, Maintained DEF Typed
  <2> QED BY <2>1 DEF Typed, Workspaces
<1>3. CASE UNCHANGED vars
  BY <1>3 DEF Typed, Workspaces
<1> QED BY <1>1, <1>2, <1>3 DEF Next, Maintenance
-----------------------------------------------------------------------------
(* What a step of a run leaves alone                                       *)

\* A run has no say in the jobs of another, and keeps its occasion once started.
Elsewhere(r) ==
    \A q \in Run \ {r} :
        /\ pc'[q] = pc[q] /\ trigger'[q] = trigger[q] /\ source'[q] = source[q]
        /\ input'[q] = input[q] /\ copy'[q] = copy[q] /\ plan'[q] = plan[q]
        /\ staged'[q] = staged[q] /\ release'[q] = release[q]

Started(r) == pc[r] # "idle" =>
    pc'[r] # "idle" /\ trigger'[r] = trigger[r] /\ input'[r] = input[r] /\ source'[r] = source[r]

\* A step of a run is its own.
LEMMA Frame ==
    ASSUME Typed, NEW r \in Run, Step(r)
    PROVE  Elsewhere(r) /\ Started(r)
<1> USE DEF Typed, Workspaces, Elsewhere, Started
<1>1. CASE \E t \in Triggers, rc \in Run \cup {NoRun} : Start(r, t, rc)
  BY <1>1 DEF Start
<1>2. CASE \E all \in BOOLEAN : Rerun(r, all)
  BY <1>2 DEF Rerun
<1>3. CASE Fail(r)
  BY <1>3 DEF Fail, Blank
<1>4. CASE Prepare(r)
  BY <1>4 DEF Prepare
<1>5. CASE ClosedCycle(r)
  BY <1>5 DEF ClosedCycle
<1>6. CASE Reuse(r)
  BY <1>6 DEF Reuse
<1>7. CASE \E answered \in BOOLEAN : Reserve(r, answered)
  BY <1>7 DEF Reserve
<1>8. CASE Superseded(r)
  BY <1>8 DEF Superseded
<1>9. CASE Reused(r)
  BY <1>9 DEF Reused
<1>10. CASE Publish(r)
  BY <1>10 DEF Publish
<1>11. CASE Promote(r)
  BY <1>11 DEF Promote
<1>12. CASE Stage(r)
  BY <1>12 DEF Stage
<1>13. CASE Begin(r)
  BY <1>13 DEF Begin
<1>14. CASE \E answered \in BOOLEAN : Spend(r, answered)
  BY <1>14 DEF Spend
<1>15. CASE \E answered \in BOOLEAN : CreateTag(r, answered)
  BY <1>15 DEF CreateTag
<1>16. CASE \E answered \in BOOLEAN : Create(r, answered)
  BY <1>16 DEF Create
<1>17. CASE \E answered \in BOOLEAN : MakePublic(r, answered)
  BY <1>17 DEF MakePublic
<1>18. CASE CreateLost(r)
  BY <1>18 DEF CreateLost
<1>19. CASE Readback(r)
  BY <1>19 DEF Readback
<1>20. CASE Upload(r)
  BY <1>20 DEF Upload
<1>21. CASE Confirm(r)
  BY <1>21 DEF Confirm
<1>22. CASE StoreEvidence(r)
  BY <1>22 DEF StoreEvidence
<1> QED BY <1>1, <1>2, <1>3, <1>4, <1>5, <1>6, <1>7, <1>8, <1>9, <1>10, <1>11, <1>12,
           <1>13, <1>14, <1>15, <1>16, <1>17, <1>18, <1>19, <1>20, <1>21, <1>22 DEF Step
\* Only a reservation and a spent number are written in the ledger, and what a run
\* holds of it is what it read, wrote or nothing.
LEMMA LedgerKinds ==
    ASSUME Typed, NEW r \in Run, Step(r)
    PROVE  /\ \/ ledger' = ledger /\ copy'[r] \in {copy[r], Blank, ledger}
              \/ \E answered \in BOOLEAN : Reserve(r, answered)
              \/ \E answered \in BOOLEAN : Spend(r, answered)
           /\ copy'[r] \in {copy[r], Blank, ledger, ledger'}
<1> USE DEF Typed, Workspaces
<1>1. CASE \E t \in Triggers, rc \in Run \cup {NoRun} : Start(r, t, rc)
  BY <1>1 DEF Start
<1>2. CASE \E all \in BOOLEAN : Rerun(r, all)
  BY <1>2 DEF Rerun
<1>3. CASE Fail(r)
  BY <1>3 DEF Fail, Blank
<1>4. CASE Prepare(r)
  BY <1>4 DEF Prepare
<1>5. CASE ClosedCycle(r)
  BY <1>5 DEF ClosedCycle
<1>6. CASE Reuse(r)
  BY <1>6 DEF Reuse
<1>7. CASE \E answered \in BOOLEAN : Reserve(r, answered)
  BY <1>7 DEF Reserve
<1>8. CASE Superseded(r)
  BY <1>8 DEF Superseded
<1>9. CASE Reused(r)
  BY <1>9 DEF Reused
<1>10. CASE Publish(r)
  BY <1>10 DEF Publish
<1>11. CASE Promote(r)
  BY <1>11 DEF Promote
<1>12. CASE Stage(r)
  BY <1>12 DEF Stage
<1>13. CASE Begin(r)
  BY <1>13 DEF Begin
<1>14. CASE \E answered \in BOOLEAN : Spend(r, answered)
  BY <1>14 DEF Spend
<1>15. CASE \E answered \in BOOLEAN : CreateTag(r, answered)
  BY <1>15 DEF CreateTag
<1>16. CASE \E answered \in BOOLEAN : Create(r, answered)
  BY <1>16 DEF Create
<1>17. CASE \E answered \in BOOLEAN : MakePublic(r, answered)
  BY <1>17 DEF MakePublic
<1>18. CASE CreateLost(r)
  BY <1>18 DEF CreateLost
<1>19. CASE Readback(r)
  BY <1>19 DEF Readback
<1>20. CASE Upload(r)
  BY <1>20 DEF Upload
<1>21. CASE Confirm(r)
  BY <1>21 DEF Confirm
<1>22. CASE StoreEvidence(r)
  BY <1>22 DEF StoreEvidence
<1> QED BY <1>1, <1>2, <1>3, <1>4, <1>5, <1>6, <1>7, <1>8, <1>9, <1>10, <1>11, <1>12,
           <1>13, <1>14, <1>15, <1>16, <1>17, <1>18, <1>19, <1>20, <1>21, <1>22 DEF Step
-----------------------------------------------------------------------------
(* The ledger                                                              *)

\* A copy of the ledger is never ahead of it, and as new as the ledger only while
\* it is the ledger.
LEMMA ReadBeforeStep ==
    ASSUME Typed, ReadBefore, [Next]_vars
    PROVE  ReadBefore'
<1>0. /\ Blank.rev = 0 /\ \A q \in Run : Blank.plans[q] = NoPlan
      /\ ledger.rev \in Nat /\ \A r \in Run : copy[r].rev \in Nat
  BY DEF Blank, Typed, Workspaces, Ledgers
<1>1. ASSUME NEW r \in Run, Step(r) PROVE ReadBefore'
  <2>1. Elsewhere(r)
    BY <1>1, Frame
  <2>2. CASE ledger' = ledger /\ copy'[r] \in {copy[r], Blank, ledger}
    <3>1. \A q \in Run : copy'[q] \in {copy[q], Blank, ledger}
      BY <2>1, <2>2 DEF Elsewhere
    <3> QED BY <1>0, <2>2, <3>1 DEF ReadBefore
  <2>3. ASSUME ledger'.rev = ledger.rev + 1, \A q \in Plans : ledger'.plans[q] = ledger.plans[q]
        PROVE  ReadBefore'
    <3>1. copy'[r] \in {copy[r], Blank, ledger, ledger'}
      BY <1>1, LedgerKinds
    <3>2. \A q \in Run : copy'[q] \in {copy[q], Blank, ledger, ledger'}
      BY <2>1, <3>1 DEF Elsewhere
    <3>3. \A q \in Run : copy[q].rev < ledger'.rev /\ 0 < ledger'.rev /\ ledger.rev < ledger'.rev
      BY <1>0, <2>3 DEF ReadBefore
    <3>4. \A q, p \in Run : copy[q].plans[p] # NoPlan => copy[q].plans[p] = ledger'.plans[p]
      BY <2>3 DEF ReadBefore, Plans
    <3>5. \A p \in Run : ledger.plans[p] # NoPlan => ledger.plans[p] = ledger'.plans[p]
      BY <2>3 DEF Plans
    <3>6. ledger'.rev \in Nat
      BY <1>0, <2>3
    <3>7. ASSUME NEW q \in Run
          PROVE  /\ copy'[q].rev <= ledger'.rev
                 /\ copy'[q].rev = ledger'.rev => copy'[q] = ledger'
                 /\ \A p \in Run :
                      copy'[q].plans[p] # NoPlan => copy'[q].plans[p] = ledger'.plans[p]
      BY <1>0, <3>2, <3>3, <3>4, <3>5, <3>6
    <3> QED BY <1>0, <3>3, <3>7 DEF ReadBefore
  <2>4. CASE \E answered \in BOOLEAN : Reserve(r, answered)
    BY <2>3, <2>4, ReserveWrites DEF Typed, Ledgers, Plans
  <2>5. CASE \E answered \in BOOLEAN : Spend(r, answered)
    BY <2>3, <2>5, SpendWrites DEF Plans
  <2> QED BY <1>1, <2>2, <2>4, <2>5, LedgerKinds
<1>2. CASE Maintenance
  <2>1. UNCHANGED <<ledger, copy>>
    BY <1>2 DEF Maintenance, HeadMoves, ReplaceAsset, Discard
  <2> QED BY <2>1 DEF ReadBefore
<1>3. CASE UNCHANGED vars
  BY <1>3 DEF ReadBefore
<1> QED BY <1>1, <1>2, <1>3 DEF Next, Maintenance
\* The plan a run holds is numbered by a reservation.
LEMMA OwnNumbered ==
    ASSUME Typed, Reservations, NEW r \in Run, Placed(r), plan[r] # NoPlan
    PROVE  /\ plan[r] \in Planned /\ plan[r] = OwnPlan(r)
           /\ plan[r].number <= ledger.counter
           /\ ~Promoting(r) => r \in Plans /\ plan[r] = ledger.plans[r]
           /\ Promoting(r) => input[r] \in Plans /\ plan[r].number = ledger.plans[input[r]].number
<1>1. plan[r] = OwnPlan(r) /\ plan[r] \in Planned /\ pc[r] # "idle"
  BY DEF Placed, Typed
<1>2. CASE Promoting(r)
  <2>1. input[r] \in Plans /\ plan[r].number = ledger.plans[input[r]].number
    BY <1>1, <1>2, PromotedTyped
  <2> QED BY <1>1, <1>2, <2>1 DEF Reservations, DistinctPlans
<1>3. CASE ~Promoting(r)
  <2>1. plan[r] = ledger.plans[r] /\ r \in Plans
    BY <1>1, <1>3 DEF OwnPlan, Plans
  <2> QED BY <1>1, <1>3, <2>1 DEF Reservations, DistinctPlans
<1> QED BY <1>2, <1>3

\* A step of a run reserves a new number under its own name, spends one that is not
\* below the last spent, or leaves the ledger alone.
LEMMA LedgerMoves ==
    ASSUME ReleaseAssumption, Typed, ReadBefore, Bounded, Reservations, NEW r \in Run, Placed(r),
           Spending(r), Step(r)
    PROVE  \/ ledger' = ledger
           \/ /\ pc[r] = "reserve" /\ r \notin Plans /\ NewPlan(r) \in Planned
              /\ NewPlan(r).number = ledger.counter + 1
              /\ NewPlan(r).tag.channel = Channel(r)
              /\ Channel(r) = "nightly" => NewPlan(r).tag.run = r
              /\ Channel(r) \in {"beta", "rc"} =>
                   \A q \in Plans : ledger.plans[q].tag # NewPlan(r).tag
              /\ ledger'.counter = ledger.counter + 1 /\ ledger'.floor = ledger.floor
              /\ ledger'.plans = [ledger.plans EXCEPT ![r] = NewPlan(r)]
           \/ /\ pc[r] = "spend" /\ plan[r] # NoPlan
              /\ ledger.floor <= plan[r].number /\ (~Promoting(r) => ledger.floor < plan[r].number)
              /\ ledger'.counter = ledger.counter /\ ledger'.floor = plan[r].number
              /\ ledger'.plans = ledger.plans
<1>1. CASE ledger' = ledger
  BY <1>1
<1>2. CASE \E answered \in BOOLEAN : Reserve(r, answered)
  <2>1. PICK answered \in BOOLEAN : Reserve(r, answered)
    BY <1>2
  <2>2. pc[r] = "reserve" /\ trigger[r] \in Occasions
    BY <2>1 DEF Reserve, Placed
  <2>3. /\ copy[r] = ledger /\ ledger.plans[r] = NoPlan
        /\ ledger' = [rev |-> ledger.rev + 1, counter |-> ledger.counter + 1,
                      floor |-> ledger.floor, plans |-> [ledger.plans EXCEPT ![r] = NewPlan(r)]]
    BY <2>1, ReserveWrites
  <2>4. /\ NewPlan(r) \in Planned /\ NewPlan(r).number = ledger.counter + 1
        /\ NewPlan(r).tag.channel = Channel(r)
        /\ Channel(r) = "nightly" => NewPlan(r).tag.run = r
        /\ Channel(r) \in {"beta", "rc"} =>
             \A q \in Plans : ledger.plans[q].tag # NewPlan(r).tag
    BY <2>2, <2>3, NewPlanTyped
  <2> HIDE DEF Reserve
  <2> QED BY <2>2, <2>3, <2>4 DEF Plans
<1>3. CASE \E answered \in BOOLEAN : Spend(r, answered)
  <2>1. PICK answered \in BOOLEAN : Spend(r, answered)
    BY <1>3
  <2>2. pc[r] = "spend" /\ plan[r] # NoPlan
    BY <2>1 DEF Spend, Placed
  <2>3. /\ copy[r] = ledger
        /\ ledger' = [rev |-> ledger.rev + 1, counter |-> ledger.counter,
                      floor |-> plan[r].number, plans |-> ledger.plans]
    BY <2>1, SpendWrites
  <2> QED BY <2>2, <2>3 DEF Spending
<1> QED BY <1>1, <1>2, <1>3, LedgerKinds

\* No reservation changes, and no counter goes back.
LEMMA NothingForgottenStep ==
    ASSUME ReleaseAssumption, Typed, ReadBefore, Bounded, Reservations,
           \A r \in Run : Placed(r) /\ Spending(r), [Next]_vars
    PROVE  NothingForgotten
<1>0. /\ ledger.counter \in Nat /\ ledger.floor \in Nat
      /\ ledger.plans \in [Run -> Planned \cup {NoPlan}]
  BY DEF Typed, Ledgers
<1>1. ASSUME NEW r \in Run, Step(r) PROVE NothingForgotten
  <2>1. /\ \A q \in Plans : ledger'.plans[q] = ledger.plans[q]
        /\ \/ ledger'.counter = ledger.counter
           \/ ledger'.counter = ledger.counter + 1
        /\ \/ ledger'.floor = ledger.floor
           \/ ledger'.floor = plan[r].number /\ ledger.floor <= plan[r].number
    BY <1>0, <1>1, LedgerMoves DEF Plans
  <2> QED BY <1>0, <2>1 DEF NothingForgotten
<1>2. CASE Maintenance
  BY <1>0, <1>2, Maintained DEF NothingForgotten
<1>3. CASE UNCHANGED vars
  BY <1>0, <1>3 DEF NothingForgotten
<1> QED BY <1>1, <1>2, <1>3 DEF Next, Maintenance
\* What a run is for does not change once it has started.
LEMMA Fixed ==
    ASSUME Typed, [Next]_vars, NEW q \in Run, pc[q] # "idle"
    PROVE  /\ pc'[q] # "idle" /\ trigger'[q] = trigger[q] /\ input'[q] = input[q]
           /\ Channel(q)' = Channel(q) /\ Promoting(q)' = Promoting(q) /\ Base(q)' = Base(q)
<1>1. pc'[q] # "idle" /\ trigger'[q] = trigger[q] /\ input'[q] = input[q] /\ source'[q] = source[q]
  <2>1. ASSUME NEW r \in Run, Step(r)
        PROVE  /\ pc'[q] # "idle" /\ trigger'[q] = trigger[q]
               /\ input'[q] = input[q] /\ source'[q] = source[q]
    BY <2>1, Frame DEF Elsewhere, Started
  <2>2. CASE Maintenance
    BY <2>2 DEF Maintenance, HeadMoves, ReplaceAsset, Discard
  <2> QED BY <2>1, <2>2 DEF Next, Maintenance
<1> QED BY <1>1 DEF Promoting, Channel, Base

\* Every reservation is numbered and named apart.
LEMMA ReservationsStep ==
    ASSUME ReleaseAssumption, Typed, ReadBefore, Bounded, Reservations,
           \A r \in Run : Placed(r) /\ Spending(r), [Next]_vars
    PROVE  Reservations'
<1>0. /\ ledger.counter \in Nat /\ ledger.floor \in Nat
      /\ ledger.plans \in [Run -> Planned \cup {NoPlan}]
      /\ \A q \in Plans : q \in Run /\ ledger.plans[q] \in Planned /\ ledger.plans[q].number \in Nat
                          /\ ledger.plans[q].tag \in Tagged
  BY DEF Typed, Ledgers, Plans, Planned
<1>1. \A q \in Plans : pc'[q] # "idle" /\ Channel(q)' = Channel(q) /\ Promoting(q)' = Promoting(q)
  BY <1>0, Fixed DEF Reservations
<1>2. CASE ledger' = ledger
  <2>1. Plans' = Plans
    BY <1>2 DEF Plans
  <2>2. DistinctPlans'
    BY <1>2, <2>1 DEF Reservations, DistinctPlans
  <2> QED BY <1>1, <1>2, <2>1, <2>2 DEF Reservations
<1>3. ASSUME NEW r \in Run, Step(r), ledger' # ledger PROVE Reservations'
  <2>1. CASE /\ pc[r] = "reserve" /\ r \notin Plans /\ NewPlan(r) \in Planned
             /\ NewPlan(r).number = ledger.counter + 1
             /\ NewPlan(r).tag.channel = Channel(r)
             /\ Channel(r) = "nightly" => NewPlan(r).tag.run = r
             /\ Channel(r) \in {"beta", "rc"} =>
                  \A q \in Plans : ledger.plans[q].tag # NewPlan(r).tag
             /\ ledger'.counter = ledger.counter + 1 /\ ledger'.floor = ledger.floor
             /\ ledger'.plans = [ledger.plans EXCEPT ![r] = NewPlan(r)]
    <3> DEFINE p == NewPlan(r)
    <3>1. /\ Plans' = Plans \cup {r} /\ ledger'.plans[r] = p
          /\ \A q \in Plans : ledger'.plans[q] = ledger.plans[q]
      <4>1. NewPlan(r) # NoPlan
        BY <2>1 DEF Planned, NoPlan
      <4> QED BY <1>0, <2>1, <4>1 DEF Plans
    <3>2. \A q \in Plans : q # r /\ ledger.plans[q].number <= ledger.counter
      BY <2>1 DEF Reservations, DistinctPlans
    <3>3. /\ ~Promoting(r) /\ pc'[r] # "idle"
          /\ Channel(r)' = Channel(r) /\ Promoting(r)' = Promoting(r)
      BY <2>1, Fixed DEF Placed
    <3>4. ASSUME NEW q \in Plans, p.tag.channel # "stable" PROVE ledger.plans[q].tag # p.tag
      <4>1. Channel(r) \in Channels
        BY <2>1 DEF Planned, Tagged
      <4>2. CASE Channel(r) = "nightly"
        BY <2>1, <3>2, <4>2 DEF Reservations
      <4>3. CASE Channel(r) \in {"beta", "rc"}
        BY <2>1, <4>3
      <4> QED BY <2>1, <3>4, <4>1, <4>2, <4>3 DEF Channels
    <3>5. p.number = ledger.counter + 1 /\ p.tag.channel = Channel(r)
          /\ (Channel(r) = "nightly" => p.tag.run = r)
      BY <2>1
    <3> HIDE DEF p
    <3>6. /\ \A q \in Plans : p.number # ledger.plans[q].number
          /\ \A q \in Plans : ledger.plans[q].number <= ledger'.counter
          /\ p.number <= ledger'.counter /\ ledger'.floor <= ledger'.counter
      BY <1>0, <2>1, <3>2, <3>5 DEF Reservations, DistinctPlans
    <3>7. DistinctPlans'
      BY <3>1, <3>4, <3>6 DEF Reservations, DistinctPlans
    <3> QED BY <1>1, <3>1, <3>3, <3>5, <3>7 DEF Reservations
  <2>2. CASE /\ pc[r] = "spend" /\ plan[r] # NoPlan
             /\ ledger'.counter = ledger.counter /\ ledger'.floor = plan[r].number
             /\ ledger'.plans = ledger.plans
    <3>1. plan[r].number <= ledger.counter
      BY <2>2, OwnNumbered
    <3>2. Plans' = Plans
      BY <2>2 DEF Plans
    <3>3. DistinctPlans'
      BY <2>2, <3>1, <3>2 DEF Reservations, DistinctPlans
    <3> QED BY <1>1, <2>2, <3>2, <3>3 DEF Reservations
  <2> QED BY <1>3, <2>1, <2>2, LedgerMoves
<1>4. CASE Maintenance
  BY <1>2, <1>4, Maintained
<1>5. CASE UNCHANGED vars
  BY <1>2, <1>5
<1> QED BY <1>2, <1>3, <1>4, <1>5 DEF Next, Maintenance
-----------------------------------------------------------------------------
(* Tags and releases                                                       *)

\* The releases are those of before: what a draft was created for stays, a deleted
\* one stays deleted, and only its upload gives it bytes.
InPlace ==
    /\ DOMAIN releases' = DOMAIN releases
    /\ \A i \in DOMAIN releases :
        /\ releases'[i].tag = releases[i].tag /\ releases'[i].number = releases[i].number
        /\ releases'[i].by = releases[i].by /\ releases'[i].built = releases[i].built
        /\ releases[i].state = "deleted" => releases'[i].state = "deleted"
        /\ \/ releases'[i].bytes \in {releases[i].bytes, <<NoRun, 0>>}
           \/ \E r \in Run : /\ pc[r] = "upload" /\ release[r] = i
                             /\ releases'[i].bytes = staged[r]

Appends(r) ==
    /\ pc[r] = "create"
    /\ releases' = Append(releases, Draft(r)) /\ UNCHANGED <<ledger, tags, plan>>

\* A step of a run creates its own tag or draft, or works in place.
LEMMA ReleaseKinds ==
    ASSUME Typed, NEW r \in Run, Placed(r), Step(r)
    PROVE  /\ tags' = tags \/ (pc[r] = "tag" /\ tags' = tags \cup {plan[r].tag})
           /\ InPlace \/ Appends(r)
<1>0. \A i \in DOMAIN releases : releases[i] \in Drafts
  BY ReleasesTyped
<1>a. releases' = releases => InPlace
  BY DEF InPlace
<1>b. ASSUME NEW i \in DOMAIN releases, NEW d, releases' = [releases EXCEPT ![i] = d],
             d.tag = releases[i].tag, d.number = releases[i].number, d.by = releases[i].by,
             d.built = releases[i].built, releases[i].state # "deleted",
             \/ d.bytes = releases[i].bytes
             \/ pc[r] = "upload" /\ release[r] = i /\ d.bytes = staged[r]
      PROVE  InPlace
  <2>1. DOMAIN releases' = DOMAIN releases
        /\ \A j \in DOMAIN releases : releases'[j] = IF j = i THEN d ELSE releases[j]
    BY <1>b
  <2> QED BY <1>b, <2>1 DEF InPlace
<1>1. CASE \E t \in Triggers, rc \in Run \cup {NoRun} : Start(r, t, rc)
  BY <1>a, <1>1 DEF Start
<1>2. CASE \E all \in BOOLEAN : Rerun(r, all)
  BY <1>a, <1>2 DEF Rerun
<1>3. CASE Fail(r)
  BY <1>a, <1>3 DEF Fail, Blank
<1>4. CASE Prepare(r)
  BY <1>a, <1>4 DEF Prepare
<1>5. CASE ClosedCycle(r)
  BY <1>a, <1>5 DEF ClosedCycle
<1>6. CASE Reuse(r)
  BY <1>a, <1>6 DEF Reuse
<1>7. CASE \E answered \in BOOLEAN : Reserve(r, answered)
  BY <1>a, <1>7 DEF Reserve
<1>8. CASE Superseded(r)
  BY <1>a, <1>8 DEF Superseded
<1>9. CASE Reused(r)
  BY <1>a, <1>9 DEF Reused
<1>10. CASE Publish(r)
  BY <1>a, <1>10 DEF Publish
<1>11. CASE Promote(r)
  BY <1>a, <1>11 DEF Promote
<1>12. CASE Stage(r)
  BY <1>a, <1>12 DEF Stage
<1>13. CASE Begin(r)
  BY <1>a, <1>13 DEF Begin
<1>14. CASE \E answered \in BOOLEAN : Spend(r, answered)
  BY <1>a, <1>14 DEF Spend
<1>15. CASE \E answered \in BOOLEAN : CreateTag(r, answered)
  BY <1>a, <1>15 DEF CreateTag
<1>16. CASE \E answered \in BOOLEAN : Create(r, answered)
  BY <1>a, <1>16 DEF Create, Appends
<1>17. CASE \E answered \in BOOLEAN : MakePublic(r, answered)
  <2> DEFINE i == release[r]
  <2>1. i \in DOMAIN releases /\ releases[i] \in Drafts /\ releases[i].state # "deleted"
        /\ releases' = [releases EXCEPT ![i] = [releases[i] EXCEPT !.state = "public"]]
        /\ tags' = tags
    BY <1>0, <1>17 DEF MakePublic, Placed
  <2>2. InPlace
    BY <1>b, <2>1 DEF Drafts
  <2> QED BY <2>1, <2>2
<1>18. CASE CreateLost(r)
  BY <1>a, <1>18 DEF CreateLost
<1>19. CASE Readback(r)
  BY <1>a, <1>19 DEF Readback
<1>20. CASE Upload(r)
  <2> DEFINE i == release[r]
  <2>1. /\ i \in DOMAIN releases /\ releases[i] \in Drafts /\ releases[i].state # "deleted"
        /\ releases' = [releases EXCEPT ![i] =
                          [releases[i] EXCEPT !.state = "full", !.bytes = staged[r]]]
        /\ tags' = tags /\ pc[r] = "upload"
    BY <1>0, <1>20 DEF Upload, Placed
  <2>2. InPlace
    BY <1>b, <2>1 DEF Drafts
  <2> QED BY <2>1, <2>2
<1>21. CASE Confirm(r)
  BY <1>a, <1>21 DEF Confirm
<1>22. CASE StoreEvidence(r)
  BY <1>a, <1>22 DEF StoreEvidence
<1> QED BY <1>1, <1>2, <1>3, <1>4, <1>5, <1>6, <1>7, <1>8, <1>9, <1>10, <1>11, <1>12,
           <1>13, <1>14, <1>15, <1>16, <1>17, <1>18, <1>19, <1>20, <1>21, <1>22 DEF Step
\* Maintainers work in place, too.
LEMMA KeptInPlace ==
    ASSUME ReleaseAssumption, Typed, \A r \in Run : Placed(r), [Next]_vars
    PROVE  /\ InPlace \/ \E r \in Run : Step(r) /\ Appends(r)
           /\ \/ tags' \subseteq tags
              \/ \E r \in Run : Step(r) /\ pc[r] = "tag" /\ tags' = tags \cup {plan[r].tag}
<1>1. CASE \E r \in Run : Step(r)
  BY <1>1, ReleaseKinds
<1>2. CASE Maintenance
  BY <1>2, Maintained DEF InPlace
<1>3. CASE UNCHANGED vars
  BY <1>3 DEF InPlace
<1> QED BY <1>1, <1>2, <1>3 DEF Next, Maintenance

\* A draft that is created comes last.
LEMMA Appended ==
    ASSUME Typed, NEW r \in Run, Appends(r)
    PROVE  LET n == Len(releases) + 1 IN
           /\ n \in Nat /\ n \notin DOMAIN releases /\ DOMAIN releases' = DOMAIN releases \cup {n}
           /\ releases'[n] = Draft(r)
           /\ \A i \in DOMAIN releases : i < n /\ releases'[i] = releases[i]
<1>1. releases \in Seq(Drafts) /\ Len(releases) \in Nat /\ DOMAIN releases = 1..Len(releases)
  BY ReleasesTyped DEF Typed
<1> QED BY <1>1 DEF Appends

\* Sequence numbers stay bounded.
LEMMA BoundedStep ==
    ASSUME ReleaseAssumption, Typed, ReadBefore, Bounded, Reservations,
           \A r \in Run : Placed(r) /\ Spending(r), [Next]_vars
    PROVE  Bounded'
<1>1. PICK b \in Nat : BoundedBy(b)
  BY DEF Bounded
<1>2. \E c \in Nat : b <= c /\ \A t \in tags' : t.sequence <= c
  <2>0. \A t \in tags : t.sequence \in Nat /\ t.sequence <= b
    BY <1>1 DEF BoundedBy, Typed, Tagged
  <2>1. CASE tags' \subseteq tags
    BY <2>0, <2>1
  <2>2. ASSUME NEW r \in Run, pc[r] = "tag", tags' = tags \cup {plan[r].tag}
        PROVE  \E c \in Nat : b <= c /\ \A t \in tags' : t.sequence <= c
    <3>1. plan[r].tag.sequence \in Nat
      BY <2>2, OwnNumbered DEF Placed, Committed, Planned, Tagged
    <3> DEFINE c == b + plan[r].tag.sequence
    <3>2. c \in Nat /\ b <= c /\ plan[r].tag.sequence <= c
      BY <3>1
    <3> HIDE DEF c
    <3>3. \A t \in tags' : t.sequence <= c
      BY <2>0, <2>2, <3>2
    <3> QED BY <3>2, <3>3
  <2> QED BY <2>1, <2>2, KeptInPlace
<1>3. PICK c \in Nat : b <= c /\ \A t \in tags' : t.sequence <= c
  BY <1>2
<1>4. \E d \in Nat : c <= d /\ \A i \in DOMAIN releases' : releases'[i].tag.sequence <= d
  <2>0. \A i \in DOMAIN releases : releases[i].tag.sequence \in Nat /\ releases[i].tag.sequence <= c
    BY <1>1, <1>3, ReleasesTyped DEF BoundedBy, Tagged
  <2>1. CASE InPlace
    BY <2>0, <2>1 DEF InPlace
  <2>2. ASSUME NEW r \in Run, Appends(r)
        PROVE  \E d \in Nat : c <= d /\ \A i \in DOMAIN releases' : releases'[i].tag.sequence <= d
    <3>1. plan[r].tag.sequence \in Nat
      BY <2>2, OwnNumbered DEF Appends, Placed, Committed, Planned, Tagged
    <3> DEFINE d == c + plan[r].tag.sequence
    <3>2. d \in Nat /\ c <= d /\ plan[r].tag.sequence <= d
      BY <3>1
    <3> HIDE DEF d
    <3> DEFINE n == Len(releases) + 1
    <3>3. /\ DOMAIN releases' = DOMAIN releases \cup {n} /\ releases'[n] = Draft(r)
          /\ \A i \in DOMAIN releases : releases'[i] = releases[i]
      BY <2>2, Appended
    <3>4. Draft(r).tag = plan[r].tag
      BY DEF Draft
    <3> HIDE DEF n
    <3>5. \A i \in DOMAIN releases' : releases'[i].tag.sequence <= d
      BY <2>0, <3>2, <3>3, <3>4
    <3> QED BY <3>2, <3>5
  <2> QED BY <2>1, <2>2, KeptInPlace
<1>5. PICK d \in Nat : c <= d /\ \A i \in DOMAIN releases' : releases'[i].tag.sequence <= d
  BY <1>4
<1>6. \E e \in Nat : d <= e /\ \A q \in Plans' : ledger'.plans[q].tag.sequence <= e
  <2>0. \A q \in Plans : ledger.plans[q].tag.sequence \in Nat /\ ledger.plans[q].tag.sequence <= d
    BY <1>1, <1>3, <1>5 DEF BoundedBy, Plans, Typed, Ledgers, Planned, Tagged
  <2>1. CASE ledger'.plans = ledger.plans
    BY <2>0, <2>1 DEF Plans
  <2>2. ASSUME NEW r \in Run, NewPlan(r) \in Planned,
               ledger'.plans = [ledger.plans EXCEPT ![r] = NewPlan(r)]
        PROVE  \E e \in Nat : d <= e /\ \A q \in Plans' : ledger'.plans[q].tag.sequence <= e
    <3> DEFINE p == NewPlan(r)
    <3>1. p.tag.sequence \in Nat
      BY <2>2 DEF Planned, Tagged
    <3>0. ledger.plans \in [Run -> Planned \cup {NoPlan}]
      BY DEF Typed, Ledgers
    <3>2. /\ ledger'.plans[r] = p
          /\ \A q \in Plans' : q # r => q \in Plans /\ ledger'.plans[q] = ledger.plans[q]
      BY <2>2, <3>0 DEF Plans
    <3> DEFINE e == d + p.tag.sequence
    <3>3. e \in Nat /\ d <= e /\ p.tag.sequence <= e
      BY <3>1
    <3> HIDE DEF p, e
    <3>4. \A q \in Plans' : ledger'.plans[q].tag.sequence <= e
      BY <2>0, <3>2, <3>3
    <3> QED BY <3>3, <3>4
  <2>3. ASSUME NEW r \in Run, Step(r)
        PROVE  \E e \in Nat : d <= e /\ \A q \in Plans' : ledger'.plans[q].tag.sequence <= e
    BY <2>1, <2>2, <2>3, LedgerMoves
  <2>4. CASE Maintenance
    BY <2>1, <2>4, Maintained
  <2>5. CASE UNCHANGED vars
    BY <2>1, <2>5
  <2> QED BY <2>3, <2>4, <2>5 DEF Next, Maintenance
<1>7. PICK e \in Nat : d <= e /\ \A q \in Plans' : ledger'.plans[q].tag.sequence <= e
  BY <1>6
<1>8. \A t \in tags' : t.sequence \in Nat
  BY TypedStep DEF Typed, Tagged
<1>9. \A i \in DOMAIN releases' : releases'[i].tag.sequence \in Nat
  <2>1. Typed'
    BY TypedStep
  <2>2. \A i \in DOMAIN releases' : releases'[i] \in Drafts
    BY <2>1 DEF Typed
  <2> QED BY <2>2 DEF Drafts, Tagged
<1>10. c <= e /\ d <= e
  BY <1>3, <1>5, <1>7
<1>11. BoundedBy(e)'
  BY <1>3, <1>5, <1>7, <1>8, <1>9, <1>10 DEF BoundedBy
<1> QED BY <1>11 DEF Bounded

-----------------------------------------------------------------------------
(* Where a run stands                                                      *)

\* The plan a run publishes stays what it is.
LEMMA OwnPlanKept ==
    ASSUME Typed, NothingForgotten, [Next]_vars, NEW q \in Run, Placed(q), pc[q] # "idle",
           ~Promoting(q) => q \in Plans
    PROVE  OwnPlan(q)' = OwnPlan(q)
<1>1. input'[q] = input[q] /\ Promoting(q)' = Promoting(q)
  BY Fixed
<1>2. CASE Promoting(q)
  <2>1. input[q] \in Plans
    BY <1>2, PromotedTyped
  <2>2. ledger'.plans[input[q]] = ledger.plans[input[q]]
    BY <2>1 DEF NothingForgotten
  <2> QED BY <1>1, <1>2, <2>2 DEF OwnPlan
<1>3. CASE ~Promoting(q)
  <2>1. ledger'.plans[q] = ledger.plans[q]
    BY <1>3 DEF NothingForgotten
  <2> QED BY <1>1, <1>3, <2>1 DEF OwnPlan
<1> QED BY <1>2, <1>3

\* The place of a run whose job does not change.
LEMMA PlacedElsewhere ==
    ASSUME Typed, Reservations, NothingForgotten, [Next]_vars, NEW q \in Run, Placed(q),
           DOMAIN releases \subseteq DOMAIN releases',
           pc'[q] = pc[q], trigger'[q] = trigger[q], input'[q] = input[q],
           plan'[q] = plan[q], release'[q] = release[q]
    PROVE  Placed(q)'
<1>1. CASE pc[q] = "idle"
  BY <1>1 DEF Placed, Committed
<1>2. CASE pc[q] # "idle"
  <2>1. Channel(q)' = Channel(q) /\ Promoting(q)' = Promoting(q)
    BY <1>2, Fixed
  <2>2. plan[q] # NoPlan => OwnPlan(q)' = OwnPlan(q)
    BY <1>2, OwnNumbered, OwnPlanKept
  <2>3. Channel(q) = "stable" => ledger'.plans[input[q]] # NoPlan
    BY <1>2 DEF Placed, NothingForgotten, Plans
  <2> QED BY <1>2, <2>1, <2>2, <2>3 DEF Placed
<1> QED BY <1>1, <1>2

\* A step of a run takes it to a place.
LEMMA PlacedByRun ==
    ASSUME ReleaseAssumption, Typed, ReadBefore, Bounded, Reservations, NothingForgotten,
           [Next]_vars, NEW r \in Run, Placed(r), Step(r),
           DOMAIN releases \subseteq DOMAIN releases'
    PROVE  Placed(r)'
<1>0. pc[r] # "idle" =>
        /\ trigger'[r] = trigger[r] /\ input'[r] = input[r]
        /\ Channel(r)' = Channel(r) /\ Promoting(r)' = Promoting(r) /\ trigger[r] \in Occasions
        /\ plan[r] # NoPlan => OwnPlan(r)' = OwnPlan(r) /\ plan[r] = OwnPlan(r)
        /\ Channel(r) = "stable" => input[r] \in Run /\ ledger'.plans[input[r]] # NoPlan
  BY Fixed, OwnNumbered, OwnPlanKept DEF Placed, NothingForgotten, Plans
<1>a. ASSUME pc[r] # "idle", pc'[r] # "idle", plan'[r] # NoPlan => plan'[r] = OwnPlan(r)',
             pc'[r] \in {"publish", "begin", "spend"} \cup Committed => plan'[r] # NoPlan,
             pc'[r] \in {"promote", "stage"} => Promoting(r),
             pc'[r] \in {"reserve", "publish", "readback", "evidence"} => ~Promoting(r),
             pc'[r] \in {"upload", "confirm", "public"} => release'[r] \in DOMAIN releases'
      PROVE  Placed(r)'
  BY <1>0, <1>a DEF Placed
<1> USE DEF Typed, Workspaces
<1>1. CASE \E t \in Triggers, rc \in Run \cup {NoRun} : Start(r, t, rc)
  <2>1. PICK t \in Triggers, rc \in Run \cup {NoRun} : Start(r, t, rc)
    BY <1>1
  <2>2. /\ pc'[r] = "prepare" /\ trigger'[r] = t /\ input'[r] = rc /\ plan'[r] = NoPlan
        /\ t[2] = "stable" => rc \in Run /\ ledger'.plans[rc] # NoPlan
        /\ t \in Occasions
    BY <2>1 DEF Start, Placed, ReleaseAssumption
  <2> QED BY <2>2 DEF Placed, Channel, Committed
<1>2. CASE \E all \in BOOLEAN : Rerun(r, all)
  BY <1>0, <1>2 DEF Rerun, Placed, Committed
<1>3. CASE Fail(r)
  <2>1. pc[r] # "idle" /\ pc'[r] = "failed" /\ plan' = plan
    BY <1>3 DEF Fail, Active, Stages
  <2> QED BY <1>0, <1>a, <2>1 DEF Committed
<1>4. CASE Prepare(r)
  BY <1>0, <1>4 DEF Prepare, Placed, Committed
<1>5. CASE ClosedCycle(r)
  BY <1>0, <1>5 DEF ClosedCycle, Placed, Committed
<1>6. CASE Reuse(r)
  <2>1. pc[r] = "reserve" /\ pc'[r] = "publish" /\ plan'[r] = copy[r].plans[r]
        /\ copy[r].plans[r] # NoPlan /\ ledger' = ledger
    BY <1>6 DEF Reuse
  <2>2. ~Promoting(r) /\ copy[r].plans[r] = ledger.plans[r]
    BY <2>1 DEF ReadBefore, Placed
  <2>3. OwnPlan(r)' = plan'[r]
    BY <1>0, <2>1, <2>2 DEF OwnPlan
  <2> QED BY <1>a, <2>1, <2>2, <2>3
<1>7. CASE \E answered \in BOOLEAN : Reserve(r, answered)
  <2>1. PICK answered \in BOOLEAN : Reserve(r, answered)
    BY <1>7
  <2>2. /\ pc[r] = "reserve" /\ pc'[r] = (IF answered THEN "publish" ELSE "failed")
        /\ plan'[r] = IF answered THEN NewPlan(r) ELSE plan[r]
    BY <2>1 DEF Reserve
  <2>3. copy[r] = ledger /\ ledger'.plans = [ledger.plans EXCEPT ![r] = NewPlan(r)]
    <3>1. /\ copy[r] = ledger
          /\ ledger' = [rev |-> ledger.rev + 1, counter |-> ledger.counter + 1,
                        floor |-> ledger.floor, plans |-> [ledger.plans EXCEPT ![r] = NewPlan(r)]]
      BY <2>1, ReserveWrites
    <3> QED BY <3>1
  <2>4. ~Promoting(r) /\ NewPlan(r) # NoPlan
    <3>1. NewPlan(r) \in Planned
      BY <1>0, <2>2, <2>3, NewPlanTyped
    <3> QED BY <2>2, <3>1 DEF Planned, NoPlan, Placed
  <2>5. ledger'.plans[r] = NewPlan(r)
    <3>1. ledger.plans \in [Run -> Planned \cup {NoPlan}]
      BY DEF Ledgers
    <3> QED BY <2>3, <3>1
  <2>6. OwnPlan(r)' = NewPlan(r)
    BY <1>0, <2>2, <2>4, <2>5 DEF OwnPlan
  <2> QED BY <1>0, <1>a, <2>2, <2>4, <2>6 DEF Committed
<1>8. CASE Superseded(r)
  <2>1. pc[r] # "idle" /\ pc'[r] = "succeeded" /\ plan' = plan
    BY <1>8 DEF Superseded, Publishable
  <2> QED BY <1>0, <1>a, <2>1 DEF Committed
<1>9. CASE Reused(r)
  <2>1. pc[r] # "idle" /\ pc'[r] = "succeeded" /\ plan' = plan
    BY <1>9 DEF Reused, Publishable
  <2> QED BY <1>0, <1>a, <2>1 DEF Committed
<1>10. CASE Publish(r)
  <2>1. pc[r] = "publish" /\ pc'[r] = "begin" /\ plan' = plan /\ plan[r] # NoPlan
    BY <1>10 DEF Publish, Publishable, Placed
  <2> QED BY <1>0, <1>a, <2>1 DEF Committed
<1>11. CASE Promote(r)
  BY <1>0, <1>11 DEF Promote, Placed, Committed
<1>12. CASE Stage(r)
  <2>1. Promoting(r) /\ OwnPlan(r) \in Planned /\ pc[r] = "stage" /\ pc'[r] = "begin"
    BY <1>12, PromotedTyped DEF Stage, Placed
  <2>2. plan'[r] = OwnPlan(r) /\ UNCHANGED ledger
    BY <1>12, <2>1 DEF Stage, OwnPlan
  <2>3. OwnPlan(r)' = OwnPlan(r)
    BY <1>0, <2>1, <2>2 DEF OwnPlan
  <2>4. OwnPlan(r) # NoPlan
    BY <2>1 DEF Planned, NoPlan
  <2> QED BY <1>a, <2>1, <2>2, <2>3, <2>4 DEF Committed
<1>13. CASE Begin(r)
  BY <1>0, <1>13 DEF Begin, Placed, Committed
<1>14. CASE \E answered \in BOOLEAN : Spend(r, answered)
  BY <1>0, <1>14 DEF Spend, Placed, Committed
<1>15. CASE \E answered \in BOOLEAN : CreateTag(r, answered)
  BY <1>0, <1>15 DEF CreateTag, Placed, Committed
<1>16. CASE \E answered \in BOOLEAN : Create(r, answered)
  BY <1>0, <1>16 DEF Create, Placed, Committed
<1>17. CASE \E answered \in BOOLEAN : MakePublic(r, answered)
  BY <1>0, <1>17 DEF MakePublic, Placed, Committed
<1>18. CASE CreateLost(r)
  BY <1>0, <1>18 DEF CreateLost, Placed, Committed
<1>19. CASE Readback(r)
  <2>1. /\ pc[r] = "readback" /\ pc'[r] = "upload" /\ plan' = plan /\ plan[r] # NoPlan
        /\ release'[r] \in DOMAIN releases'
    BY <1>19 DEF Readback, Alive, Placed, Committed
  <2> QED BY <1>0, <1>a, <2>1 DEF Committed
<1>20. CASE Upload(r)
  BY <1>0, <1>20 DEF Upload, Placed, Committed
<1>21. CASE Confirm(r)
  BY <1>0, <1>21 DEF Confirm, Placed, Committed
<1>22. CASE StoreEvidence(r)
  BY <1>0, <1>22 DEF StoreEvidence, Placed, Committed
<1> QED BY <1>1, <1>2, <1>3, <1>4, <1>5, <1>6, <1>7, <1>8, <1>9, <1>10, <1>11, <1>12,
           <1>13, <1>14, <1>15, <1>16, <1>17, <1>18, <1>19, <1>20, <1>21, <1>22 DEF Step
\* Releases are never forgotten.
LEMMA Grows ==
    ASSUME ReleaseAssumption, Typed, \A r \in Run : Placed(r), [Next]_vars
    PROVE  DOMAIN releases \subseteq DOMAIN releases'
BY KeptInPlace, Appended DEF InPlace

\* Every run has its place.
LEMMA PlacedStep ==
    ASSUME ReleaseAssumption, Typed, ReadBefore, Bounded, Reservations,
           \A r \in Run : Placed(r) /\ Spending(r), [Next]_vars
    PROVE  \A r \in Run : Placed(r)'
<1>0. NothingForgotten /\ DOMAIN releases \subseteq DOMAIN releases'
  BY NothingForgottenStep, Grows
<1>1. ASSUME NEW r \in Run, Step(r), NEW q \in Run PROVE Placed(q)'
  <2>1. CASE q = r
    BY <1>0, <1>1, <2>1, PlacedByRun
  <2>2. CASE q # r
    BY <1>0, <1>1, <2>2, Frame, PlacedElsewhere DEF Elsewhere
  <2> QED BY <2>1, <2>2
<1>2. ASSUME UNCHANGED Jobs, NEW q \in Run PROVE Placed(q)'
  BY <1>0, <1>2, PlacedElsewhere
<1>3. Maintenance => UNCHANGED Jobs
  BY DEF Maintenance, HeadMoves, ReplaceAsset, Discard
<1> QED BY <1>1, <1>2, <1>3 DEF Next, Maintenance

\* A draft belongs to the plan of the run that created it, and a run creates one.
LEMMA DraftedStep ==
    ASSUME ReleaseAssumption, Typed, ReadBefore, Bounded, Reservations,
           \A r \in Run : Placed(r) /\ Spending(r), Drafted, [Next]_vars
    PROVE  Drafted'
<1>0. /\ NothingForgotten /\ ledger.floor \in Nat /\ ledger'.floor \in Nat
      /\ \A i \in DOMAIN releases : releases[i].by \in Run /\ releases[i].number \in Nat
  BY NothingForgottenStep, TypedStep, ReleasesTyped DEF Typed, Ledgers
<1>1. ASSUME NEW i \in DOMAIN releases, NEW r \in Run, releases[i].by = r
      PROVE  /\ pc'[r] # "idle" /\ OwnPlan(r)' # NoPlan /\ Promoting(r)' = Promoting(r)
             /\ releases[i].number = OwnPlan(r)'.number /\ releases[i].tag = OwnPlan(r)'.tag
             /\ releases[i].number <= ledger'.floor
             /\ ~Promoting(r) => \A j \in DOMAIN releases : releases[j].by = r => j = i
  <2>1. /\ pc[r] # "idle" /\ OwnPlan(r) # NoPlan
        /\ releases[i].number = OwnPlan(r).number /\ releases[i].tag = OwnPlan(r).tag
        /\ releases[i].number <= ledger.floor
        /\ ~Promoting(r) => \A j \in DOMAIN releases : releases[j].by = r => j = i
    BY <1>1 DEF Drafted
  <2>2. pc'[r] # "idle" /\ Promoting(r)' = Promoting(r)
    BY <2>1, Fixed
  <2>3. OwnPlan(r)' = OwnPlan(r)
    <3>1. ~Promoting(r) => r \in Plans
      BY <2>1 DEF OwnPlan, Plans
    <3> QED BY <1>0, <2>1, <3>1, OwnPlanKept
  <2>4. releases[i].number <= ledger'.floor
    BY <1>0, <2>1 DEF NothingForgotten
  <2> QED BY <2>1, <2>2, <2>3, <2>4
<1>2. CASE InPlace
  BY <1>0, <1>1, <1>2 DEF InPlace, Drafted
<1>3. ASSUME NEW r \in Run, Step(r), Appends(r) PROVE Drafted'
  <2> DEFINE n == Len(releases) + 1
  <2>1. /\ n \notin DOMAIN releases /\ DOMAIN releases' = DOMAIN releases \cup {n}
        /\ releases'[n] = Draft(r) /\ \A i \in DOMAIN releases : releases'[i] = releases[i]
    BY <1>3, Appended
  <2> HIDE DEF n
  <2>2. pc[r] = "create" /\ ledger' = ledger /\ plan[r] # NoPlan /\ plan[r].number <= ledger.floor
    BY <1>3 DEF Appends, Placed, Spending, Committed
  <2>3. pc'[r] # "idle" /\ OwnPlan(r)' = plan[r] /\ Promoting(r)' = Promoting(r)
    BY <1>0, <2>2, Fixed, OwnNumbered, OwnPlanKept
  <2>4. ~Promoting(r) => \A i \in DOMAIN releases : releases[i].by # r
    BY <2>2 DEF Spending
  <2>5. Draft(r).by = r /\ Draft(r).number = plan[r].number /\ Draft(r).tag = plan[r].tag
    BY DEF Draft
  <2> QED BY <1>0, <1>1, <2>1, <2>2, <2>3, <2>4, <2>5 DEF Drafted
<1> QED BY <1>2, <1>3, KeptInPlace
\* What a run does to its own job, as far as its number goes.
LEMMA SpendingKinds ==
    ASSUME Typed, NEW r \in Run, Placed(r), Step(r)
    PROVE  \/ Begin(r)
           \/ \E answered \in BOOLEAN : Spend(r, answered)
           \/ pc'[r] \notin {"spend"} \cup Committed
           \/ pc[r] \in Committed /\ plan' = plan /\ ledger' = ledger /\ pc'[r] # "spend"
              /\ (pc'[r] \in {"tag", "create"} => pc[r] = "tag" /\ releases' = releases)
<1> USE DEF Typed, Workspaces, Placed, Committed
<1>1. CASE \E t \in Triggers, rc \in Run \cup {NoRun} : Start(r, t, rc)
  BY <1>1 DEF Start, Stages
<1>2. CASE \E all \in BOOLEAN : Rerun(r, all)
  BY <1>2 DEF Rerun, Stages
<1>3. CASE Fail(r)
  BY <1>3 DEF Fail, Blank, Stages
<1>4. CASE Prepare(r)
  BY <1>4 DEF Prepare, Stages
<1>5. CASE ClosedCycle(r)
  BY <1>5 DEF ClosedCycle, Stages
<1>6. CASE Reuse(r)
  BY <1>6 DEF Reuse, Stages
<1>7. CASE \E answered \in BOOLEAN : Reserve(r, answered)
  BY <1>7 DEF Reserve, Stages
<1>8. CASE Superseded(r)
  BY <1>8 DEF Superseded, Stages
<1>9. CASE Reused(r)
  BY <1>9 DEF Reused, Stages
<1>10. CASE Publish(r)
  BY <1>10 DEF Publish, Stages
<1>11. CASE Promote(r)
  BY <1>11 DEF Promote, Stages
<1>12. CASE Stage(r)
  BY <1>12 DEF Stage, Stages
<1>13. CASE Begin(r)
  BY <1>13 DEF Begin, Stages
<1>14. CASE \E answered \in BOOLEAN : Spend(r, answered)
  BY <1>14 DEF Spend, Stages
<1>15. CASE \E answered \in BOOLEAN : CreateTag(r, answered)
  BY <1>15 DEF CreateTag, Stages
<1>16. CASE \E answered \in BOOLEAN : Create(r, answered)
  BY <1>16 DEF Create, Stages
<1>17. CASE \E answered \in BOOLEAN : MakePublic(r, answered)
  BY <1>17 DEF MakePublic, Stages
<1>18. CASE CreateLost(r)
  BY <1>18 DEF CreateLost, Stages
<1>19. CASE Readback(r)
  BY <1>19 DEF Readback, Stages
<1>20. CASE Upload(r)
  BY <1>20 DEF Upload, Stages
<1>21. CASE Confirm(r)
  BY <1>21 DEF Confirm, Stages
<1>22. CASE StoreEvidence(r)
  BY <1>22 DEF StoreEvidence, Stages
<1> QED BY <1>1, <1>2, <1>3, <1>4, <1>5, <1>6, <1>7, <1>8, <1>9, <1>10, <1>11, <1>12,
           <1>13, <1>14, <1>15, <1>16, <1>17, <1>18, <1>19, <1>20, <1>21, <1>22 DEF Step
\* A number is spent once, above those spent before, and only then drafted.
LEMMA SpendingStep ==
    ASSUME ReleaseAssumption, Typed, ReadBefore, Bounded, Reservations,
           \A r \in Run : Placed(r) /\ Spending(r), Drafted, [Next]_vars
    PROVE  \A r \in Run : Spending(r)'
<1>0. /\ NothingForgotten /\ ledger.floor \in Nat /\ ledger'.floor \in Nat
      /\ \A q \in Run : plan[q].number \in Nat /\ copy[q].floor \in Nat
  <2>1. NothingForgotten /\ Typed'
    BY NothingForgottenStep, TypedStep
  <2>2. ledger.floor \in Nat /\ ledger'.floor \in Nat
    BY <2>1 DEF Typed, Ledgers
  <2>3. ASSUME NEW q \in Run PROVE plan[q].number \in Nat /\ copy[q].floor \in Nat
    <3>1. plan[q] \in Planned \cup {NoPlan} /\ copy[q] \in Ledgers
      BY DEF Typed, Workspaces
    <3> QED BY <3>1 DEF Planned, NoPlan, Ledgers
  <2> QED BY <2>1, <2>2, <2>3
<1>1. \A q \in Run : pc[q] # "idle" => Promoting(q)' = Promoting(q)
  BY Fixed
<1>2. ASSUME NEW q \in Run, \A i \in DOMAIN releases : releases[i].by # q,
             InPlace \/ \E r \in Run \ {q} : Appends(r)
      PROVE  \A i \in DOMAIN releases' : releases'[i].by # q
  <2>1. CASE InPlace
    BY <1>2, <2>1 DEF InPlace
  <2>2. ASSUME NEW r \in Run \ {q}, Appends(r) PROVE \A i \in DOMAIN releases' : releases'[i].by # q
    <3> DEFINE n == Len(releases) + 1
    <3>1. /\ DOMAIN releases' = DOMAIN releases \cup {n} /\ releases'[n] = Draft(r)
          /\ \A i \in DOMAIN releases : releases'[i] = releases[i]
      BY <2>2, Appended
    <3>2. Draft(r).by = r
      BY DEF Draft
    <3> HIDE DEF n
    <3> QED BY <1>2, <3>1, <3>2
  <2> QED BY <1>2, <2>1, <2>2
<1>3. ASSUME NEW q \in Run, pc'[q] = pc[q], copy'[q] = copy[q], plan'[q] = plan[q],
             InPlace \/ \E r \in Run \ {q} : Appends(r)
      PROVE  Spending(q)'
  <2>1. pc[q] \in {"spend"} \cup Committed => Promoting(q)' = Promoting(q)
    BY <1>1 DEF Committed
  <2>2. ledger.floor <= ledger'.floor
    BY <1>0 DEF NothingForgotten
  <2>3. pc[q] \in {"tag", "create"} /\ ~Promoting(q) =>
          \A i \in DOMAIN releases' : releases'[i].by # q
    BY <1>2, <1>3 DEF Spending
  <2>4. pc[q] \in Committed => plan[q].number <= ledger'.floor
    BY <1>0, <2>2 DEF Spending
  <2>5. pc[q] = "spend" => /\ copy[q].floor <= plan[q].number
                           /\ ~Promoting(q) => copy[q].floor < plan[q].number
    BY DEF Spending
  <2>6. {"tag", "create"} \subseteq Committed
    BY DEF Committed
  <2> QED BY <1>3, <2>1, <2>3, <2>4, <2>5, <2>6 DEF Spending
<1>4. ASSUME NEW r \in Run, Step(r) PROVE Spending(r)'
  <2>1. CASE Begin(r)
    <3>1. pc[r] = "begin" /\ pc'[r] = "spend" /\ copy'[r] = ledger /\ plan' = plan
      BY <2>1 DEF Begin, Typed, Workspaces
    <3>2. plan[r] # NoPlan
      BY <3>1 DEF Placed
    <3>3. CASE Promoting(r)
      <4>1. Promotable(ledger, r) /\ plan[r].number = ledger.plans[input[r]].number
        BY <2>1, <3>2, <3>3, OwnNumbered DEF Begin
      <4>2. ledger.floor <= plan[r].number
        BY <1>0, <4>1 DEF Promotable
      <4> QED BY <1>1, <3>1, <3>3, <4>2 DEF Spending, Committed
    <3>4. CASE ~Promoting(r)
      <4>1. ledger.floor < plan[r].number
        BY <1>0, <2>1, <3>4 DEF Begin, Reserved
      <4>2. ledger.floor <= plan[r].number
        BY <1>0, <4>1
      <4> QED BY <1>1, <3>1, <3>4, <4>1, <4>2 DEF Spending, Committed
    <3> QED BY <3>3, <3>4
  <2>2. CASE \E answered \in BOOLEAN : Spend(r, answered)
    <3>1. PICK answered \in BOOLEAN : Spend(r, answered)
      BY <2>2
    <3>2. /\ pc[r] = "spend" /\ pc'[r] \in {"tag", "failed"} /\ plan' = plan /\ releases' = releases
      BY <3>1 DEF Spend, Typed, Workspaces
    <3>3. copy[r] = ledger /\ ledger'.floor = plan[r].number
      BY <3>1, SpendWrites
    <3>4. ledger'.floor = plan'[r].number /\ ledger'.floor <= ledger'.floor
      BY <1>0, <3>2, <3>3
    <3>5. ASSUME ~Promoting(r), NEW i \in DOMAIN releases, releases[i].by = r PROVE FALSE
      <4>1. plan[r] = OwnPlan(r) /\ releases[i].number = OwnPlan(r).number
        BY <3>2, <3>5, OwnNumbered DEF Placed, Drafted
      <4>2. releases[i].number <= ledger.floor /\ ledger.floor < plan[r].number
        BY <3>2, <3>3, <3>5 DEF Spending, Drafted
      <4> QED BY <1>0, <4>1, <4>2
    <3>6. Promoting(r)' = Promoting(r)
      BY <1>1, <3>2
    <3> QED BY <3>2, <3>4, <3>5, <3>6 DEF Spending
  <2>3. CASE pc'[r] \notin {"spend"} \cup Committed
    BY <2>3 DEF Spending, Committed
  <2>4. CASE /\ pc[r] \in Committed /\ plan' = plan /\ ledger' = ledger /\ pc'[r] # "spend"
             /\ pc'[r] \in {"tag", "create"} => pc[r] = "tag" /\ releases' = releases
    BY <1>1, <2>4 DEF Spending, Committed
  <2> QED BY <1>4, <2>1, <2>2, <2>3, <2>4, SpendingKinds
<1>5. ASSUME NEW r \in Run, Step(r), NEW q \in Run \ {r} PROVE Spending(q)'
  <2>1. InPlace \/ Appends(r)
    BY <1>5, ReleaseKinds
  <2> QED BY <1>3, <1>5, <2>1, Frame DEF Elsewhere
<1>6. ASSUME UNCHANGED Jobs, InPlace, NEW q \in Run PROVE Spending(q)'
  BY <1>3, <1>6
<1>7. Maintenance => UNCHANGED Jobs /\ InPlace
  BY Maintained DEF InPlace
<1>8. UNCHANGED vars => UNCHANGED Jobs /\ InPlace
  BY DEF InPlace
<1> QED BY <1>4, <1>5, <1>6, <1>7, <1>8 DEF Next, Maintenance
-----------------------------------------------------------------------------
(* The bytes of a promotion                                                *)

\* Where bytes are promoted, a candidate's tag leads to the run that reserved it.
LEMMA NamedBy ==
    ASSUME Typed, Reservations, Drafted, \A r \in Run : Placed(r), Promotion = "promote-bytes",
           NEW i \in DOMAIN releases, NEW q \in Plans, releases[i].tag = ledger.plans[q].tag
    PROVE  releases[i].by = q
<1>1. releases[i].by \in Run
  BY ReleasesTyped
<1>2. PICK r \in Run : r = releases[i].by
  BY <1>1
<1>3. pc[r] # "idle" /\ OwnPlan(r) # NoPlan /\ releases[i].tag = OwnPlan(r).tag
  BY <1>2 DEF Drafted
<1>4. q \in Run /\ ledger.plans[q].tag.channel # "stable"
  BY DEF Reservations, Promoting, Plans
<1>5. CASE Promoting(r)
  <2>1. OwnPlan(r).tag = Final(ledger.plans[input[r]].tag.base)
    BY <1>2, <1>3, <1>5, PromotedTyped
  <2>2. OwnPlan(r).tag.channel = "stable"
    BY <2>1 DEF Final, Tag
  <2> QED BY <1>3, <1>4, <2>2
<1>6. CASE ~Promoting(r)
  <2>1. r \in Plans /\ OwnPlan(r) = ledger.plans[r]
    BY <1>3, <1>6 DEF OwnPlan, Plans
  <2> QED BY <1>2, <1>3, <1>4, <2>1 DEF Reservations, DistinctPlans
<1> QED BY <1>5, <1>6

\* How a run comes by the bytes it stages.
LEMMA StagedKinds ==
    ASSUME Typed, NEW r \in Run, Placed(r), Step(r)
    PROVE  \/ Stage(r)
           \/ Readback(r)
           \/ pc'[r] \notin {"begin", "spend", "tag", "create", "readback", "upload"}
           \/ pc[r] # "idle" /\ pc'[r] = "begin" /\ ~Promoting(r)
           \/ /\ pc[r] \in {"begin", "spend", "tag"} /\ pc'[r] \in {"spend", "tag", "create"}
              /\ staged'[r] = staged[r] /\ InPlace
           \/ /\ pc[r] = "create" /\ pc'[r] = "readback" /\ staged'[r] = staged[r]
              /\ ~Promoting(r) /\ (InPlace \/ Appends(r))
           \/ /\ pc[r] = "create" /\ pc'[r] = "upload" /\ staged'[r] = staged[r] /\ Appends(r)
              /\ release'[r] = Len(releases) + 1
<1>a. releases' = releases => InPlace
  BY DEF InPlace
<1>b. InPlace \/ Appends(r)
  BY ReleaseKinds
<1> USE DEF Typed, Workspaces, Placed, Committed
<1>1. CASE \E t \in Triggers, rc \in Run \cup {NoRun} : Start(r, t, rc)
  BY <1>a, <1>b, <1>1 DEF Start
<1>2. CASE \E all \in BOOLEAN : Rerun(r, all)
  BY <1>a, <1>b, <1>2 DEF Rerun
<1>3. CASE Fail(r)
  BY <1>a, <1>b, <1>3 DEF Fail, Blank
<1>4. CASE Prepare(r)
  BY <1>a, <1>b, <1>4 DEF Prepare
<1>5. CASE ClosedCycle(r)
  BY <1>a, <1>b, <1>5 DEF ClosedCycle
<1>6. CASE Reuse(r)
  BY <1>a, <1>b, <1>6 DEF Reuse
<1>7. CASE \E answered \in BOOLEAN : Reserve(r, answered)
  BY <1>a, <1>b, <1>7 DEF Reserve
<1>8. CASE Superseded(r)
  BY <1>a, <1>b, <1>8 DEF Superseded, Publishable
<1>9. CASE Reused(r)
  BY <1>a, <1>b, <1>9 DEF Reused, Publishable
<1>10. CASE Publish(r)
  BY <1>a, <1>b, <1>10 DEF Publish, Publishable
<1>11. CASE Promote(r)
  BY <1>a, <1>b, <1>11 DEF Promote
<1>12. CASE Stage(r)
  BY <1>a, <1>b, <1>12 DEF Stage
<1>13. CASE Begin(r)
  BY <1>a, <1>b, <1>13 DEF Begin
<1>14. CASE \E answered \in BOOLEAN : Spend(r, answered)
  BY <1>a, <1>b, <1>14 DEF Spend
<1>15. CASE \E answered \in BOOLEAN : CreateTag(r, answered)
  BY <1>a, <1>b, <1>15 DEF CreateTag
<1>16. CASE \E answered \in BOOLEAN : Create(r, answered)
  BY <1>a, <1>b, <1>16 DEF Create, Appends
<1>17. CASE \E answered \in BOOLEAN : MakePublic(r, answered)
  BY <1>a, <1>b, <1>17 DEF MakePublic
<1>18. CASE CreateLost(r)
  BY <1>a, <1>b, <1>18 DEF CreateLost
<1>19. CASE Readback(r)
  BY <1>a, <1>b, <1>19 DEF Readback
<1>20. CASE Upload(r)
  BY <1>a, <1>b, <1>20 DEF Upload
<1>21. CASE Confirm(r)
  BY <1>a, <1>b, <1>21 DEF Confirm
<1>22. CASE StoreEvidence(r)
  BY <1>a, <1>b, <1>22 DEF StoreEvidence
<1> QED BY <1>1, <1>2, <1>3, <1>4, <1>5, <1>6, <1>7, <1>8, <1>9, <1>10, <1>11, <1>12,
           <1>13, <1>14, <1>15, <1>16, <1>17, <1>18, <1>19, <1>20, <1>21, <1>22 DEF Step
\* Where bytes are promoted, a release has the bytes it was drafted for or none, and
\* a promotion those of its candidate.
LEMMA CopiedStep ==
    ASSUME ReleaseAssumption, Typed, ReadBefore, Reservations, Promotion = "promote-bytes",
           \A r \in Run : Placed(r) /\ Spending(r), Drafted, Copied, [Next]_vars
    PROVE  Copied'
<1>0. /\ \A i \in DOMAIN releases : releases[i].by \in Run /\ pc[releases[i].by] # "idle"
      /\ \A q \in Run : pc[q] # "idle" => Promoting(q)' = Promoting(q) /\ input'[q] = input[q]
  BY ReleasesTyped, Fixed DEF Drafted
<1>1. ASSUME NEW r \in Run, Appends(r)
      PROVE  \E n \in Nat :
             /\ n = Len(releases) + 1 /\ n \notin DOMAIN releases
             /\ DOMAIN releases' = DOMAIN releases \cup {n}
             /\ releases'[n].by = r /\ releases'[n].built = staged[r]
             /\ releases'[n].bytes = <<NoRun, 0>>
             /\ \A i \in DOMAIN releases : releases'[i] = releases[i]
  <2> DEFINE n == Len(releases) + 1
  <2>1. /\ n \in Nat /\ n \notin DOMAIN releases /\ DOMAIN releases' = DOMAIN releases \cup {n}
        /\ releases'[n] = Draft(r) /\ \A i \in DOMAIN releases : releases'[i] = releases[i]
    BY <1>1, Appended
  <2>2. Draft(r).by = r /\ Draft(r).built = staged[r] /\ Draft(r).bytes = <<NoRun, 0>>
    BY DEF Draft
  <2>3. n = Len(releases) + 1
    OBVIOUS
  <2> HIDE DEF n
  <2> QED BY <2>1, <2>2, <2>3
<1> DEFINE Built(q, b) == \E k \in DOMAIN releases' : releases'[k].by = q /\ releases'[k].built = b
<1>2. ASSUME NEW q, NEW b, BuiltBy(q, b) PROVE Built(q, b)
  <2>1. PICK k \in DOMAIN releases : releases[k].by = q /\ releases[k].built = b
    BY <1>2 DEF BuiltBy
  <2>2. CASE InPlace
    BY <2>1, <2>2 DEF InPlace
  <2>3. CASE \E r \in Run : Appends(r)
    <3>1. k \in DOMAIN releases' /\ releases'[k] = releases[k]
      BY <1>1, <2>1, <2>3
    <3> QED BY <2>1, <3>1
  <2> QED BY <2>2, <2>3, KeptInPlace
<1>3. ASSUME NEW i \in DOMAIN releases,
             releases'[i].by = releases[i].by, releases'[i].built = releases[i].built,
             releases'[i].bytes \in {releases[i].bytes, <<NoRun, 0>>, releases[i].built}
      PROVE  Filled(i)'
  <2>1. PICK r \in Run : releases[i].by = r
    BY <1>0
  <2>2. Filled(i)
    BY DEF Copied
  <2>3. Promoting(r)' = Promoting(r) /\ input'[r] = input[r]
    BY <1>0, <2>1
  <2>4. Promoting(r) => Built(input[r], releases[i].built)
    BY <1>2, <2>1, <2>2 DEF Filled
  <2> QED BY <1>3, <2>1, <2>2, <2>3, <2>4 DEF Filled, BuiltBy
<1>4. \A i \in DOMAIN releases' : Filled(i)'
  <2>1. ASSUME InPlace, NEW i \in DOMAIN releases PROVE Filled(i)'
    <3>1. ASSUME NEW r \in Run, pc[r] = "upload", release[r] = i, releases'[i].bytes = staged[r]
          PROVE  releases'[i].bytes = releases[i].built
      BY <3>1 DEF Copied, Holding
    <3>2. releases'[i].bytes \in {releases[i].bytes, <<NoRun, 0>>, releases[i].built}
      BY <2>1, <3>1 DEF InPlace
    <3> QED BY <1>3, <2>1, <3>2 DEF InPlace
  <2>2. ASSUME NEW r \in Run, Appends(r), NEW i \in DOMAIN releases' PROVE Filled(i)'
    <3>1. PICK n \in Nat :
             /\ DOMAIN releases' = DOMAIN releases \cup {n}
             /\ releases'[n].by = r /\ releases'[n].built = staged[r]
             /\ releases'[n].bytes = <<NoRun, 0>>
             /\ \A j \in DOMAIN releases : releases'[j] = releases[j]
      BY <1>1, <2>2
    <3>2. CASE i \in DOMAIN releases
      BY <1>3, <3>1, <3>2
    <3>3. CASE i = n
      <4>1. pc[r] = "create" /\ Promoting(r)' = Promoting(r) /\ input'[r] = input[r]
        BY <1>0, <2>2 DEF Appends
      <4>2. Promoting(r) => Built(input[r], staged[r])
        BY <1>2, <4>1 DEF Copied, Holding
      <4> QED BY <3>1, <3>3, <4>1, <4>2 DEF Filled, BuiltBy
    <3> QED BY <2>2, <3>1, <3>2, <3>3
  <2> QED BY <2>1, <2>2, KeptInPlace DEF InPlace
<1>5. ASSUME NEW q \in Run, pc'[q] = pc[q], staged'[q] = staged[q], release'[q] = release[q],
             InPlace \/ \E r \in Run \ {q} : Appends(r)
      PROVE  Holding(q)'
  <2>1. Promoting(q)' /\ pc[q] \in {"begin", "spend", "tag", "create"} => Built(input[q], staged[q])
    BY <1>0, <1>2 DEF Copied, Holding
  <2>2. pc[q] \in {"begin", "spend", "tag", "create"} => input'[q] = input[q]
    BY <1>0
  <2>3. pc[q] = "upload" => release[q] \in DOMAIN releases /\ releases[release[q]].built = staged[q]
    BY DEF Copied, Holding, Placed
  <2>4. pc[q] = "readback" =>
          \A i \in DOMAIN releases : releases[i].by = q => releases[i].built = staged[q]
    BY DEF Copied, Holding
  <2>5. \A i \in DOMAIN releases : /\ releases'[i].by = releases[i].by
                                    /\ releases'[i].built = releases[i].built
    BY <1>1, <1>5 DEF InPlace
  <2>6. \A i \in DOMAIN releases' : i \in DOMAIN releases \/ releases'[i].by # q
    BY <1>1, <1>5 DEF InPlace
  <2> QED BY <1>5, <2>1, <2>2, <2>3, <2>4, <2>5, <2>6 DEF Holding, BuiltBy
<1>6. ASSUME NEW r \in Run, Step(r) PROVE Holding(r)'
  <2>1. CASE Stage(r)
    <3>1. /\ pc[r] = "stage" /\ pc'[r] = "begin" /\ releases' = releases
          /\ Promoting(r) /\ Accepted(r)
          /\ staged'[r] = releases[Rc(r)].bytes /\ input'[r] = input[r]
      BY <2>1 DEF Stage, Placed, Typed, Workspaces
    <3>2. input[r] \in Run /\ input[r] \in Plans
      BY <3>1 DEF Placed, Plans, Promoting
    <3>3. PICK i \in DOMAIN releases : i = Rc(r) /\ releases[i].tag = ledger.plans[input[r]].tag
      BY <3>1, RcFound
    <3>4. releases[i].by = input[r]
      BY <3>2, <3>3, NamedBy
    <3>5. releases[i].bytes = <<input[r], evidence[input[r]]>>
      BY <3>1, <3>3 DEF Accepted
    <3>6. releases[i].bytes # <<NoRun, 0>>
      BY <3>2, <3>5 DEF ReleaseAssumption
    <3>7. releases[i].built = staged'[r]
      BY <3>1, <3>3, <3>6 DEF Copied, Filled
    <3>8. BuiltBy(input[r], staged[r])'
      BY <3>1, <3>4, <3>7 DEF BuiltBy
    <3> QED BY <3>1, <3>8 DEF Holding
  <2>2. CASE Readback(r)
    <3>1. /\ pc[r] = "readback" /\ pc'[r] = "upload" /\ releases' = releases /\ staged' = staged
          /\ ~Promoting(r) /\ plan[r] # NoPlan
      BY <2>2 DEF Readback, Placed, Committed, Typed, Workspaces
    <3>2. PICK i \in Alive : WithTag(plan[r].tag) = {i} /\ release'[r] = i
      BY <2>2 DEF Readback, Typed, Workspaces
    <3>3. i \in DOMAIN releases /\ releases[i].tag = plan[r].tag
      BY <3>2 DEF WithTag, Alive
    <3>4. r \in Plans /\ plan[r] = ledger.plans[r]
      BY <3>1, OwnNumbered
    <3>5. releases[i].by = r
      BY <3>3, <3>4, NamedBy
    <3>6. releases[i].built = staged[r]
      BY <3>1, <3>3, <3>5 DEF Copied, Holding
    <3> QED BY <3>1, <3>2, <3>6 DEF Holding
  <2>3. CASE pc'[r] \notin {"begin", "spend", "tag", "create", "readback", "upload"}
    BY <2>3 DEF Holding
  <2>4. CASE pc[r] # "idle" /\ pc'[r] = "begin" /\ ~Promoting(r)
    BY <1>0, <2>4 DEF Holding
  <2>5. CASE /\ pc[r] \in {"begin", "spend", "tag"} /\ pc'[r] \in {"spend", "tag", "create"}
             /\ staged'[r] = staged[r] /\ InPlace
    <3>1. Promoting(r)' = Promoting(r) /\ input'[r] = input[r]
      BY <1>0, <2>5
    <3>2. Promoting(r) => Built(input[r], staged[r])
      BY <1>2, <2>5 DEF Copied, Holding
    <3> QED BY <2>5, <3>1, <3>2 DEF Holding, BuiltBy
  <2>6. CASE /\ pc[r] = "create" /\ pc'[r] = "readback" /\ staged'[r] = staged[r]
             /\ ~Promoting(r) /\ (InPlace \/ Appends(r))
    <3>1. \A i \in DOMAIN releases : releases[i].by # r
      BY <2>6 DEF Spending
    <3>2. CASE InPlace
      BY <2>6, <3>1, <3>2 DEF InPlace, Holding
    <3>3. CASE Appends(r)
      <4>1. \A i \in DOMAIN releases' : releases'[i].by = r => releases'[i].built = staged[r]
        <5>1. PICK n \in Nat : /\ DOMAIN releases' = DOMAIN releases \cup {n}
                               /\ releases'[n].built = staged[r]
                               /\ \A i \in DOMAIN releases : releases'[i] = releases[i]
          BY <1>1, <3>3
        <5> QED BY <3>1, <5>1
      <4> QED BY <2>6, <4>1 DEF Holding
    <3> QED BY <2>6, <3>2, <3>3
  <2>7. CASE /\ pc[r] = "create" /\ pc'[r] = "upload" /\ staged'[r] = staged[r] /\ Appends(r)
             /\ release'[r] = Len(releases) + 1
    <3>1. releases'[release'[r]].built = staged[r]
      BY <1>1, <2>7
    <3> QED BY <2>7, <3>1 DEF Holding
  <2> QED BY <1>6, <2>1, <2>2, <2>3, <2>4, <2>5, <2>6, <2>7, StagedKinds
<1>7. ASSUME NEW r \in Run, Step(r), NEW q \in Run \ {r} PROVE Holding(q)'
  <2>1. InPlace \/ Appends(r)
    BY <1>7, ReleaseKinds
  <2> QED BY <1>5, <1>7, <2>1, Frame DEF Elsewhere
<1>8. ASSUME UNCHANGED Jobs, InPlace, NEW q \in Run PROVE Holding(q)'
  BY <1>5, <1>8
<1>9. Maintenance => UNCHANGED Jobs /\ InPlace
  BY Maintained DEF InPlace
<1>10. UNCHANGED vars => UNCHANGED Jobs /\ InPlace
  BY DEF InPlace
<1>11. \A q \in Run : Holding(q)'
  BY <1>6, <1>7, <1>8, <1>9, <1>10 DEF Next, Maintenance
<1> QED BY <1>4, <1>11 DEF Copied
-----------------------------------------------------------------------------
(* One run at a time                                                       *)

\* A run that is not at work starts only when it is free to, and one is about to
\* create its draft only after its tag.
LEMMA ActiveKinds ==
    ASSUME Typed, NEW r \in Run, Step(r)
    PROVE  /\ Active(r) \/ Free
           /\ pc'[r] = "create" => \E answered \in BOOLEAN : CreateTag(r, answered)
<1> USE DEF Typed, Workspaces, Active, Stages
<1>1. CASE \E t \in Triggers, rc \in Run \cup {NoRun} : Start(r, t, rc)
  BY <1>1 DEF Start
<1>2. CASE \E all \in BOOLEAN : Rerun(r, all)
  BY <1>2 DEF Rerun
<1>3. CASE Fail(r)
  BY <1>3 DEF Fail, Blank
<1>4. CASE Prepare(r)
  BY <1>4 DEF Prepare
<1>5. CASE ClosedCycle(r)
  BY <1>5 DEF ClosedCycle
<1>6. CASE Reuse(r)
  BY <1>6 DEF Reuse
<1>7. CASE \E answered \in BOOLEAN : Reserve(r, answered)
  BY <1>7 DEF Reserve
<1>8. CASE Superseded(r)
  BY <1>8 DEF Superseded, Publishable
<1>9. CASE Reused(r)
  BY <1>9 DEF Reused, Publishable
<1>10. CASE Publish(r)
  BY <1>10 DEF Publish, Publishable
<1>11. CASE Promote(r)
  BY <1>11 DEF Promote
<1>12. CASE Stage(r)
  BY <1>12 DEF Stage
<1>13. CASE Begin(r)
  BY <1>13 DEF Begin
<1>14. CASE \E answered \in BOOLEAN : Spend(r, answered)
  BY <1>14 DEF Spend
<1>15. CASE \E answered \in BOOLEAN : CreateTag(r, answered)
  BY <1>15 DEF CreateTag
<1>16. CASE \E answered \in BOOLEAN : Create(r, answered)
  BY <1>16 DEF Create
<1>17. CASE \E answered \in BOOLEAN : MakePublic(r, answered)
  BY <1>17 DEF MakePublic
<1>18. CASE CreateLost(r)
  BY <1>18 DEF CreateLost
<1>19. CASE Readback(r)
  BY <1>19 DEF Readback
<1>20. CASE Upload(r)
  BY <1>20 DEF Upload
<1>21. CASE Confirm(r)
  BY <1>21 DEF Confirm
<1>22. CASE StoreEvidence(r)
  BY <1>22 DEF StoreEvidence
<1> QED BY <1>1, <1>2, <1>3, <1>4, <1>5, <1>6, <1>7, <1>8, <1>9, <1>10, <1>11, <1>12,
           <1>13, <1>14, <1>15, <1>16, <1>17, <1>18, <1>19, <1>20, <1>21, <1>22 DEF Step

\* While the workflow runs one at a time, no two live releases have a tag in common.
LEMMA OneByOneStep ==
    ASSUME ReleaseAssumption, Typed, \A r \in Run : Placed(r), OneAtATime, Serial, [Next]_vars
    PROVE  OneAtATime'
<1>0. InPlace => DOMAIN releases' = DOMAIN releases /\ Alive' \subseteq Alive
                 /\ \A i \in DOMAIN releases : releases'[i].tag = releases[i].tag
  BY DEF InPlace, Alive
<1>1. ASSUME NEW r \in Run, Step(r), NEW q \in Run, Active(q) PROVE q = r
  BY <1>1, ActiveKinds DEF Free, OneAtATime
<1>2. ASSUME NEW r \in Run, NEW q \in Run, Active(r)', Active(q)' PROVE q = r
  <2>1. ASSUME NEW s \in Run, Step(s) PROVE q = r
    <3>1. ASSUME NEW x \in Run, Active(x)' PROVE x = s
      BY <1>1, <2>1, <3>1, Frame DEF Elsewhere, Active
    <3> QED BY <1>2, <3>1
  <2>2. Maintenance \/ UNCHANGED vars => UNCHANGED pc
    BY DEF Maintenance, HeadMoves, ReplaceAsset, Discard
  <2>3. UNCHANGED pc => Active(r) /\ Active(q)
    BY <1>2 DEF Active
  <2> QED BY <2>1, <2>2, <2>3 DEF Next, Maintenance, OneAtATime
<1>3. ASSUME NEW r \in Run, pc'[r] = "create" PROVE WithTag(plan[r].tag)' = {}
  <2>1. ASSUME NEW s \in Run, Step(s) PROVE WithTag(plan[r].tag)' = {}
    <3>1. r = s
      BY <1>1, <1>3, <2>1, Frame DEF Elsewhere, Active, Stages
    <3>2. PICK answered \in BOOLEAN : CreateTag(r, answered)
      BY <1>3, <2>1, <3>1, ActiveKinds
    <3>3. WithTag(plan[r].tag) = {} /\ releases' = releases /\ plan' = plan
      BY <3>2 DEF CreateTag, Absent
    <3> QED BY <3>3 DEF WithTag, Alive
  <2>2. ASSUME UNCHANGED Jobs, InPlace PROVE WithTag(plan[r].tag)' = {}
    <3>1. pc[r] = "create" /\ plan' = plan
      BY <1>3, <2>2
    <3>2. WithTag(plan[r].tag) = {}
      BY <3>1 DEF OneAtATime
    <3> QED BY <1>0, <2>2, <3>1, <3>2 DEF WithTag, Alive
  <2>3. Maintenance => UNCHANGED Jobs /\ InPlace
    BY Maintained DEF InPlace
  <2>4. UNCHANGED vars => UNCHANGED Jobs /\ InPlace
    BY DEF InPlace
  <2> QED BY <2>1, <2>2, <2>3, <2>4 DEF Next, Maintenance
<1>4. \A i, j \in Alive' : releases'[i].tag = releases'[j].tag => i = j
  <2>1. CASE InPlace
    <3>1. \A i \in Alive' : i \in Alive /\ releases'[i].tag = releases[i].tag
      BY <1>0, <2>1 DEF Alive
    <3> QED BY <3>1 DEF OneAtATime
  <2>2. ASSUME NEW r \in Run, Appends(r)
        PROVE  \A i, j \in Alive' : releases'[i].tag = releases'[j].tag => i = j
    <3> DEFINE n == Len(releases) + 1
    <3>1. /\ n \notin DOMAIN releases /\ DOMAIN releases' = DOMAIN releases \cup {n}
          /\ releases'[n] = Draft(r) /\ \A i \in DOMAIN releases : releases'[i] = releases[i]
      BY <2>2, Appended
    <3> HIDE DEF n
    <3>2. Draft(r).tag = plan[r].tag /\ WithTag(plan[r].tag) = {}
      BY <2>2 DEF Draft, Appends, OneAtATime
    <3>3. \A i \in Alive' : (i \in Alive /\ releases'[i] = releases[i]) \/ i = n
      BY <3>1 DEF Alive
    <3>4. \A i \in Alive : releases[i].tag # releases'[n].tag
      BY <3>1, <3>2 DEF WithTag
    <3> QED BY <3>3, <3>4 DEF OneAtATime
  <2> QED BY <2>1, <2>2, KeptInPlace
<1> QED BY <1>2, <1>3, <1>4 DEF OneAtATime
-----------------------------------------------------------------------------
(* What becomes public                                                     *)

\* A run's reservation is for the base version of its source.
LEMMA BasedStep ==
    ASSUME ReleaseAssumption, Typed, ReadBefore, Bounded, Reservations, Based,
           \A r \in Run : Placed(r) /\ Spending(r), [Next]_vars
    PROVE  Based'
<1>1. \A q \in Plans : q \in Run /\ Base(q)' = Base(q)
  BY Fixed DEF Reservations, Plans
<1>2. CASE ledger'.plans = ledger.plans
  BY <1>1, <1>2 DEF Based, Plans
<1>3. ASSUME NEW r \in Run, pc[r] = "reserve",
             ledger'.plans = [ledger.plans EXCEPT ![r] = NewPlan(r)]
      PROVE  Based'
  <2>1. ledger.plans \in [Run -> Planned \cup {NoPlan}]
    BY DEF Typed, Ledgers
  <2>2. NewPlan(r).tag = NewTag(r) /\ NewTag(r).base = Base(r)
    BY DEF NewPlan, NewTag, Tag, Final
  <2>3. Base(r)' = Base(r)
    BY <1>3, Fixed
  <2>4. /\ ledger'.plans[r].tag.base = Base(r)
        /\ \A q \in Plans' : q = r \/ (q \in Plans /\ ledger'.plans[q] = ledger.plans[q])
    BY <1>3, <2>1, <2>2 DEF Plans
  <2> QED BY <1>1, <2>3, <2>4 DEF Based
<1>4. ASSUME NEW r \in Run, Step(r) PROVE Based'
  BY <1>2, <1>3, <1>4, LedgerMoves
<1>5. Maintenance \/ UNCHANGED vars => ledger' = ledger
  BY Maintained
<1> QED BY <1>2, <1>4, <1>5 DEF Next, Maintenance

\* How a run comes to work, and what it keeps while it does.
LEMMA WorkKinds ==
    ASSUME Typed, NEW r \in Run, Placed(r), Step(r)
    PROVE  \/ pc'[r] \notin Working
           \/ Publish(r)
           \/ Stage(r)
           \/ /\ pc[r] \in Working /\ plan' = plan /\ staged'[r] = staged[r]
              /\ UNCHANGED <<evidence, attempt, fresh, job>>
              /\ pc[r] # "public"
<1> USE DEF Typed, Workspaces, Working, Committed, Placed
<1>1. CASE \E t \in Triggers, rc \in Run \cup {NoRun} : Start(r, t, rc)
  BY <1>1 DEF Start
<1>2. CASE \E all \in BOOLEAN : Rerun(r, all)
  BY <1>2 DEF Rerun
<1>3. CASE Fail(r)
  BY <1>3 DEF Fail, Blank
<1>4. CASE Prepare(r)
  BY <1>4 DEF Prepare
<1>5. CASE ClosedCycle(r)
  BY <1>5 DEF ClosedCycle
<1>6. CASE Reuse(r)
  BY <1>6 DEF Reuse
<1>7. CASE \E answered \in BOOLEAN : Reserve(r, answered)
  BY <1>7 DEF Reserve
<1>8. CASE Superseded(r)
  BY <1>8 DEF Superseded, Publishable
<1>9. CASE Reused(r)
  BY <1>9 DEF Reused, Publishable
<1>10. CASE Publish(r)
  BY <1>10 DEF Publish, Publishable
<1>11. CASE Promote(r)
  BY <1>11 DEF Promote
<1>12. CASE Stage(r)
  BY <1>12 DEF Stage
<1>13. CASE Begin(r)
  BY <1>13 DEF Begin
<1>14. CASE \E answered \in BOOLEAN : Spend(r, answered)
  BY <1>14 DEF Spend
<1>15. CASE \E answered \in BOOLEAN : CreateTag(r, answered)
  BY <1>15 DEF CreateTag
<1>16. CASE \E answered \in BOOLEAN : Create(r, answered)
  BY <1>16 DEF Create
<1>17. CASE \E answered \in BOOLEAN : MakePublic(r, answered)
  BY <1>17 DEF MakePublic
<1>18. CASE CreateLost(r)
  BY <1>18 DEF CreateLost
<1>19. CASE Readback(r)
  BY <1>19 DEF Readback
<1>20. CASE Upload(r)
  BY <1>20 DEF Upload
<1>21. CASE Confirm(r)
  BY <1>21 DEF Confirm
<1>22. CASE StoreEvidence(r)
  BY <1>22 DEF StoreEvidence
<1> QED BY <1>1, <1>2, <1>3, <1>4, <1>5, <1>6, <1>7, <1>8, <1>9, <1>10, <1>11, <1>12,
           <1>13, <1>14, <1>15, <1>16, <1>17, <1>18, <1>19, <1>20, <1>21, <1>22 DEF Step

\* How a run comes by the draft it works on.
LEMMA DraftKinds ==
    ASSUME Typed, NEW r \in Run, Placed(r), Step(r)
    PROVE  /\ pc'[r] = "readback" => /\ pc[r] = "create" /\ plan' = plan
                                     /\ releases' = releases \/ Appends(r)
           /\ pc'[r] = "upload" => \/ Readback(r)
                                   \/ /\ pc[r] = "create" /\ Appends(r)
                                      /\ release'[r] = Len(releases) + 1
           /\ pc'[r] = "confirm" => Upload(r)
           /\ pc'[r] = "public" => Confirm(r)
<1> USE DEF Typed, Workspaces, Appends
<1>1. CASE \E t \in Triggers, rc \in Run \cup {NoRun} : Start(r, t, rc)
  BY <1>1 DEF Start
<1>2. CASE \E all \in BOOLEAN : Rerun(r, all)
  BY <1>2 DEF Rerun
<1>3. CASE Fail(r)
  BY <1>3 DEF Fail, Blank
<1>4. CASE Prepare(r)
  BY <1>4 DEF Prepare
<1>5. CASE ClosedCycle(r)
  BY <1>5 DEF ClosedCycle
<1>6. CASE Reuse(r)
  BY <1>6 DEF Reuse
<1>7. CASE \E answered \in BOOLEAN : Reserve(r, answered)
  BY <1>7 DEF Reserve
<1>8. CASE Superseded(r)
  BY <1>8 DEF Superseded, Publishable
<1>9. CASE Reused(r)
  BY <1>9 DEF Reused, Publishable
<1>10. CASE Publish(r)
  BY <1>10 DEF Publish, Publishable
<1>11. CASE Promote(r)
  BY <1>11 DEF Promote
<1>12. CASE Stage(r)
  BY <1>12 DEF Stage
<1>13. CASE Begin(r)
  BY <1>13 DEF Begin
<1>14. CASE \E answered \in BOOLEAN : Spend(r, answered)
  BY <1>14 DEF Spend
<1>15. CASE \E answered \in BOOLEAN : CreateTag(r, answered)
  BY <1>15 DEF CreateTag
<1>16. CASE \E answered \in BOOLEAN : Create(r, answered)
  BY <1>16 DEF Create
<1>17. CASE \E answered \in BOOLEAN : MakePublic(r, answered)
  BY <1>17 DEF MakePublic
<1>18. CASE CreateLost(r)
  BY <1>18 DEF CreateLost
<1>19. CASE Readback(r)
  BY <1>19 DEF Readback
<1>20. CASE Upload(r)
  BY <1>20 DEF Upload
<1>21. CASE Confirm(r)
  BY <1>21 DEF Confirm
<1>22. CASE StoreEvidence(r)
  BY <1>22 DEF StoreEvidence
<1> QED BY <1>1, <1>2, <1>3, <1>4, <1>5, <1>6, <1>7, <1>8, <1>9, <1>10, <1>11, <1>12,
           <1>13, <1>14, <1>15, <1>16, <1>17, <1>18, <1>19, <1>20, <1>21, <1>22 DEF Step

\* Only the run that works on a release makes it public.
LEMMA MadePublic ==
    ASSUME Typed, NEW r \in Run, Placed(r), Step(r), NEW i \in DOMAIN releases,
           releases[i].state # "public", releases'[i].state = "public"
    PROVE  pc[r] = "public" /\ release[r] = i
<1>0. \A j \in DOMAIN releases : releases[j] \in Drafts
  BY ReleasesTyped
<1>1. CASE \E t \in Triggers, rc \in Run \cup {NoRun} : Start(r, t, rc)
  BY <1>1 DEF Start
<1>2. CASE \E all \in BOOLEAN : Rerun(r, all)
  BY <1>2 DEF Rerun
<1>3. CASE Fail(r)
  BY <1>3 DEF Fail, Blank
<1>4. CASE Prepare(r)
  BY <1>4 DEF Prepare
<1>5. CASE ClosedCycle(r)
  BY <1>5 DEF ClosedCycle
<1>6. CASE Reuse(r)
  BY <1>6 DEF Reuse
<1>7. CASE \E answered \in BOOLEAN : Reserve(r, answered)
  BY <1>7 DEF Reserve
<1>8. CASE Superseded(r)
  BY <1>8 DEF Superseded, Publishable
<1>9. CASE Reused(r)
  BY <1>9 DEF Reused, Publishable
<1>10. CASE Publish(r)
  BY <1>10 DEF Publish, Publishable
<1>11. CASE Promote(r)
  BY <1>11 DEF Promote
<1>12. CASE Stage(r)
  BY <1>12 DEF Stage
<1>13. CASE Begin(r)
  BY <1>13 DEF Begin
<1>14. CASE \E answered \in BOOLEAN : Spend(r, answered)
  BY <1>14 DEF Spend
<1>15. CASE \E answered \in BOOLEAN : CreateTag(r, answered)
  BY <1>15 DEF CreateTag
<1>16. CASE \E answered \in BOOLEAN : Create(r, answered)
  BY <1>16 DEF Create
<1>17. CASE \E answered \in BOOLEAN : MakePublic(r, answered)
  BY <1>17 DEF MakePublic
<1>18. CASE CreateLost(r)
  BY <1>18 DEF CreateLost
<1>19. CASE Readback(r)
  BY <1>19 DEF Readback
<1>20. CASE Upload(r)
  BY <1>20 DEF Upload
<1>21. CASE Confirm(r)
  BY <1>21 DEF Confirm
<1>22. CASE StoreEvidence(r)
  BY <1>22 DEF StoreEvidence
<1> QED BY <1>1, <1>2, <1>3, <1>4, <1>5, <1>6, <1>7, <1>8, <1>9, <1>10, <1>11, <1>12,
           <1>13, <1>14, <1>15, <1>16, <1>17, <1>18, <1>19, <1>20, <1>21, <1>22 DEF Step

\* A run at work is alone, whatever maintainers do meanwhile.
LEMMA Alone ==
    ASSUME Typed, OneAtATime, Serial, NEW r \in Run, Step(r), NEW q \in Run, Active(q)
    PROVE  q = r
BY ActiveKinds DEF Free, OneAtATime

\* A run at work holds the last number spent, and publishes what it accepted.
LEMMA AtWorkByRun ==
    ASSUME ReleaseAssumption, Typed, ReadBefore, Reservations, Based, Drafted, OneAtATime, Serial,
           NEW r \in Run, Placed(r), Spending(r), AtWork(r), [Next]_vars, Step(r)
    PROVE  AtWork(r)'
<1>0. pc[r] # "idle" => Promoting(r)' = Promoting(r) /\ input'[r] = input[r]
  BY Fixed
<1>a. ASSUME Appends(r)
      PROVE  \E n \in Nat :
             /\ n = Len(releases) + 1 /\ n \notin DOMAIN releases
             /\ DOMAIN releases' = DOMAIN releases \cup {n}
             /\ releases'[n].by = r /\ releases'[n].state = "draft"
             /\ releases'[n].tag = plan[r].tag
             /\ \A i \in DOMAIN releases : releases'[i] = releases[i]
  <2> DEFINE n == Len(releases) + 1
  <2>1. /\ n \in Nat /\ n \notin DOMAIN releases /\ DOMAIN releases' = DOMAIN releases \cup {n}
        /\ releases'[n] = Draft(r) /\ \A i \in DOMAIN releases : releases'[i] = releases[i]
    BY <1>a, Appended
  <2>2. Draft(r).by = r /\ Draft(r).state = "draft" /\ Draft(r).tag = plan[r].tag
    BY DEF Draft
  <2>3. n = Len(releases) + 1
    OBVIOUS
  <2> HIDE DEF n
  <2> QED BY <2>1, <2>2, <2>3
<1>1. pc'[r] \in Committed => ledger'.floor = plan'[r].number
  <2>1. CASE Begin(r)
    BY <2>1 DEF Begin, Typed, Workspaces, Committed
  <2>2. CASE \E answered \in BOOLEAN : Spend(r, answered)
    BY <2>2, SpendWrites DEF Spend
  <2>3. CASE pc[r] \in Committed /\ plan' = plan /\ ledger' = ledger
    BY <2>3 DEF AtWork
  <2> QED BY <2>1, <2>2, <2>3, SpendingKinds
<1>2. pc'[r] = "readback" => \A i \in WithTag(plan[r].tag)' : releases'[i].by = r
  <2> SUFFICES ASSUME pc'[r] = "readback" PROVE \A i \in WithTag(plan[r].tag)' : releases'[i].by = r
    OBVIOUS
  <2>1. pc[r] = "create" /\ plan' = plan /\ (releases' = releases \/ Appends(r))
    BY DraftKinds
  <2>2. WithTag(plan[r].tag) = {}
    BY <2>1 DEF OneAtATime
  <2>3. CASE releases' = releases
    BY <2>1, <2>2, <2>3 DEF WithTag, Alive
  <2>4. CASE Appends(r)
    <3>1. PICK n \in Nat : /\ DOMAIN releases' = DOMAIN releases \cup {n} /\ releases'[n].by = r
                           /\ \A i \in DOMAIN releases : releases'[i] = releases[i]
      BY <1>a, <2>4
    <3>2. \A i \in DOMAIN releases : i \in WithTag(plan[r].tag)' => i \in WithTag(plan[r].tag)
      BY <2>1, <3>1 DEF WithTag, Alive
    <3>3. \A i \in WithTag(plan[r].tag)' : i \in DOMAIN releases'
      BY DEF WithTag, Alive
    <3> QED BY <2>2, <3>1, <3>2, <3>3
  <2> QED BY <2>1, <2>3, <2>4
<1>3. pc'[r] \in {"upload", "confirm", "public"} => releases'[release'[r]].by = r
  <2>1. CASE pc'[r] = "upload"
    <3>1. CASE Readback(r)
      BY <3>1 DEF Readback, AtWork, Typed, Workspaces
    <3>2. CASE pc[r] = "create" /\ Appends(r) /\ release'[r] = Len(releases) + 1
      BY <1>a, <3>2
    <3> QED BY <2>1, <3>1, <3>2, DraftKinds
  <2>2. CASE pc'[r] = "confirm"
    <3>1. Upload(r)
      BY <2>2, DraftKinds
    <3>2. /\ pc[r] = "upload" /\ release' = release /\ release[r] \in DOMAIN releases
          /\ InPlace
      BY <3>1, ReleaseKinds DEF Upload, Appends, Placed
    <3> QED BY <3>2 DEF AtWork, InPlace
  <2>3. CASE pc'[r] = "public"
    BY <2>3, DraftKinds DEF Confirm, AtWork
  <2> QED BY <2>1, <2>2, <2>3
<1>4. pc'[r] \in {"confirm", "public"} => /\ releases'[release'[r]].state \in {"full", "deleted"}
                                          /\ releases'[release'[r]].bytes = staged'[r]
  <2>1. CASE pc'[r] = "confirm"
    <3>1. Upload(r)
      BY <2>1, DraftKinds
    <3> DEFINE i == release[r]
    <3>2. /\ release' = release /\ staged' = staged
          /\ i \in DOMAIN releases /\ releases[i] \in Drafts
          /\ releases' = [releases EXCEPT ![i] =
                          [releases[i] EXCEPT !.state = "full", !.bytes = staged[r]]]
      BY <3>1, ReleasesTyped DEF Upload, Placed, Drafts
    <3>3. releases'[i].state = "full" /\ releases'[i].bytes = staged[r]
      BY <3>2 DEF Drafts
    <3> QED BY <3>2, <3>3
  <2>2. CASE pc'[r] = "public"
    BY <2>2, DraftKinds DEF Confirm, AtWork
  <2> QED BY <2>1, <2>2
<1>5. pc'[r] \in Working =>
        IF Promoting(r)' THEN staged'[r] = <<input'[r], evidence'[input'[r]]>>
                         ELSE staged'[r] = <<r, attempt'[r]>> /\ GateReady(r)'
  <2>1. CASE Publish(r)
    <3>1. /\ ~Promoting(r) /\ GateReady(r) /\ pc[r] # "idle" /\ staged'[r] = <<r, attempt[r]>>
          /\ attempt' = attempt /\ fresh' = fresh
      BY <2>1 DEF Publish, Publishable, Typed, Workspaces
    <3> QED BY <1>0, <3>1 DEF GateReady
  <2>2. CASE Stage(r)
    <3>1. /\ Promoting(r) /\ Accepted(r) /\ pc[r] # "idle" /\ staged'[r] = releases[Rc(r)].bytes
          /\ evidence' = evidence
      BY <2>2 DEF Stage, Placed, Typed, Workspaces
    <3>2. releases[Rc(r)].bytes = <<input[r], evidence[input[r]]>>
      BY <3>1 DEF Accepted
    <3> QED BY <1>0, <3>1, <3>2
  <2>3. CASE /\ pc[r] \in Working /\ staged'[r] = staged[r]
             /\ UNCHANGED <<evidence, attempt, fresh, job>>
    <3>1. pc[r] # "idle"
      BY <2>3 DEF Working, Committed
    <3> QED BY <1>0, <2>3, <3>1 DEF AtWork, GateReady
  <2> QED BY <2>1, <2>2, <2>3, WorkKinds
<1>6. pc'[r] \in Working /\ plan'[r].tag.channel \in {"beta", "rc"} =>
        \A j \in Public' : releases'[j].tag # Final(plan'[r].tag.base)
  <2>1. CASE Publish(r)
    <3>1. pc[r] = "publish" /\ plan' = plan /\ releases' = releases /\ ~Promoting(r)
          /\ (Channel(r) \in {"beta", "rc"} => Absent(Final(Base(r))))
      BY <2>1 DEF Publish, Publishable
    <3>2. r \in Plans /\ plan[r] = ledger.plans[r]
      BY <3>1, OwnNumbered DEF Placed
    <3>3. plan[r].tag.channel = Channel(r) /\ plan[r].tag.base = Base(r)
      BY <3>2 DEF Reservations, Based
    <3> QED BY <3>1, <3>3 DEF Absent, WithTag, Public, Alive
  <2>2. CASE Stage(r)
    <3>1. plan'[r].tag = Final(ledger.plans[input[r]].tag.base)
      <4>1. Promoting(r) /\ OwnPlan(r).tag = Final(ledger.plans[input[r]].tag.base)
        BY <2>2, PromotedTyped DEF Stage, Placed
      <4>2. plan'[r] = OwnPlan(r)
        BY <2>2, <4>1 DEF Stage, OwnPlan, Typed
      <4> QED BY <4>1, <4>2
    <3>2. plan'[r].tag.channel = "stable"
      BY <3>1 DEF Final, Tag
    <3> QED BY <3>2
  <2>3. ASSUME pc[r] \in Working, plan' = plan, pc[r] # "public",
               pc'[r] \in Working, plan'[r].tag.channel \in {"beta", "rc"}, NEW j \in Public'
        PROVE  releases'[j].tag # Final(plan'[r].tag.base)
    <3>1. \A k \in Public : releases[k].tag # Final(plan[r].tag.base)
      BY <2>3 DEF AtWork
    <3>2. CASE Appends(r)
      <4>1. PICK n \in Nat : /\ DOMAIN releases' = DOMAIN releases \cup {n}
                             /\ releases'[n].state = "draft"
                             /\ \A i \in DOMAIN releases : releases'[i] = releases[i]
        BY <1>a, <3>2
      <4>2. j \in Public /\ releases'[j] = releases[j]
        BY <4>1 DEF Public, Alive
      <4> QED BY <2>3, <3>1, <4>2
    <3>3. CASE InPlace
      <4>1. j \in DOMAIN releases /\ releases'[j].tag = releases[j].tag
        BY <3>3 DEF InPlace, Public, Alive
      <4>2. releases[j].state = "public"
        BY <2>3, <4>1, MadePublic DEF Public, Alive
      <4>3. j \in Public
        BY <4>1, <4>2 DEF Public, Alive
      <4> QED BY <2>3, <3>1, <4>1, <4>3
    <3> QED BY <3>2, <3>3, ReleaseKinds
  <2> QED BY <2>1, <2>2, <2>3, WorkKinds
<1> QED BY <1>1, <1>2, <1>3, <1>4, <1>5, <1>6 DEF AtWork

\* So it stays, over the steps of other runs and of maintainers.
LEMMA AtWorkStep ==
    ASSUME ReleaseAssumption, Typed, ReadBefore, Reservations, Based, Drafted, OneAtATime, Serial,
           \A r \in Run : Placed(r) /\ Spending(r) /\ AtWork(r), [Next]_vars
    PROVE  \A r \in Run : AtWork(r)'
<1>1. Working \cup Committed \cup {"readback", "upload", "confirm", "public"} \subseteq Stages
  BY DEF Working, Committed, Stages
<1>2. ASSUME NEW q \in Run, pc'[q] = pc[q], ~Active(q) PROVE AtWork(q)'
  <2>1. pc'[q] \notin Working \cup Committed \cup {"readback", "upload", "confirm", "public"}
    BY <1>1, <1>2 DEF Active
  <2> QED BY <2>1 DEF AtWork
<1>3. ASSUME NEW r \in Run, Step(r), NEW q \in Run PROVE AtWork(q)'
  <2>1. CASE q = r
    BY <1>3, <2>1, AtWorkByRun
  <2>2. CASE q # r
    BY <1>2, <1>3, <2>2, Alone, Frame DEF Elsewhere
  <2> QED BY <2>1, <2>2
<1>4. ASSUME UNCHANGED <<ledger, evidence, Jobs>>, DOMAIN releases' = DOMAIN releases,
             \A i \in DOMAIN releases :
                /\ releases'[i].tag = releases[i].tag /\ releases'[i].by = releases[i].by
                /\ releases[i].state # "public" => releases'[i].bytes = releases[i].bytes
                /\ releases'[i].state \in {releases[i].state, "deleted"},
             NEW q \in Run
      PROVE  AtWork(q)'
  <2>1. Alive' \subseteq Alive /\ Public' \subseteq Public
    BY <1>4 DEF Alive, Public
  <2>2. AtWork(q)
    OBVIOUS
  <2>3. pc[q] \in {"upload", "confirm", "public"} => release[q] \in DOMAIN releases
    BY DEF Placed
  <2>4. pc[q] \in Committed => ledger'.floor = plan'[q].number
    BY <1>4, <2>2 DEF AtWork
  <2>5. pc[q] = "readback" => \A i \in WithTag(plan[q].tag)' : releases'[i].by = q
    BY <1>4, <2>1, <2>2 DEF AtWork, WithTag, Alive
  <2>6. /\ pc[q] \in {"upload", "confirm", "public"} => releases'[release'[q]].by = q
        /\ pc[q] \in {"confirm", "public"} =>
             /\ releases'[release'[q]].state \in {"full", "deleted"}
             /\ releases'[release'[q]].bytes = staged'[q]
    BY <1>4, <2>2, <2>3 DEF AtWork
  <2>7. pc[q] \in Working =>
          IF Promoting(q)' THEN staged'[q] = <<input'[q], evidence'[input'[q]]>>
                           ELSE staged'[q] = <<q, attempt'[q]>> /\ GateReady(q)'
    BY <1>4, <2>2 DEF AtWork, Promoting, Channel, GateReady
  <2>8. pc[q] \in Working /\ plan'[q].tag.channel \in {"beta", "rc"} =>
          \A j \in Public' : releases'[j].tag # Final(plan'[q].tag.base)
    BY <1>4, <2>1, <2>2 DEF AtWork, Public, Alive
  <2> QED BY <1>4, <2>4, <2>5, <2>6, <2>7, <2>8 DEF AtWork
<1>5. ASSUME Maintenance, NEW q \in Run PROVE AtWork(q)'
  BY <1>4, <1>5, Maintained
<1>6. ASSUME UNCHANGED vars, NEW q \in Run PROVE AtWork(q)'
  BY <1>4, <1>6
<1> QED BY <1>3, <1>5, <1>6 DEF Next, Maintenance

\* What a run makes public is its own, with the bytes it staged, under the last
\* number spent.
LEMMA MadePublicWell ==
    ASSUME ReleaseAssumption, IInv, Serial, [Next]_vars, NEW i \in DOMAIN releases,
           releases[i].state = "full", releases'[i].state = "public"
    PROVE  \E r \in Run : /\ pc[r] = "public" /\ releases[i].by = r /\ releases[i].bytes = staged[r]
                          /\ releases[i].number = ledger.floor /\ releases[i].tag = plan[r].tag
<1>0. /\ Typed /\ Drafted /\ \A r \in Run : Placed(r) /\ AtWork(r)
  BY DEF IInv
<1>1. ~Maintenance /\ ~UNCHANGED vars
  BY <1>0, Maintained
<1>2. PICK r \in Run : Step(r)
  BY <1>1 DEF Next, Maintenance
<1>3. pc[r] = "public" /\ release[r] = i
  BY <1>0, <1>2, MadePublic
<1>4. releases[i].by = r /\ releases[i].bytes = staged[r] /\ ledger.floor = plan[r].number
  BY <1>0, <1>3 DEF AtWork, Committed
<1>5. releases[i].number = plan[r].number /\ releases[i].tag = plan[r].tag
  BY <1>0, <1>3, <1>4 DEF Drafted, Placed, Committed
<1> QED BY <1>3, <1>4, <1>5

-----------------------------------------------------------------------------
(* Theorems                                                                *)

\* The pipeline starts well.
LEMMA Initially ==
    ASSUME ReleaseAssumption, Init
    PROVE  IInv
<1>1. Blank \in Ledgers /\ Blank.rev = 0 /\ \A q \in Run : Blank.plans[q] = NoPlan
  BY DEF Blank, Ledgers
<1>2. Typed
  <2>1. <<NoRun, 0>> \in Bytes /\ 1 \in Sources
    BY DEF Bytes, Sources, ReleaseAssumption
  <2>2. releases \in Seq(Drafts)
    BY DEF Init
  <2> QED BY <1>1, <2>1, <2>2 DEF Init, Typed, Workspaces, Stages
<1>3. Plans = {} /\ DOMAIN releases = {} /\ tags = {}
  BY <1>1 DEF Init, Plans
<1>4. ReadBefore
  BY <1>1 DEF Init, ReadBefore
<1>5. Reservations /\ Based
  <2>1. ledger.floor <= ledger.counter
    BY DEF Init, Blank
  <2> QED BY <1>3, <2>1 DEF Reservations, DistinctPlans, Based
<1>6. Bounded
  BY <1>3 DEF Bounded, BoundedBy
<1>7. ASSUME NEW r \in Run
      PROVE  Placed(r) /\ Spending(r) /\ Holding(r) /\ AtWork(r) /\ ~Active(r) /\ pc[r] # "create"
  <2>1. pc[r] = "idle" /\ plan[r] = NoPlan
    BY DEF Init
  <2> QED BY <2>1 DEF Placed, Spending, Holding, AtWork, Working, Committed, Active, Stages
<1>8. Drafted /\ Copied /\ Alive = {}
  BY <1>3, <1>7 DEF Drafted, Copied, Alive
<1> QED BY <1>2, <1>4, <1>5, <1>6, <1>7, <1>8 DEF IInv, OneAtATime

\* Every step keeps the invariant.
LEMMA Inductive ==
    ASSUME ReleaseAssumption, IInv, [Next]_vars
    PROVE  IInv'
<1>1. /\ Typed /\ ReadBefore /\ Reservations /\ Based /\ Bounded /\ Drafted /\ OneAtATime
      /\ \A r \in Run : Placed(r) /\ Spending(r)
      /\ Promotion = "promote-bytes" => Copied
      /\ Serial => \A r \in Run : AtWork(r)
  BY DEF IInv
<1>2. Typed' /\ ReadBefore' /\ Reservations' /\ Based' /\ Bounded' /\ Drafted'
  BY <1>1, TypedStep, ReadBeforeStep, ReservationsStep, BasedStep, BoundedStep, DraftedStep
<1>3. (\A r \in Run : Placed(r)') /\ (\A r \in Run : Spending(r)')
  BY <1>1, PlacedStep, SpendingStep
<1>4. Promotion = "promote-bytes" => Copied'
  BY <1>1, CopiedStep
<1>5. OneAtATime'
  <2>1. CASE Serial
    BY <1>1, <2>1, OneByOneStep
  <2>2. CASE ~Serial
    BY <2>2 DEF OneAtATime
  <2> QED BY <2>1, <2>2
<1>6. Serial => \A r \in Run : AtWork(r)'
  BY <1>1, AtWorkStep
<1> QED BY <1>2, <1>3, <1>4, <1>5, <1>6 DEF IInv

\* The invariant holds throughout.
LEMMA Invariant ==
    ASSUME ReleaseAssumption
    PROVE  Spec => []IInv
<1>1. Init => IInv
  BY Initially
<1>2. IInv /\ [Next]_vars => IInv'
  BY Inductive
<1> QED BY <1>1, <1>2, PTL DEF Spec

\* Two drafts of one number are a candidate and its promotion, or two promotions of
\* one candidate: they hold the bytes that were built for the candidate.
LEMMA OneBuild ==
    ASSUME ReleaseAssumption, IInv, Serial \/ Promotion = "final-build"
    PROVE  OneBuildPerNumber
<1>0. /\ Typed /\ Reservations /\ Drafted /\ OneAtATime /\ (\A r \in Run : Placed(r))
      /\ Promotion = "promote-bytes" => Copied
  BY DEF IInv
<1>1. /\ DOMAIN releases \subseteq Nat
      /\ \A i \in DOMAIN releases : releases[i].by \in Run
  BY <1>0, ReleasesTyped
<1> DEFINE Root(r) == IF Promoting(r) THEN input[r] ELSE r
<1>2. ASSUME NEW i \in DOMAIN releases, NEW r \in Run, releases[i].by = r
      PROVE  /\ Root(r) \in Plans /\ releases[i].number = ledger.plans[Root(r)].number
             /\ ~Promoting(Root(r))
  <2>1. pc[r] # "idle" /\ OwnPlan(r) # NoPlan /\ releases[i].number = OwnPlan(r).number
    BY <1>0, <1>2 DEF Drafted
  <2>2. CASE Promoting(r)
    BY <1>0, <2>1, <2>2, PromotedTyped DEF Reservations
  <2>3. CASE ~Promoting(r)
    BY <2>1, <2>3 DEF OwnPlan, Plans
  <2> QED BY <2>2, <2>3
<1>3. ASSUME NEW i \in DOMAIN releases, NEW j \in DOMAIN releases, i < j,
             releases[i].number = releases[j].number
      PROVE  /\ releases[i].built = releases[j].built
             /\ ~({i, j} \subseteq Alive /\ releases[i].tag = releases[j].tag)
  <2>1. PICK r \in Run : releases[i].by = r
    BY <1>1
  <2>2. PICK s \in Run : releases[j].by = s
    BY <1>1
  <2>3. PICK q \in Run : q = Root(r) /\ q = Root(s) /\ ~Promoting(q)
    BY <1>0, <1>2, <1>3, <2>1, <2>2 DEF Reservations, DistinctPlans, Plans
  <2>4. i # j /\ \A k, l \in DOMAIN releases : releases[k].by = q /\ releases[l].by = q => k = l
    BY <1>0, <1>1, <1>3, <2>3 DEF Drafted
  <2>5. Promoting(r) \/ Promoting(s)
    BY <2>1, <2>2, <2>3, <2>4
  <2>6. Promotion = "promote-bytes" /\ Serial /\ Copied
    BY <1>0, <2>5 DEF Promoting
  <2>7. ASSUME NEW k \in DOMAIN releases, NEW x \in Run, releases[k].by = x, Root(x) = q
        PROVE  \E l \in DOMAIN releases : /\ releases[l].by = q
                                           /\ releases[l].built = releases[k].built
    <3>1. CASE Promoting(x)
      BY <2>6, <2>7, <3>1 DEF Copied, Filled, BuiltBy
    <3>2. CASE ~Promoting(x)
      BY <2>7, <3>2
    <3> QED BY <3>1, <3>2
  <2>8. releases[i].built = releases[j].built
    <3>1. PICK k \in DOMAIN releases : releases[k].by = q /\ releases[k].built = releases[i].built
      BY <2>1, <2>3, <2>7
    <3>2. PICK l \in DOMAIN releases : releases[l].by = q /\ releases[l].built = releases[j].built
      BY <2>2, <2>3, <2>7
    <3>3. k = l
      BY <2>4, <3>1, <3>2
    <3> QED BY <3>1, <3>2, <3>3
  <2>9. ~({i, j} \subseteq Alive /\ releases[i].tag = releases[j].tag)
    BY <1>0, <2>4, <2>6 DEF OneAtATime
  <2> QED BY <2>8, <2>9
<1> QED BY <1>3 DEF OneBuildPerNumber

\* Whatever runs prepare at the same time, fail, lose answers and are rerun, no two
\* hold the same build number or tag, and no reservation or counter is ever lost
\* (reserve_plan, begin_publication, write_state).
THEOREM ReservationsCorrect ==
    ASSUME ReleaseAssumption
    PROVE  Spec => []DistinctPlans /\ [][NothingForgotten]_vars
<1>1. Spec => []IInv
  BY Invariant
<1>2. IInv => DistinctPlans
  BY DEF IInv, Reservations
<1>3. IInv /\ [Next]_vars => [NothingForgotten]_vars
  <2> SUFFICES ASSUME IInv, [Next]_vars PROVE [NothingForgotten]_vars
    OBVIOUS
  <2> QED BY NothingForgottenStep DEF IInv
<1> QED BY <1>1, <1>2, <1>3, PTL DEF Spec

\* And one number stands for one build, with at most one live release of a tag: where
\* the workflow runs one at a time, or where a final release is a build of its own
\* (create_release_once, promote).
THEOREM NumbersUniqueCorrect ==
    ASSUME ReleaseAssumption, Serial \/ Promotion = "final-build"
    PROVE  Spec => NumbersUnique
<1>1. Spec => []IInv
  BY Invariant
<1>2. IInv => OneBuildPerNumber
  BY OneBuild
<1>3. Spec => []DistinctPlans /\ [][NothingForgotten]_vars
  BY ReservationsCorrect
<1> QED BY <1>1, <1>2, <1>3, PTL DEF NumbersUnique

\* While the workflow runs one at a time, what becomes public was built under its
\* plan, and numbers are published in ascending order, no candidate after the final
\* release of its version (promote, require_current_attempt_jobs, begin_publication,
\* ensure_absent).
THEOREM PublicationCorrect ==
    ASSUME ReleaseAssumption, Serial
    PROVE  Spec => [][BuiltAsAccepted /\ NoDowngrade]_vars
<1>1. Spec => []IInv
  BY Invariant
<1>2. IInv /\ [Next]_vars => [BuiltAsAccepted /\ NoDowngrade]_vars
  <2> SUFFICES ASSUME IInv, [Next]_vars PROVE BuiltAsAccepted /\ NoDowngrade
    OBVIOUS
  <2> SUFFICES ASSUME NEW i \in DOMAIN releases, releases[i].state = "full",
                      releases'[i].state = "public"
               PROVE  /\ LET r == releases[i].by IN
                         IF Promoting(r) THEN releases[i].bytes = <<input[r], evidence[input[r]]>>
                                         ELSE releases[i].bytes = <<r, attempt[r]>> /\ GateReady(r)
                      /\ \A j \in Public :
                           /\ releases[j].number <= releases[i].number
                           /\ releases[i].tag.channel \in {"beta", "rc"} =>
                                releases[j].tag # Final(releases[i].tag.base)
    BY DEF BuiltAsAccepted, NoDowngrade
  <2>1. PICK r \in Run : /\ pc[r] = "public" /\ releases[i].by = r /\ releases[i].bytes = staged[r]
                         /\ releases[i].number = ledger.floor /\ releases[i].tag = plan[r].tag
    BY MadePublicWell
  <2>2. AtWork(r) /\ Drafted
    BY DEF IInv
  <2>3. pc[r] \in Working
    BY <2>1 DEF Working, Committed
  <2>4. IF Promoting(r) THEN releases[i].bytes = <<input[r], evidence[input[r]]>>
                        ELSE releases[i].bytes = <<r, attempt[r]>> /\ GateReady(r)
    BY <2>1, <2>2, <2>3 DEF AtWork
  <2>5. ASSUME NEW j \in Public
        PROVE  /\ releases[j].number <= releases[i].number
               /\ releases[i].tag.channel \in {"beta", "rc"} =>
                    releases[j].tag # Final(releases[i].tag.base)
    <3>1. j \in DOMAIN releases
      BY DEF Public, Alive
    <3>2. releases[j].number <= ledger.floor
      BY <2>2, <3>1 DEF Drafted
    <3> QED BY <2>1, <2>2, <2>3, <3>2 DEF AtWork
  <2> QED BY <2>1, <2>4, <2>5
<1> QED BY <1>1, <1>2, PTL DEF Spec
-----------------------------------------------------------------------------
(* The preparation of a version                                            *)

PreparationSteps == {"start", "choose", "pulls", "topic", "commit", "pull", "done"}
CommitsOfMain == [version : Preparation!Versions, sources : Nat]
CommitsOfBranches == [main : Nat, foreign : BOOLEAN, before : SUBSET Nat]

PreparationTyped ==
    /\ main \in Seq(CommitsOfMain) /\ Len(main) # 0
    /\ \A t \in prepareTags : t.version \in Preparation!Versions
    /\ commits \in Seq(CommitsOfBranches)
    /\ topic \in [Preparation!Versions -> 0..Len(commits)]
    /\ preparePc \in [Preparers -> PreparationSteps] /\ prepareHead \in [Preparers -> Nat]
    /\ target \in [Preparers -> Nat] /\ tip \in [Preparers -> 0..Len(commits)]
    /\ opened \in [Preparers -> BOOLEAN]

\* A commit comes after all its ancestors, those of its ancestors included.
Descent ==
    \A c \in 1..Len(commits) :
        /\ commits[c].main \in 1..Len(main) /\ commits[c].before \subseteq 1..(c - 1)
        /\ \A b \in commits[c].before : commits[b].before \subseteq commits[c].before

\* What was merged was merged with its ancestors, and its branch is done with.
MergedWhole ==
    \A m \in merged :
        /\ m = [commit |-> m.commit, at |-> m.at] /\ m.commit \in 1..Len(commits)
        /\ m.at \in 1..Len(main) /\ m.commit \in gone
        /\ \A b \in commits[m.commit].before : [commit |-> b, at |-> m.at] \in merged

BuiltOnOwn ==
    \A c \in 1..Len(commits) : ~commits[c].foreign =>
        \A b \in commits[c].before :
            commits[b].foreign => b \in Preparation!Merged(commits[c].main)

Reachable ==
    \A c \in 1..Len(commits) :
        c \in gone \/ \E v \in Preparation!Versions : c \in Preparation!Ancestors(topic[v])

\* What a preparation may build on: it adds no source to the commit checked out.
Adopted(c, at) ==
    \/ c \in Preparation!Merged(at)
    \/ ~commits[c].foreign /\ (commits[c].main > at => Preparation!SameSources(commits[c].main, at))

Preparing(p) ==
    /\ preparePc[p] # "start" => prepareHead[p] \in 1..Len(main)
    /\ IF preparePc[p] \in {"start", "choose"} THEN target[p] = 0
       ELSE target[p] \in Preparation!Versions /\ target[p] >= Preparation!Base(prepareHead[p])
    /\ preparePc[p] = "commit" /\ tip[p] # 0 => Adopted(tip[p], prepareHead[p])

PreparationInv ==
    /\ PreparationTyped /\ Descent /\ MergedWhole /\ BuiltOnOwn /\ Reachable
    /\ \A p \in Preparers : Preparing(p)

\* The branches and main only grow.
Grew ==
    /\ Len(main) <= Len(main') /\ \A i \in 1..Len(main) : main'[i] = main[i]
    /\ Len(commits) <= Len(commits') /\ \A c \in 1..Len(commits) : commits'[c] = commits[c]
    /\ merged \subseteq merged'

\* Nothing leaves main.
LEMMA MergedStays ==
    ASSUME merged \subseteq merged', NEW at \in Nat, NEW later \in Nat, at <= later, MergedWhole
    PROVE  /\ Preparation!Merged(at) \subseteq Preparation!Merged(later)
           /\ Preparation!Merged(at) \subseteq Preparation!Merged(at)'
<1> \A m \in merged : m.at \in Nat
  BY DEF MergedWhole
<1> QED BY DEF Preparation!Merged

\* A merged commit has its ancestors merged with it.
LEMMA MergedClosed ==
    ASSUME MergedWhole, NEW at \in Nat, NEW c \in Preparation!Merged(at)
    PROVE  /\ c \in 1..Len(commits) /\ c \in gone
           /\ \A b \in commits[c].before : b \in gone /\ b \in Preparation!Merged(at)
<1>1. PICK m \in merged : m.at <= at /\ m.commit = c
  BY DEF Preparation!Merged
<1>2. c \in 1..Len(commits) /\ c \in gone
  BY <1>1 DEF MergedWhole
<1>3. ASSUME NEW b \in commits[c].before PROVE b \in gone /\ b \in Preparation!Merged(at)
  <2> DEFINE n == [commit |-> b, at |-> m.at]
  <2>1. n \in merged /\ n.commit = b /\ n.at = m.at
    BY <1>1, <1>3 DEF MergedWhole
  <2>2. n.commit \in gone
    BY <2>1 DEF MergedWhole
  <2>3. n.commit \in Preparation!Merged(at)
    BY <1>1, <2>1 DEF Preparation!Merged
  <2> QED BY <2>1, <2>2, <2>3
<1> QED BY <1>2, <1>3

\* What a preparation holds stays true while others work.
LEMMA PreparingKept ==
    ASSUME PreparationTyped, Descent, MergedWhole, Grew, NEW p \in Preparers, Preparing(p),
           preparePc'[p] = preparePc[p], prepareHead'[p] = prepareHead[p],
           target'[p] = target[p], tip'[p] = tip[p]
    PROVE  Preparing(p)'
<1>1. preparePc[p] # "start" =>
        /\ prepareHead[p] \in 1..Len(main) /\ prepareHead[p] \in 1..Len(main')
        /\ main'[prepareHead[p]] = main[prepareHead[p]]
  BY DEF Preparing, Grew, PreparationTyped
<1>2. ASSUME preparePc[p] = "commit", tip[p] # 0, Adopted(tip[p], prepareHead[p])
      PROVE  Adopted(tip[p], prepareHead[p])'
  <2>1. tip[p] \in 1..Len(commits) /\ prepareHead[p] \in 1..Len(main) /\ prepareHead[p] \in Nat
    BY <1>1, <1>2 DEF PreparationTyped
  <2>2. CASE tip[p] \in Preparation!Merged(prepareHead[p])
    <3>1. tip[p] \in Preparation!Merged(prepareHead[p])'
      BY <2>1, <2>2, MergedStays DEF Grew, Preparation!Merged
    <3> QED BY <3>1 DEF Adopted
  <2>3. CASE ~commits[tip[p]].foreign /\ (commits[tip[p]].main > prepareHead[p] =>
                Preparation!SameSources(commits[tip[p]].main, prepareHead[p]))
    <3>1. commits'[tip[p]] = commits[tip[p]] /\ commits[tip[p]].main \in 1..Len(main)
      BY <2>1 DEF Grew, Descent
    <3>2. main'[commits[tip[p]].main] = main[commits[tip[p]].main]
      BY <3>1 DEF Grew
    <3> QED BY <1>1, <1>2, <2>3, <3>1, <3>2 DEF Adopted, Preparation!SameSources
  <2> QED BY <1>2, <2>2, <2>3 DEF Adopted
<1>3. preparePc[p] \notin {"start", "choose"} =>
        target'[p] \in Preparation!Versions /\ target'[p] >= Preparation!Base(prepareHead[p])'
  BY <1>1 DEF Preparing, Preparation!Base, Preparation!Versions
<1> QED BY <1>1, <1>2, <1>3 DEF Preparing

\* Main gains commits, branches are merged or left: the history keeps its form.
LEMMA HistoryKept ==
    ASSUME PreparationTyped, Descent, MergedWhole, BuiltOnOwn, Grew, commits' = commits
    PROVE  Descent' /\ BuiltOnOwn'
<1>1. Descent'
  BY DEF Descent, Grew, PreparationTyped
<1>2. ASSUME NEW c \in 1..Len(commits), ~commits[c].foreign, NEW b \in commits[c].before,
             commits[b].foreign
      PROVE  b \in Preparation!Merged(commits[c].main)'
  <2>1. b \in Preparation!Merged(commits[c].main) /\ commits[c].main \in Nat
    BY <1>2 DEF BuiltOnOwn, Descent
  <2> DEFINE at == commits[c].main
  <2>2. at \in Nat /\ at <= at /\ b \in Preparation!Merged(at)
    BY <2>1
  <2>3. PICK m \in merged : m.at <= at /\ m.commit = b
    BY <2>2 DEF Preparation!Merged
  <2>4. m \in merged'
    BY DEF Grew
  <2> QED BY <2>3, <2>4 DEF Preparation!Merged, Grew
<1> QED BY <1>1, <1>2 DEF BuiltOnOwn

\* A commit is added to a branch: it follows a set of commits with all their ancestors,
\* and, if it is a preparation's, no other's that its commit of main has not.
LEMMA CommitAdded ==
    ASSUME PreparationTyped, Descent, MergedWhole, BuiltOnOwn, UNCHANGED <<main, merged, gone>>,
           NEW m \in 1..Len(main), NEW f \in BOOLEAN, NEW B \in SUBSET (1..Len(commits)),
           \A b \in B : commits[b].before \subseteq B,
           ~f => \A b \in B : commits[b].foreign => b \in Preparation!Merged(m),
           commits' = Append(commits, [main |-> m, foreign |-> f, before |-> B])
    PROVE  /\ Descent' /\ MergedWhole' /\ BuiltOnOwn' /\ Grew
           /\ commits' \in Seq(CommitsOfBranches)
           /\ Len(commits') = Len(commits) + 1 /\ commits'[Len(commits) + 1].before = B
<1> DEFINE n == Len(commits) + 1
<1> DEFINE new == [main |-> m, foreign |-> f, before |-> B]
<1>0. Len(commits) \in Nat /\ Len(main) \in Nat
  BY DEF PreparationTyped
<1>1. new \in CommitsOfBranches /\ new.main = m /\ new.foreign = f /\ new.before = B
  BY <1>0 DEF CommitsOfBranches
<1>2. /\ commits' \in Seq(CommitsOfBranches) /\ Len(commits') = n /\ commits'[n] = new
      /\ \A c \in 1..Len(commits) : commits'[c] = commits[c]
  <2> HIDE DEF new
  <2>1. commits' = Append(commits, new)
    BY DEF new
  <2> QED BY <1>1, <2>1 DEF PreparationTyped
<1> HIDE DEF new
<1>3. Grew
  BY <1>0, <1>2 DEF Grew
<1>4. 1..Len(commits') = 1..Len(commits) \cup {n} /\ 1..(n - 1) = 1..Len(commits)
  BY <1>0, <1>2
<1>5. \A c \in 1..Len(commits) : commits[c].before \subseteq 1..Len(commits)
  BY <1>0 DEF Descent
<1>6. Descent'
  <2>1. ASSUME NEW c \in 1..Len(commits)
        PROVE  /\ commits'[c].main \in 1..Len(main') /\ commits'[c].before \subseteq 1..(c - 1)
               /\ \A b \in commits'[c].before : commits'[b].before \subseteq commits'[c].before
    BY <1>2, <1>5 DEF Descent
  <2>2. /\ commits'[n].main \in 1..Len(main') /\ commits'[n].before \subseteq 1..(n - 1)
        /\ \A b \in commits'[n].before : commits'[b].before \subseteq commits'[n].before
    BY <1>1, <1>2, <1>4
  <2> QED BY <1>4, <2>1, <2>2 DEF Descent
<1>7. MergedWhole'
  <2>1. \A e \in merged : e.commit \in 1..Len(commits) /\ commits'[e.commit] = commits[e.commit]
    BY <1>2 DEF MergedWhole
  <2> QED BY <1>4, <2>1 DEF MergedWhole
<1>8. BuiltOnOwn'
  <2>1. \A at : Preparation!Merged(at)' = Preparation!Merged(at)
    BY DEF Preparation!Merged
  <2>2. ASSUME NEW c \in 1..Len(commits), ~commits'[c].foreign, NEW b \in commits'[c].before,
               commits'[b].foreign
        PROVE  b \in Preparation!Merged(commits[c].main)'
    <3>1. commits'[c] = commits[c] /\ b \in commits[c].before /\ commits'[b] = commits[b]
      BY <1>2, <1>5, <2>2
    <3>2. b \in Preparation!Merged(commits[c].main)
      BY <2>2, <3>1 DEF BuiltOnOwn
    <3> QED BY <2>1, <3>1, <3>2
  <2>3. ASSUME ~commits'[n].foreign, NEW b \in commits'[n].before, commits'[b].foreign
        PROVE  b \in Preparation!Merged(m)'
    <3>1. b \in B /\ commits'[b] = commits[b] /\ ~f
      BY <1>1, <1>2, <2>3
    <3>2. b \in Preparation!Merged(m)
      BY <2>3, <3>1
    <3> QED BY <2>1, <3>2
  <2>4. \A b \in commits'[n].before : ~commits'[n].foreign /\ commits'[b].foreign =>
          b \in {e.commit : e \in {x \in merged' : x.at <= commits'[n].main}}
    BY <1>1, <1>2, <2>3 DEF Preparation!Merged
  <2> QED BY <1>4, <2>2, <2>4 DEF BuiltOnOwn, Preparation!Merged
<1> QED BY <1>1, <1>2, <1>3, <1>6, <1>7, <1>8

\* A branch is moved to a commit that has all of it, but for what is done with.
LEMMA BranchMoved ==
    ASSUME PreparationTyped, Descent, Reachable, Grew, gone \subseteq gone',
           Len(commits') = Len(commits) + 1, NEW v \in Preparation!Versions,
           topic' = [topic EXCEPT ![v] = Len(commits')],
           \A c \in Preparation!Ancestors(topic[v]) :
               c \in gone \/ c \in commits'[Len(commits) + 1].before
    PROVE  Reachable' /\ topic' \in [Preparation!Versions -> 0..Len(commits')]
<1>0. Len(commits) \in Nat
  BY DEF PreparationTyped
<1>1. topic' \in [Preparation!Versions -> 0..Len(commits')]
  BY <1>0 DEF PreparationTyped
<1>2. topic'[v] = Len(commits) + 1 /\ topic'[v] # 0
  BY <1>0 DEF PreparationTyped
<1>3. \A c : c \in commits'[Len(commits) + 1].before \cup {Len(commits) + 1} =>
               c \in Preparation!Ancestors(topic[v])'
  BY <1>2 DEF Preparation!Ancestors, Preparation!NoCommit
<1>4. ASSUME NEW c \in 1..Len(commits), c \notin gone'
      PROVE  \E w \in Preparation!Versions : c \in Preparation!Ancestors(topic[w])'
  <2>1. PICK w \in Preparation!Versions : c \in Preparation!Ancestors(topic[w])
    BY <1>4 DEF Reachable
  <2>2. CASE w = v
    BY <1>3, <1>4, <2>1, <2>2
  <2>3. CASE w # v
    <3>1. topic'[w] = topic[w] /\ topic[w] \in 0..Len(commits)
      BY <2>3 DEF PreparationTyped
    <3>2. topic[w] # 0 => commits'[topic[w]] = commits[topic[w]]
      BY <1>0, <3>1 DEF Grew
    <3>3. c \in Preparation!Ancestors(topic[w])'
      BY <2>1, <3>1, <3>2 DEF Preparation!Ancestors, Preparation!NoCommit
    <3> QED BY <3>3
  <2> QED BY <2>2, <2>3
<1>5. 1..Len(commits') = 1..Len(commits) \cup {Len(commits) + 1}
  BY <1>0
<1>6. Reachable'
  BY <1>3, <1>4, <1>5 DEF Reachable
<1> QED BY <1>1, <1>6

\* Branches are deleted only with what is done with.
LEMMA BranchesLeft ==
    ASSUME PreparationTyped, Reachable, commits' = commits, NEW v \in Preparation!Versions,
           gone' = gone \cup Preparation!Ancestors(topic[v]),
           topic' \in {topic, [topic EXCEPT ![v] = Preparation!NoCommit]}
    PROVE  Reachable' /\ topic' \in [Preparation!Versions -> 0..Len(commits')]
<1>1. topic' \in [Preparation!Versions -> 0..Len(commits')]
  <2>1. 0 \in 0..Len(commits) /\ Len(commits) \in Nat
    BY DEF PreparationTyped
  <2>2. [topic EXCEPT ![v] = 0] \in [Preparation!Versions -> 0..Len(commits)]
    BY <2>1 DEF PreparationTyped
  <2> QED BY <2>2 DEF PreparationTyped, Preparation!NoCommit
<1>2. ASSUME NEW c \in 1..Len(commits), c \notin gone'
      PROVE  \E w \in Preparation!Versions : c \in Preparation!Ancestors(topic[w])'
  <2>1. PICK w \in Preparation!Versions : c \in Preparation!Ancestors(topic[w])
    BY <1>2 DEF Reachable
  <2>2. w # v
    BY <1>2, <2>1
  <2>3. topic'[w] = topic[w]
    BY <2>2 DEF PreparationTyped
  <2> QED BY <2>1, <2>3 DEF Preparation!Ancestors
<1> QED BY <1>1, <1>2 DEF Reachable

\* The version that is chosen is not below the one of the commit checked out.
LEMMA NotBelow ==
    ASSUME PreparationTyped, Preparation!PreparationAssumption, NEW at \in 1..Len(main),
           NEW v \in Preparation!NextPatch(at) \cup Preparation!Requested(at)
    PROVE  v \in Preparation!Versions /\ v >= Preparation!Base(at)
<1>1. Preparation!Base(at) \in Nat
  <2>1. main[at] \in CommitsOfMain
    BY DEF PreparationTyped
  <2>2. main[at].version \in Preparation!Versions
    BY <2>1 DEF CommitsOfMain
  <2> QED BY <2>2 DEF Preparation!Base, Preparation!Versions
<1>2. CASE v \in Preparation!Requested(at)
  BY <1>2 DEF Preparation!Requested, Preparation!Free
<1>3. CASE v \in Preparation!NextPatch(at)
  <2>1. v \in Preparation!Versions /\ v >= Preparation!Bumped(at)
    BY <1>3 DEF Preparation!NextPatch, Preparation!Free
  <2> DEFINE S == Preparation!Stable(at)
  <2>2. S \in SUBSET Preparation!Versions
    BY DEF Preparation!Stable, PreparationTyped
  <2>3. v \in Nat /\ \A x \in Preparation!Versions : x \in Nat /\ x <= MaxVersion /\ x # 0
    BY <2>1 DEF Preparation!Versions, Preparation!PreparationAssumption
  <2>4. S # {} => Preparation!Highest(S) \in S
    <3>1. S \in SUBSET Nat /\ MaxVersion \in Nat /\ \A x \in S : x <= MaxVersion /\ x # 0
      BY <2>2, <2>3 DEF Preparation!PreparationAssumption
    <3> HIDE DEF S
    <3>2. Largest(S) \in S \cup {0} /\ \A x \in S : x <= Largest(S)
      BY <3>1, LargestBounds
    <3>3. S # {} => Largest(S) # 0
      <4> SUFFICES ASSUME NEW x \in S PROVE Largest(S) # 0
        OBVIOUS
      <4>1. x \in Nat /\ x # 0 /\ x <= Largest(S)
        BY <3>1, <3>2
      <4> QED BY <4>1
    <3>4. S # {} => \E x \in S : \A y \in S : y <= x
      BY <3>2, <3>3
    <3> QED BY <3>4 DEF Preparation!Highest
  <2>5. Preparation!Bumped(at) >= Preparation!Base(at)
    <3>1. S # {} => Preparation!Highest(S) \in Nat
      BY <2>2, <2>3, <2>4
    <3> QED BY <1>1, <3>1 DEF Preparation!Bumped
  <2>6. Preparation!Bumped(at) \in Nat
    <3>1. S # {} => Preparation!Highest(S) \in Nat
      BY <2>2, <2>3, <2>4
    <3> QED BY <1>1, <3>1 DEF Preparation!Bumped
  <2> QED BY <1>1, <2>1, <2>3, <2>5, <2>6
<1> QED BY <1>2, <1>3

\* A step of one preparation that leaves commits, tags and branches as they are.
LEMMA OwnStep ==
    ASSUME PreparationInv, UNCHANGED <<main, prepareTags, commits, topic, merged, gone>>,
           NEW p \in Preparers,
           preparePc' \in [Preparers -> PreparationSteps], prepareHead' \in [Preparers -> Nat],
           target' \in [Preparers -> Nat], tip' \in [Preparers -> 0..Len(commits)],
           opened' \in [Preparers -> BOOLEAN], Preparing(p)',
           \A q \in Preparers \ {p} :
               /\ preparePc'[q] = preparePc[q] /\ prepareHead'[q] = prepareHead[q]
               /\ target'[q] = target[q] /\ tip'[q] = tip[q]
    PROVE  PreparationInv'
<1>1. PreparationTyped' /\ Grew /\ Descent' /\ MergedWhole' /\ Len(commits) \in Nat
  BY DEF PreparationInv, PreparationTyped, Grew, Descent, MergedWhole
<1>2. BuiltOnOwn' /\ Reachable'
  BY DEF PreparationInv, BuiltOnOwn, Reachable, Preparation!Merged, Preparation!Ancestors
<1>3. ASSUME NEW q \in Preparers \ {p} PROVE Preparing(q)'
  BY <1>1, <1>3, PreparingKept DEF PreparationInv
<1> QED BY <1>1, <1>2, <1>3 DEF PreparationInv

\* A step that changes the repository: what is held of it stays true.
LEMMA SharedStep ==
    ASSUME PreparationInv, Grew, UNCHANGED Preparation!local,
           main' \in Seq(CommitsOfMain), Len(main') # 0, commits' \in Seq(CommitsOfBranches),
           \A t \in prepareTags' : t.version \in Preparation!Versions,
           topic' \in [Preparation!Versions -> 0..Len(commits')],
           Descent', MergedWhole', BuiltOnOwn', Reachable'
    PROVE  PreparationInv'
<1>1. UNCHANGED <<preparePc, prepareHead, target, tip, opened>>
  BY DEF Preparation!local
<1>2. tip' \in [Preparers -> 0..Len(commits')]
  <2>1. Len(commits) \in Nat /\ Len(commits') \in Nat /\ Len(commits) <= Len(commits')
    BY DEF PreparationInv, PreparationTyped, Grew
  <2>2. \A c \in 0..Len(commits) : c \in 0..Len(commits')
    BY <2>1
  <2> QED BY <1>1, <2>2 DEF PreparationInv, PreparationTyped
<1>3. PreparationTyped'
  BY <1>1, <1>2 DEF PreparationInv, PreparationTyped
<1>4. ASSUME NEW q \in Preparers PROVE Preparing(q)'
  BY <1>1, PreparingKept DEF PreparationInv
<1> QED BY <1>3, <1>4 DEF PreparationInv

\* The commit of a preparation.
LEMMA PushStep ==
    ASSUME PreparationInv, NEW p \in Preparers, Preparation!Push(p)
    PROVE  PreparationInv'
<1> USE DEF Preparation!Push
<1>1. /\ preparePc[p] = "commit" /\ preparePc' = [preparePc EXCEPT ![p] = "pull"]
      /\ UNCHANGED <<main, prepareTags, pulls, merged, gone, prepareHead, target, tip, opened>>
  BY DEF Preparation!At
<1>2. /\ PreparationTyped /\ Descent /\ MergedWhole /\ BuiltOnOwn /\ Reachable
      /\ \A q \in Preparers : Preparing(q)
  BY DEF PreparationInv
<1>3. /\ prepareHead[p] \in 1..Len(main) /\ prepareHead[p] \in Nat
      /\ target[p] \in Preparation!Versions /\ target[p] >= Preparation!Base(prepareHead[p])
      /\ tip[p] # 0 => Adopted(tip[p], prepareHead[p])
      /\ tip[p] \in 0..Len(commits) /\ Len(commits) \in Nat /\ Len(main) \in Nat
  BY <1>1, <1>2 DEF Preparing, PreparationTyped
<1>4. /\ preparePc' \in [Preparers -> PreparationSteps] /\ preparePc'[p] = "pull"
      /\ \A q \in Preparers \ {p} : preparePc'[q] = preparePc[q]
  BY <1>1, <1>2 DEF PreparationTyped, PreparationSteps
<1>5. Preparing(p)'
  <2>1. Preparation!Base(prepareHead[p])' = Preparation!Base(prepareHead[p])
    BY <1>1 DEF Preparation!Base
  <2>2. target'[p] \in Preparation!Versions /\ target'[p] >= Preparation!Base(prepareHead[p])'
    BY <1>1, <1>3, <2>1
  <2> QED BY <1>1, <1>3, <1>4, <2>2 DEF Preparing
<1>6. CASE Preparation!UpToDate(p)
  <2>1. UNCHANGED <<commits, topic>>
    BY <1>6
  <2> HIDE DEF Preparation!Push
  <2> QED BY <1>1, <1>2, <1>4, <1>5, <2>1, OwnStep DEF PreparationTyped
<1>7. CASE ~Preparation!UpToDate(p)
  <2> DEFINE at == prepareHead[p]
  <2> DEFINE B == Preparation!Ancestors(tip[p]) \cup Preparation!Merged(at)
  <2>1. /\ commits' = Append(commits, [main |-> at, foreign |-> FALSE, before |-> B])
        /\ topic' = [topic EXCEPT ![target[p]] = Len(commits')]
        /\ \/ topic[target[p]] = Preparation!NoCommit
           \/ topic[target[p]] \in B
    BY <1>7
  <2> HIDE DEF Preparation!Push
  <2>2. \A c \in Preparation!Merged(at) :
          /\ c \in 1..Len(commits) /\ c \in gone
          /\ \A b \in commits[c].before : b \in gone /\ b \in Preparation!Merged(at)
    BY <1>2, <1>3, MergedClosed
  <2>3. tip[p] # 0 =>
          /\ tip[p] \in 1..Len(commits) /\ commits[tip[p]].before \subseteq 1..Len(commits)
          /\ \A b \in commits[tip[p]].before : commits[b].before \subseteq commits[tip[p]].before
    BY <1>2, <1>3 DEF Descent
  <2>4. \A b \in Preparation!Ancestors(tip[p]) :
          b \in 1..Len(commits) /\ commits[b].before \subseteq Preparation!Ancestors(tip[p])
    BY <2>3 DEF Preparation!Ancestors, Preparation!NoCommit
  <2>5. B \in SUBSET (1..Len(commits)) /\ \A b \in B : commits[b].before \subseteq B
    BY <2>2, <2>4
  <2>6. ASSUME NEW b \in B, commits[b].foreign PROVE b \in Preparation!Merged(at)
    <3> SUFFICES ASSUME b \in Preparation!Ancestors(tip[p]) PROVE b \in Preparation!Merged(at)
      BY <2>6
    <3>1. tip[p] # 0 /\ b \in commits[tip[p]].before \cup {tip[p]}
      BY DEF Preparation!Ancestors, Preparation!NoCommit
    <3>2. CASE tip[p] \in Preparation!Merged(at)
      BY <2>2, <3>1, <3>2
    <3>3. CASE /\ ~commits[tip[p]].foreign
               /\ commits[tip[p]].main > at =>
                    Preparation!SameSources(commits[tip[p]].main, at)
      <4>1. b \in commits[tip[p]].before
        BY <2>6, <3>1, <3>3
      <4>2. /\ b \in Preparation!Merged(commits[tip[p]].main)
            /\ commits[tip[p]].main \in 1..Len(main) /\ commits[tip[p]].main \in Nat
        BY <1>2, <2>3, <2>6, <3>1, <3>3, <4>1 DEF BuiltOnOwn, Descent
      <4>3. commits[tip[p]].main <= at
        BY <1>3, <1>7, <3>1, <3>3, <4>2 DEF Preparation!UpToDate, Preparation!NoCommit
      <4> QED BY <1>1, <1>2, <1>3, <4>2, <4>3, MergedStays
    <3> QED BY <1>3, <3>1, <3>2, <3>3 DEF Adopted
  <2> HIDE DEF B
  <2>7. /\ Descent' /\ MergedWhole' /\ BuiltOnOwn' /\ Grew
        /\ commits' \in Seq(CommitsOfBranches)
        /\ Len(commits') = Len(commits) + 1 /\ commits'[Len(commits) + 1].before = B
    BY <1>1, <1>2, <1>3, <2>1, <2>5, <2>6, CommitAdded
  <2>8. \A c \in Preparation!Ancestors(topic[target[p]]) : c \in B
    <3>1. topic[target[p]] # 0 => topic[target[p]] \in B
      BY <2>1 DEF Preparation!NoCommit
    <3> QED BY <2>5, <3>1 DEF Preparation!Ancestors, Preparation!NoCommit
  <2>9. Reachable' /\ topic' \in [Preparation!Versions -> 0..Len(commits')]
    BY <1>1, <1>2, <1>3, <2>1, <2>7, <2>8, BranchMoved
  <2>10. tip' \in [Preparers -> 0..Len(commits')]
    <3>1. \A c \in 0..Len(commits) : c \in 0..Len(commits')
      BY <1>3, <2>7
    <3> QED BY <1>1, <1>2, <3>1 DEF PreparationTyped
  <2>11. PreparationTyped'
    BY <1>1, <1>2, <1>4, <2>7, <2>9, <2>10 DEF PreparationTyped
  <2>12. ASSUME NEW q \in Preparers \ {p} PROVE Preparing(q)'
    BY <1>1, <1>2, <1>4, <2>7, <2>12, PreparingKept
  <2> QED BY <1>5, <2>7, <2>9, <2>11, <2>12 DEF PreparationInv
<1> QED BY <1>6, <1>7

\* The steps of a preparation.
LEMMA PreparationMoves ==
    ASSUME Preparation!PreparationAssumption, PreparationInv, NEW p \in Preparers,
           \/ Preparation!Fetch(p) \/ Preparation!Choose(p) \/ Preparation!Pulls(p)
           \/ Preparation!Topic(p) \/ Preparation!Unchanged(p) \/ Preparation!Pull(p)
           \/ Preparation!Stop(p)
    PROVE  PreparationInv'
<1>0. PreparationTyped /\ Descent /\ Preparing(p) /\ Len(main) \in Nat /\ Len(commits) \in Nat
  BY DEF PreparationInv, PreparationTyped
<1>1. CASE Preparation!Fetch(p)
  <2>1. /\ preparePc' = [preparePc EXCEPT ![p] = "choose"] /\ preparePc[p] = "start"
        /\ prepareHead' = [prepareHead EXCEPT ![p] = Len(main)]
        /\ UNCHANGED <<main, prepareTags, commits, topic, merged, gone, target, tip, opened>>
    BY <1>1 DEF Preparation!Fetch, Preparation!At, Preparation!remote
  <2>2. /\ preparePc' \in [Preparers -> PreparationSteps] /\ prepareHead' \in [Preparers -> Nat]
        /\ preparePc'[p] = "choose" /\ prepareHead'[p] = Len(main)
    BY <1>0, <2>1 DEF PreparationTyped, PreparationSteps
  <2>3. Preparing(p)'
    BY <1>0, <2>1, <2>2 DEF Preparing, PreparationTyped
  <2> QED BY <1>0, <2>1, <2>2, <2>3, OwnStep DEF PreparationTyped
<1>2. CASE Preparation!Choose(p)
  <2>1. /\ preparePc' = [preparePc EXCEPT ![p] = "pulls"] /\ preparePc[p] = "choose"
        /\ UNCHANGED <<main, prepareTags, commits, topic, merged, gone, prepareHead, tip, opened>>
    BY <1>2 DEF Preparation!Choose, Preparation!At, Preparation!remote
  <2>2. prepareHead[p] \in 1..Len(main)
    BY <1>0, <2>1 DEF Preparing
  <2>3. PICK v \in Preparation!NextPatch(prepareHead[p])
                   \cup Preparation!Requested(prepareHead[p]) :
          target' = [target EXCEPT ![p] = v]
    BY <1>2 DEF Preparation!Choose
  <2>4. v \in Preparation!Versions /\ v >= Preparation!Base(prepareHead[p]) /\ v \in Nat
    BY <1>0, <2>2, NotBelow DEF Preparation!Versions
  <2>5. /\ preparePc' \in [Preparers -> PreparationSteps] /\ target' \in [Preparers -> Nat]
        /\ preparePc'[p] = "pulls" /\ target'[p] = v
    BY <1>0, <2>1, <2>3, <2>4 DEF PreparationTyped, PreparationSteps
  <2>6. Preparing(p)'
    BY <2>1, <2>2, <2>4, <2>5 DEF Preparing, Preparation!Base
  <2> QED BY <1>0, <2>1, <2>3, <2>5, <2>6, OwnStep DEF PreparationTyped
<1>3. CASE Preparation!Pulls(p)
  <2>1. /\ preparePc' = [preparePc EXCEPT ![p] = "topic"] /\ preparePc[p] = "pulls"
        /\ opened' = [opened EXCEPT ![p] = target[p] \in pulls]
        /\ UNCHANGED <<main, prepareTags, commits, topic, merged, gone, prepareHead, target, tip>>
    BY <1>3 DEF Preparation!Pulls, Preparation!At, Preparation!remote
  <2>2. preparePc' \in [Preparers -> PreparationSteps] /\ preparePc'[p] = "topic"
    BY <1>0, <2>1 DEF PreparationTyped, PreparationSteps
  <2>3. opened' \in [Preparers -> BOOLEAN]
    BY <1>0, <2>1 DEF PreparationTyped
  <2>4. Preparing(p)'
    BY <1>0, <2>1, <2>2 DEF Preparing, Preparation!Base
  <2> QED BY <1>0, <2>1, <2>2, <2>3, <2>4, OwnStep DEF PreparationTyped
<1>4. CASE Preparation!Topic(p)
  <2> DEFINE t == topic[target[p]]
  <2>1. /\ preparePc' = [preparePc EXCEPT ![p] = "commit"] /\ preparePc[p] = "topic"
        /\ tip' = [tip EXCEPT ![p] = t]
        /\ UNCHANGED <<main, prepareTags, commits, topic, merged, gone, prepareHead, target,
                       opened>>
    BY <1>4 DEF Preparation!Topic, Preparation!At, Preparation!remote
  <2>2. t \in 0..Len(commits) /\ prepareHead[p] \in 1..Len(main)
    BY <1>0, <2>1 DEF Preparing, PreparationTyped
  <2>3. t # 0 => Adopted(t, prepareHead[p])
    BY <1>4 DEF Preparation!Topic, Preparation!NoCommit, Adopted
  <2> HIDE DEF t
  <2>4. /\ preparePc' \in [Preparers -> PreparationSteps]
        /\ tip' \in [Preparers -> 0..Len(commits)] /\ preparePc'[p] = "commit" /\ tip'[p] = t
    BY <1>0, <2>1, <2>2 DEF PreparationTyped, PreparationSteps
  <2>5. Adopted(t, prepareHead[p]) <=> Adopted(t, prepareHead[p])'
    <3>1. t' = t
      BY <2>1 DEF t
    <3> QED BY <2>1, <3>1 DEF Adopted, Preparation!Merged, Preparation!SameSources
  <2>6. t # 0 => Adopted(tip[p], prepareHead[p])'
    <3>1. t' = t
      BY <2>1 DEF t
    <3> QED BY <2>1, <2>3, <2>4, <2>5, <3>1 DEF Adopted
  <2>7. Preparing(p)'
    BY <1>0, <2>1, <2>2, <2>4, <2>6 DEF Preparing, Preparation!Base
  <2> QED BY <1>0, <2>1, <2>4, <2>7, OwnStep DEF PreparationTyped
<1>5. CASE Preparation!Unchanged(p) \/ Preparation!Pull(p)
  <2>1. /\ preparePc' = [preparePc EXCEPT ![p] = "done"] /\ preparePc[p] \in {"commit", "pull"}
        /\ UNCHANGED <<main, prepareTags, commits, topic, merged, gone, prepareHead, target, tip,
                       opened>>
    BY <1>5 DEF Preparation!Unchanged, Preparation!Pull, Preparation!remote
  <2>2. preparePc' \in [Preparers -> PreparationSteps] /\ preparePc'[p] = "done"
    BY <1>0, <2>1 DEF PreparationTyped, PreparationSteps
  <2>3. Preparing(p)'
    BY <1>0, <2>1, <2>2 DEF Preparing, Preparation!Base
  <2> QED BY <1>0, <2>1, <2>2, <2>3, OwnStep DEF PreparationTyped
<1>6. CASE Preparation!Stop(p)
  <2>1. /\ preparePc' = [preparePc EXCEPT ![p] = "start"]
        /\ prepareHead' = [prepareHead EXCEPT ![p] = 0] /\ target' = [target EXCEPT ![p] = 0]
        /\ tip' = [tip EXCEPT ![p] = 0] /\ opened' = [opened EXCEPT ![p] = FALSE]
        /\ UNCHANGED <<main, prepareTags, commits, topic, merged, gone>>
    BY <1>6 DEF Preparation!Stop, Preparation!remote, Preparation!NoCommit
  <2>2. /\ preparePc' \in [Preparers -> PreparationSteps] /\ prepareHead' \in [Preparers -> Nat]
        /\ target' \in [Preparers -> Nat] /\ tip' \in [Preparers -> 0..Len(commits)]
        /\ preparePc'[p] = "start" /\ target'[p] = 0
    BY <1>0, <2>1 DEF PreparationTyped, PreparationSteps
  <2>3. opened' \in [Preparers -> BOOLEAN]
    BY <1>0, <2>1 DEF PreparationTyped
  <2>4. Preparing(p)'
    BY <2>2 DEF Preparing
  <2>5. \A q \in Preparers \ {p} :
          /\ preparePc'[q] = preparePc[q] /\ prepareHead'[q] = prepareHead[q]
          /\ target'[q] = target[q] /\ tip'[q] = tip[q]
    BY <1>0, <2>1 DEF PreparationTyped
  <2> QED BY <2>1, <2>2, <2>3, <2>4, <2>5, OwnStep
<1> QED BY <1>1, <1>2, <1>3, <1>4, <1>5, <1>6

\* What becomes merged, becomes so with its ancestors.
LEMMA MergedAdded ==
    ASSUME PreparationTyped, Descent, MergedWhole, Len(main') = Len(main) + 1, commits' = commits,
           NEW v \in Preparation!Versions,
           gone' = gone \cup Preparation!Ancestors(topic[v]),
           merged' \in {merged, merged \cup {[commit |-> c, at |-> Len(main')] :
                                             c \in Preparation!Ancestors(topic[v])}}
    PROVE  MergedWhole' /\ merged \subseteq merged'
<1> DEFINE A == Preparation!Ancestors(topic[v])
<1> DEFINE M == {[commit |-> c, at |-> Len(main')] : c \in A}
<1>0. Len(main) \in Nat /\ topic[v] \in 0..Len(commits) /\ Len(commits) \in Nat
  BY DEF PreparationTyped
<1>1. \A c \in A : c \in 1..Len(commits) /\ commits[c].before \subseteq A
  BY <1>0 DEF Descent, Preparation!Ancestors, Preparation!NoCommit
<1>2. gone' = gone \cup A /\ (merged' = merged \/ merged' = merged \cup M)
  OBVIOUS
<1> HIDE DEF A
<1>3. ASSUME NEW m \in M
      PROVE  /\ m = [commit |-> m.commit, at |-> m.at] /\ m.commit \in 1..Len(commits)
             /\ m.at \in 1..Len(main') /\ m.commit \in gone'
             /\ \A b \in commits[m.commit].before : [commit |-> b, at |-> m.at] \in M
  <2>1. PICK c \in A : m = [commit |-> c, at |-> Len(main')]
    OBVIOUS
  <2> QED BY <1>0, <1>1, <1>2, <2>1
<1> HIDE DEF M
<1>4. ASSUME NEW m \in merged
      PROVE  /\ m = [commit |-> m.commit, at |-> m.at] /\ m.commit \in 1..Len(commits)
             /\ m.at \in 1..Len(main') /\ m.commit \in gone'
             /\ \A b \in commits[m.commit].before : [commit |-> b, at |-> m.at] \in merged
  BY <1>0, <1>2 DEF MergedWhole
<1>5. /\ merged \subseteq merged'
      /\ \A m \in merged' : m \in merged \/ (m \in M /\ M \subseteq merged')
  BY <1>2
<1>6. ASSUME NEW m \in merged'
      PROVE  /\ m = [commit |-> m.commit, at |-> m.at] /\ m.commit \in 1..Len(commits)
             /\ m.at \in 1..Len(main') /\ m.commit \in gone'
             /\ \A b \in commits[m.commit].before : [commit |-> b, at |-> m.at] \in merged'
  BY <1>3, <1>4, <1>5
<1> QED BY <1>5, <1>6 DEF MergedWhole

\* The steps of other people.
LEMMA OthersMove ==
    ASSUME Preparation!PreparationAssumption, PreparationInv,
           \/ Preparation!MergeOther \/ Preparation!Release
           \/ \E v \in Preparation!Versions :
                Preparation!MergePull(v) \/ Preparation!PushForeign(v) \/ Preparation!Close(v)
    PROVE  PreparationInv'
<1>0. /\ PreparationTyped /\ Descent /\ MergedWhole /\ BuiltOnOwn /\ Reachable
      /\ Len(main) \in Nat /\ Len(main) # 0 /\ Len(commits) \in Nat
  BY DEF PreparationInv, PreparationTyped
<1>1. main[Len(main)] \in CommitsOfMain /\ main[Len(main)].sources \in Nat
  <2>1. main[Len(main)] \in CommitsOfMain
    BY <1>0 DEF PreparationTyped
  <2> QED BY <2>1 DEF CommitsOfMain
<1>2. ASSUME NEW w \in CommitsOfMain, main' = Append(main, w)
      PROVE  /\ main' \in Seq(CommitsOfMain) /\ Len(main') = Len(main) + 1
             /\ \A i \in 1..Len(main) : main'[i] = main[i]
  BY <1>0, <1>2 DEF PreparationTyped
<1>3. CASE Preparation!MergeOther
  <2>1. /\ main' = Append(main, [main[Len(main)] EXCEPT !.sources = @ + 1])
        /\ UNCHANGED <<prepareTags, commits, topic, pulls, merged, gone>>
        /\ UNCHANGED Preparation!local
    BY <1>3 DEF Preparation!MergeOther
  <2>2. [main[Len(main)] EXCEPT !.sources = @ + 1] \in CommitsOfMain
    BY <1>1 DEF CommitsOfMain
  <2>3. /\ main' \in Seq(CommitsOfMain) /\ Len(main') = Len(main) + 1
        /\ \A i \in 1..Len(main) : main'[i] = main[i]
    BY <1>2, <2>1, <2>2
  <2>4. Grew
    BY <1>0, <2>1, <2>3 DEF Grew
  <2>5. Descent' /\ BuiltOnOwn'
    BY <1>0, <2>1, <2>4, HistoryKept
  <2>6. MergedWhole' /\ Reachable'
    BY <1>0, <2>1, <2>3 DEF MergedWhole, Reachable, Preparation!Ancestors
  <2> QED BY <1>0, <2>1, <2>3, <2>4, <2>5, <2>6, SharedStep DEF PreparationTyped
<1>4. CASE Preparation!Release
  <2>1. /\ prepareTags' = prepareTags \cup {[version |-> Preparation!Base(Len(main)),
                                             at |-> Len(main)]}
        /\ UNCHANGED <<main, commits, topic, pulls, merged, gone>> /\ UNCHANGED Preparation!local
    BY <1>4 DEF Preparation!Release
  <2>2. Preparation!Base(Len(main)) \in Preparation!Versions
    BY <1>1 DEF Preparation!Base, CommitsOfMain
  <2>3. \A t \in prepareTags' : t.version \in Preparation!Versions
    BY <1>0, <2>1, <2>2 DEF PreparationTyped
  <2>4. Grew
    BY <1>0, <2>1 DEF Grew
  <2>5. Descent' /\ BuiltOnOwn'
    BY <1>0, <2>1, <2>4, HistoryKept
  <2>6. MergedWhole' /\ Reachable'
    BY <1>0, <2>1 DEF MergedWhole, Reachable, Preparation!Ancestors
  <2> QED BY <1>0, <2>1, <2>3, <2>4, <2>5, <2>6, SharedStep DEF PreparationTyped
<1>5. ASSUME NEW v \in Preparation!Versions, Preparation!MergePull(v) PROVE PreparationInv'
  <2>1. PICK n \in Nat : main' = Append(main, [version |-> v, sources |-> n])
    <3>1. main[Len(main)].sources + 1 \in Nat
      BY <1>1
    <3> QED BY <1>1, <1>5, <3>1 DEF Preparation!MergePull
  <2>2. /\ gone' = gone \cup Preparation!Ancestors(topic[v])
        /\ merged' \in {merged, merged \cup {[commit |-> c, at |-> Len(main')] :
                                              c \in Preparation!Ancestors(topic[v])}}
        /\ topic' \in {topic, [topic EXCEPT ![v] = Preparation!NoCommit]}
        /\ UNCHANGED <<prepareTags, commits>> /\ UNCHANGED Preparation!local
    BY <1>5 DEF Preparation!MergePull, Preparation!NoCommit
  <2> HIDE <1>5
  <2>3. /\ main' \in Seq(CommitsOfMain) /\ Len(main') = Len(main) + 1
        /\ \A i \in 1..Len(main) : main'[i] = main[i]
    <3>1. [version |-> v, sources |-> n] \in CommitsOfMain
      BY DEF CommitsOfMain
    <3> QED BY <1>2, <2>1, <3>1
  <2>4. MergedWhole' /\ merged \subseteq merged'
    BY <1>0, <2>2, <2>3, MergedAdded
  <2>5. Grew
    BY <1>0, <2>2, <2>3, <2>4 DEF Grew
  <2>6. Descent' /\ BuiltOnOwn'
    BY <1>0, <2>2, <2>5, HistoryKept
  <2>7. Reachable' /\ topic' \in [Preparation!Versions -> 0..Len(commits')]
    BY <1>0, <2>2, BranchesLeft
  <2> QED BY <1>0, <2>2, <2>3, <2>4, <2>5, <2>6, <2>7, SharedStep DEF PreparationTyped
<1>6. ASSUME NEW v \in Preparation!Versions, Preparation!PushForeign(v) PROVE PreparationInv'
  <2> DEFINE B == Preparation!Ancestors(topic[v])
  <2>1. /\ commits' = Append(commits, [main |-> Len(main), foreign |-> TRUE, before |-> B])
        /\ topic' = [topic EXCEPT ![v] = Len(commits')]
        /\ UNCHANGED <<main, prepareTags, merged, gone>> /\ UNCHANGED Preparation!local
    BY <1>6 DEF Preparation!PushForeign
  <2>2. topic[v] \in 0..Len(commits)
    BY <1>0 DEF PreparationTyped
  <2>3. B \in SUBSET (1..Len(commits)) /\ \A b \in B : commits[b].before \subseteq B
    BY <1>0, <2>2 DEF Descent, Preparation!Ancestors, Preparation!NoCommit
  <2>4. \A c \in Preparation!Ancestors(topic[v]) : c \in B
    OBVIOUS
  <2> HIDE DEF B
  <2>5. /\ Descent' /\ MergedWhole' /\ BuiltOnOwn' /\ Grew
        /\ commits' \in Seq(CommitsOfBranches)
        /\ Len(commits') = Len(commits) + 1 /\ commits'[Len(commits) + 1].before = B
    <3>1. Len(main) \in 1..Len(main) /\ TRUE \in BOOLEAN
      BY <1>0
    <3> QED BY <1>0, <2>1, <2>3, <3>1, CommitAdded
  <2>6. Reachable' /\ topic' \in [Preparation!Versions -> 0..Len(commits')]
    BY <1>0, <2>1, <2>4, <2>5, BranchMoved
  <2> QED BY <1>0, <2>1, <2>5, <2>6, SharedStep DEF PreparationTyped
<1>7. ASSUME NEW v \in Preparation!Versions, Preparation!Close(v) PROVE PreparationInv'
  <2>1. /\ gone' = gone \cup Preparation!Ancestors(topic[v])
        /\ topic' \in {topic, [topic EXCEPT ![v] = Preparation!NoCommit]}
        /\ UNCHANGED <<main, prepareTags, commits, merged>> /\ UNCHANGED Preparation!local
    BY <1>7 DEF Preparation!Close
  <2>2. Grew
    BY <1>0, <2>1 DEF Grew
  <2>3. Descent' /\ BuiltOnOwn'
    BY <1>0, <2>1, <2>2, HistoryKept
  <2>4. MergedWhole'
    BY <1>0, <2>1 DEF MergedWhole
  <2>5. Reachable' /\ topic' \in [Preparation!Versions -> 0..Len(commits')]
    BY <1>0, <2>1, BranchesLeft
  <2> QED BY <1>0, <2>1, <2>2, <2>3, <2>4, <2>5, SharedStep DEF PreparationTyped
<1> QED BY <1>3, <1>4, <1>5, <1>6, <1>7

LEMMA PreparationStarts ==
    ASSUME Preparation!PreparationAssumption, Preparation!Init
    PROVE  PreparationInv
<1>1. PICK b \in Preparation!Versions : main = <<[version |-> b, sources |-> 0]>>
  BY DEF Preparation!Init
<1>2. /\ prepareTags = {} /\ commits = <<>> /\ topic = [v \in Preparation!Versions |-> 0]
      /\ merged = {} /\ gone = {} /\ preparePc = [p \in Preparers |-> "start"]
      /\ prepareHead = [p \in Preparers |-> 0] /\ target = [p \in Preparers |-> 0]
      /\ tip = [p \in Preparers |-> 0] /\ opened = [p \in Preparers |-> FALSE]
  BY DEF Preparation!Init, Preparation!NoCommit
<1>3. main \in Seq(CommitsOfMain) /\ Len(main) = 1
  <2>1. [version |-> b, sources |-> 0] \in CommitsOfMain
    BY DEF CommitsOfMain
  <2> QED BY <1>1, <2>1
<1>4. commits \in Seq(CommitsOfBranches) /\ Len(commits) = 0 /\ 0 \in 0..Len(commits)
  BY <1>2
<1>5. opened \in [Preparers -> BOOLEAN]
  BY <1>2
<1>6. PreparationTyped
  BY <1>2, <1>3, <1>4, <1>5 DEF PreparationTyped, PreparationSteps
<1>7. Descent /\ MergedWhole /\ BuiltOnOwn /\ Reachable
  BY <1>2, <1>4 DEF Descent, MergedWhole, BuiltOnOwn, Reachable
<1>8. \A p \in Preparers : Preparing(p)
  BY <1>2 DEF Preparing
<1> QED BY <1>6, <1>7, <1>8 DEF PreparationInv

LEMMA PreparationInductive ==
    ASSUME Preparation!PreparationAssumption, PreparationInv, [Preparation!Next]_PreparationVars
    PROVE  PreparationInv'
<1>1. CASE Preparation!Next
  BY <1>1, PreparationMoves, PushStep, OthersMove DEF Preparation!Next
<1>2. CASE UNCHANGED PreparationVars
  BY <1>2 DEF PreparationVars, PreparationInv, PreparationTyped, Descent, MergedWhole, BuiltOnOwn,
     Reachable, Preparing, Adopted, Preparation!Merged, Preparation!Ancestors, Preparation!Base,
     Preparation!SameSources
<1> QED BY <1>1, <1>2

\* However preparations overlap, stop and are started again, and whatever others push,
\* merge, release, close and delete meanwhile: none builds on what somebody else pushed
\* and nobody merged, no commit of a branch that is not done with is lost, and no version
\* is below the one it was cut from (verify_owned_topic, choose_version, prepare).
THEOREM OwnedTopicCorrect ==
    MCSpec => []OwnedTopic
<1> DEFINE Inv == part = "preparation" => PreparationInv
<1>1. MCInit => Inv
  BY PreparationConstants, PreparationStarts DEF MCInit
<1>2. Inv /\ [MCNext]_MCvars => Inv'
  <2> SUFFICES ASSUME PreparationInv, [MCNext]_MCvars, part = "preparation"
               PROVE  PreparationInv'
    BY DEF MCNext, MCvars
  <2>1. [Preparation!Next]_PreparationVars
    BY DEF MCNext, MCvars
  <2> QED BY <2>1, PreparationConstants, PreparationInductive
<1>3. Inv => OwnedTopic
  <2> SUFFICES ASSUME PreparationInv PROVE Preparation!OwnedTopic
    BY DEF OwnedTopic
  <2>1. DOMAIN commits = 1..Len(commits)
    BY DEF PreparationInv, PreparationTyped
  <2>2. \A p \in Preparers : target[p] # 0 => target[p] >= Preparation!Base(prepareHead[p])
    BY DEF PreparationInv, Preparing
  <2> QED BY <2>1, <2>2 DEF Preparation!OwnedTopic, PreparationInv, BuiltOnOwn, Reachable
<1> HIDE DEF Inv
<1> QED BY <1>1, <1>2, <1>3, PTL DEF MCSpec
-----------------------------------------------------------------------------
(* The images of a release                                                 *)

\* What both programs need of the constants.
LEMMA ImageConstants ==
    /\ Destinations \in Seq(Stable!Image) /\ Len(Destinations) \in Nat \ {0}
    /\ DOMAIN Destinations = 1..Len(Destinations) /\ Stable!Ghcr \in Stable!Image
    /\ \A n \in 1..Len(Destinations) : Destinations[n] \in Stable!Image
    /\ \A i \in Stable!Image : \E n \in 1..Len(Destinations) : i = Destinations[n]
    /\ "foreign" \notin Approvable /\ "replaced" \notin Approvable /\ "nothing" \notin Approvable
<1>1. /\ Destinations \in Seq(Stable!Image) /\ Destinations # <<>>
      /\ "foreign" \notin Approvable /\ "replaced" \notin Approvable /\ "nothing" \notin Approvable
  BY StableConstants DEF Stable!ImageAssumption, Stable!Foreign, Stable!Replaced, Stable!Nothing
<1>2. Len(Destinations) \in Nat \ {0} /\ DOMAIN Destinations = 1..Len(Destinations)
  BY <1>1
<1>3. Stable!Ghcr = Destinations[1]
  BY <1>1 DEF Stable!Ghcr
<1> QED BY <1>1, <1>2, <1>3 DEF Stable!Image

\* Tags and digests, by the names both programs have for them.
Digests == Approvable \cup {"foreign", "replaced", "nothing"}
ExactTag(v) == <<"exact", v>>
VersionTag(v) == <<"version", v>>
Latest == <<"latest", "nothing">>
ReleaseTags == {ExactTag(v) : v \in Approvable} \cup {VersionTag(v) : v \in Approvable}

\* The two programs name the tags alike, and no two of these are the same.
LEMMA TagsAre ==
    /\ Stable!Tags = ReleaseTags \cup {Latest} /\ Candidate!Tags = Stable!Tags
    /\ Latest \notin ReleaseTags /\ Stable!Latest = Latest /\ Candidate!Latest = Latest
    /\ Candidate!Image = Stable!Image /\ Candidate!Ghcr = Stable!Ghcr
    /\ \A v : /\ Stable!VersionTag(v) = VersionTag(v) /\ Candidate!VersionTag(v) = VersionTag(v)
              /\ Candidate!ExactTag(v) = ExactTag(v)
              /\ ExactTag(v) # Latest /\ VersionTag(v) # Latest
    /\ \A v, w : /\ ExactTag(v) # VersionTag(w) /\ (ExactTag(v) = ExactTag(w) => v = w)
                 /\ (VersionTag(v) = VersionTag(w) => v = w)
    /\ \A v \in Approvable : ExactTag(v) \in ReleaseTags /\ VersionTag(v) \in ReleaseTags
<1>1. /\ Stable!Tags = ReleaseTags \cup {Latest} /\ Candidate!Tags = Stable!Tags
  BY DEF Stable!Tags, Candidate!Tags, ReleaseTags, Stable!ExactTag, Stable!VersionTag,
     Stable!Latest, Candidate!ExactTag, Candidate!VersionTag, Candidate!Latest, ExactTag, VersionTag, Latest,
     Stable!Nothing, Candidate!Nothing
<1>2. /\ Stable!Latest = Latest /\ Candidate!Latest = Latest
      /\ \A v : /\ Stable!VersionTag(v) = VersionTag(v) /\ Candidate!VersionTag(v) = VersionTag(v)
                /\ Candidate!ExactTag(v) = ExactTag(v)
  BY DEF Stable!Latest, Candidate!Latest, Latest, Stable!Nothing, Candidate!Nothing,
     Stable!VersionTag, Candidate!VersionTag, VersionTag, Candidate!ExactTag, ExactTag
<1>3. Candidate!Image = Stable!Image /\ Candidate!Ghcr = Stable!Ghcr
  BY DEF Candidate!Image, Stable!Image, Candidate!Ghcr, Stable!Ghcr
<1>4. /\ \A v : ExactTag(v) # Latest /\ VersionTag(v) # Latest
      /\ \A v, w : /\ ExactTag(v) # VersionTag(w) /\ (ExactTag(v) = ExactTag(w) => v = w)
                   /\ (VersionTag(v) = VersionTag(w) => v = w)
  BY DEF ExactTag, VersionTag, Latest
<1>5. /\ Latest \notin ReleaseTags
      /\ \A v \in Approvable : ExactTag(v) \in ReleaseTags /\ VersionTag(v) \in ReleaseTags
  BY <1>4 DEF ReleaseTags
<1> QED BY <1>1, <1>2, <1>3, <1>4, <1>5

\* What every step keeps of the registry: the tag of a version stays, and one that is
\* empty gets the bytes of its version.
Registered ==
    /\ registry \in [Stable!Image -> [Stable!Tags -> Digests]]
    /\ known \subseteq Stable!Image
    /\ \A i \in Stable!Image \ known, t \in Stable!Tags : registry[i][t] = "nothing"

TagsSettled ==
    \A i \in Stable!Image, t \in ReleaseTags :
        registry[i][t] # "nothing" => registry'[i][t] = registry[i][t]

FilledOwn ==
    \A i \in Stable!Image, v \in Approvable :
        /\ registry[i][ExactTag(v)] = "nothing" => registry'[i][ExactTag(v)] \in {"nothing", v}
        /\ registry[i][VersionTag(v)] = "nothing" => registry'[i][VersionTag(v)] \in {"nothing", v}

\* A tag that nobody else holds.
Ours(i, tag, v) == registry[i][tag] \in {"nothing", v}


\* The only way to write is a copy to a tag, of an image that is known from then on.
LEMMA TagCopied ==
    ASSUME Registered, NEW i \in Stable!Image, NEW t \in Stable!Tags, NEW d \in Digests,
           registry' = [registry EXCEPT ![i][t] = d], known' = known \cup {i}
    PROVE  /\ Registered'
           /\ \A j \in Stable!Image, u \in Stable!Tags :
                registry'[j][u] = IF j = i /\ u = t THEN d ELSE registry[j][u]
<1>1. /\ registry' \in [Stable!Image -> [Stable!Tags -> Digests]]
      /\ \A j \in Stable!Image, u \in Stable!Tags :
           registry'[j][u] = IF j = i /\ u = t THEN d ELSE registry[j][u]
  BY DEF Registered
<1>2. known' \subseteq Stable!Image
  BY DEF Registered
<1>3. \A j \in Stable!Image \ known', u \in Stable!Tags : registry'[j][u] = "nothing"
  BY <1>1 DEF Registered
<1> QED BY <1>1, <1>2, <1>3 DEF Registered

\* A copy of the bytes of a version to its own tag, which nobody else holds.
LEMMA CopiedToVersion ==
    ASSUME Registered, NEW i \in Stable!Image, NEW v \in Approvable, NEW t \in ReleaseTags,
           t \in {ExactTag(v), VersionTag(v)}, Ours(i, t, v),
           registry' = [registry EXCEPT ![i][t] = v], known' = known \cup {i}
    PROVE  /\ Registered' /\ TagsSettled /\ FilledOwn
           /\ \A j \in Stable!Image : registry'[j][Latest] = registry[j][Latest]
           /\ registry'[i][t] = v
<1>1. t \in Stable!Tags /\ v \in Digests /\ ReleaseTags \subseteq Stable!Tags /\ t # Latest
      /\ Latest \in Stable!Tags
  BY TagsAre DEF Digests
<1>2. /\ Registered'
      /\ \A j \in Stable!Image, u \in Stable!Tags :
           registry'[j][u] = IF j = i /\ u = t THEN v ELSE registry[j][u]
  BY <1>1, TagCopied
<1>3. TagsSettled
  BY <1>1, <1>2 DEF TagsSettled, Ours
<1>4. FilledOwn
  <2> SUFFICES ASSUME NEW j \in Stable!Image, NEW w \in Approvable
               PROVE  /\ registry[j][ExactTag(w)] = "nothing" =>
                           registry'[j][ExactTag(w)] \in {"nothing", w}
                      /\ registry[j][VersionTag(w)] = "nothing" =>
                           registry'[j][VersionTag(w)] \in {"nothing", w}
    BY DEF FilledOwn
  <2>1. ExactTag(w) \in Stable!Tags /\ VersionTag(w) \in Stable!Tags
    BY <1>1, TagsAre
  <2>2. (ExactTag(w) = t => w = v) /\ (VersionTag(w) = t => w = v)
    BY TagsAre
  <2> QED BY <1>2, <2>1, <2>2
<1>5. \A j \in Stable!Image : registry'[j][Latest] = registry[j][Latest]
  BY <1>1, <1>2
<1>6. registry'[i][t] = v
  BY <1>1, <1>2
<1> QED BY <1>2, <1>3, <1>4, <1>5, <1>6

\* What does not write keeps all of it, whatever becomes known.
LEMMA RegistryUnchanged ==
    ASSUME Registered, UNCHANGED registry, known \subseteq known', known' \subseteq Stable!Image
    PROVE  Registered' /\ TagsSettled /\ FilledOwn
<1> QED BY DEF Registered, TagsSettled, FilledOwn

-----------------------------------------------------------------------------
(* Runs of publish_verified.py containers and of verified_images.py        *)

\* A run has a version and its bytes from the time it verified a release.
StableRuns == Copiers \cup Readers
ImageJobs == [version : Approvable \cup {"nothing"}, latest : BOOLEAN, execute : BOOLEAN,
         local : Approvable \cup {"replaced", "nothing"}, at : Nat]
StableSteps == {"idle", "preflight", "command", "compare", "write", "displayed", "done", "failed"}
HasVersion(i, v) == registry[i][VersionTag(v)] = v

\* All images of a version that latest names, and of one that was written, are its own.
Promised ==
    /\ output \in Approvable \cup {"nothing"}
    /\ output # "nothing" => \A i \in Stable!Image : HasVersion(i, output)
    /\ \A i, j \in Stable!Image : registry[i][Latest] # "nothing" =>
         registry[i][Latest] \in Approvable /\ HasVersion(j, registry[i][Latest])

LastCommand(p) == IF imageJob[p].latest THEN 2 * Len(Destinations) ELSE Len(Destinations)

\* What a run has seen of the destinations before the one it is at.
AtDestination(p) ==
    LET v == imageJob[p].version
        at == imageJob[p].at
        n == Len(Destinations)
    IN /\ imagePc[p] \in {"preflight", "command", "compare", "write"} =>
            v \in Approvable /\ imageJob[p].local = v
       /\ imagePc[p] = "preflight" =>
            at \in 1..n /\ \A k \in 1..(at - 1) : Ours(Destinations[k], VersionTag(v), v)
       /\ imagePc[p] = "command" =>
            /\ at \in 1..LastCommand(p)
            /\ \A k \in 1..n : Ours(Destinations[k], VersionTag(v), v)
            /\ \A k \in 1..n : k < at => HasVersion(Destinations[k], v)
       /\ imagePc[p] = "compare" =>
            at \in 1..n /\ \A k \in 1..(at - 1) : HasVersion(Destinations[k], v)
       /\ imagePc[p] = "write" => \A k \in 1..n : HasVersion(Destinations[k], v)

StableTyped ==
    /\ payload \in [Approvable -> {"draft", "approved", "replaced"}] /\ Registered
    /\ imagePc \in [StableRuns -> StableSteps] /\ imageJob \in [StableRuns -> ImageJobs]

StableInv == StableTyped /\ Promised /\ \A p \in StableRuns : AtDestination(p)

\* What a run has seen stays so while it does not move.
LEMMA SeenStays ==
    ASSUME StableTyped, Registered', TagsSettled, FilledOwn, NEW p \in StableRuns, AtDestination(p),
           imagePc'[p] = imagePc[p], imageJob'[p] = imageJob[p]
    PROVE  AtDestination(p)'
<1>1. \A i \in Stable!Image, v \in Approvable :
        /\ HasVersion(i, v) => HasVersion(i, v)'
        /\ Ours(i, VersionTag(v), v) => Ours(i, VersionTag(v), v)'
  <2> TAKE i \in Stable!Image, v \in Approvable
  <2>1. VersionTag(v) \in ReleaseTags /\ v # "nothing"
    BY TagsAre, ImageConstants
  <2> QED BY <2>1 DEF TagsSettled, FilledOwn, HasVersion, Ours
<1>2. \A k \in 1..Len(Destinations) : Destinations[k] \in Stable!Image
  BY ImageConstants
<1>3. imageJob[p] \in ImageJobs /\ imageJob[p].at \in Nat /\ Len(Destinations) \in Nat
  BY ImageConstants DEF StableTyped, ImageJobs
<1>4. LastCommand(p)' = LastCommand(p)
  BY DEF LastCommand
<1> QED BY <1>1, <1>2, <1>3, <1>4 DEF AtDestination

\* And what was promised, while latest stays or names a version that every image has.
LEMMA PromisesStay ==
    ASSUME Registered, Registered', TagsSettled, FilledOwn, Promised, UNCHANGED output,
           \A i \in Stable!Image : registry'[i][Latest] = registry[i][Latest]
    PROVE  Promised'
<1>1. \A i \in Stable!Image, v \in Approvable : HasVersion(i, v) => HasVersion(i, v)'
  <2> TAKE i \in Stable!Image, v \in Approvable
  <2>1. VersionTag(v) \in ReleaseTags /\ v # "nothing"
    BY TagsAre, ImageConstants
  <2> QED BY <2>1 DEF TagsSettled, HasVersion
<1> QED BY <1>1, ImageConstants DEF Promised

\* A step of one run p: the others keep what they have seen.
LEMMA RunMoved ==
    ASSUME StableInv, Registered', TagsSettled, FilledOwn, NEW p \in StableRuns,
           NEW step \in StableSteps, imagePc' = [imagePc EXCEPT ![p] = step],
           NEW j \in ImageJobs, imageJob' = [imageJob EXCEPT ![p] = j], UNCHANGED payload,
           Promised', AtDestination(p)'
    PROVE  StableInv'
<1>1. StableTyped'
  BY DEF StableInv, StableTyped
<1>2. ASSUME NEW q \in StableRuns PROVE AtDestination(q)'
  <2>1. CASE q = p
    BY <2>1
  <2>2. CASE q # p
    BY <2>2, SeenStays DEF StableInv, StableTyped
  <2> QED BY <2>1, <2>2
<1> QED BY <1>1, <1>2 DEF StableInv

\* A release that is published or replaced moves no run.
LEMMA ReleaseMoved ==
    ASSUME StableInv, payload' \in [Approvable -> {"draft", "approved", "replaced"}],
           UNCHANGED <<registry, known, output, imagePc, imageJob>>
    PROVE  StableInv' /\ TagsSettled
<1>2. Registered' /\ TagsSettled /\ FilledOwn
  BY RegistryUnchanged DEF StableInv, StableTyped, Registered
<1>3. Promised'
  BY <1>2, PromisesStay DEF StableInv, StableTyped
<1>4. \A p \in StableRuns : AtDestination(p)'
  BY <1>2, SeenStays DEF StableInv
<1>5. StableTyped'
  BY <1>2 DEF StableInv, StableTyped
<1> QED BY <1>2, <1>3, <1>4, <1>5 DEF StableInv

\* Publish, ReplaceAsset
LEMMA StableRelease ==
    ASSUME StableInv, NEW v \in Approvable, Stable!Publish(v) \/ Stable!ReplaceAsset(v)
    PROVE  StableInv' /\ TagsSettled
<1>1. /\ payload' \in [Approvable -> {"draft", "approved", "replaced"}]
      /\ UNCHANGED <<registry, known, output, imagePc, imageJob>>
  BY DEF Stable!Publish, Stable!ReplaceAsset, StableInv, StableTyped, Stable!Replaced
<1> QED BY <1>1, ReleaseMoved

\* Steps that neither write to the registry nor change the output.
LEMMA RunReads ==
    ASSUME StableInv, NEW p \in StableRuns,
           NEW step \in StableSteps, imagePc' = [imagePc EXCEPT ![p] = step],
           NEW j \in ImageJobs, imageJob' = [imageJob EXCEPT ![p] = j],
           UNCHANGED <<payload, registry, known, output>>, AtDestination(p)'
    PROVE  StableInv' /\ TagsSettled
<1>1. Registered' /\ TagsSettled /\ FilledOwn
  BY RegistryUnchanged DEF StableInv, StableTyped, Registered
<1>2. Promised'
  BY <1>1, PromisesStay DEF StableInv, StableTyped
<1> QED BY <1>1, <1>2, RunMoved

\* StartStable, StartResolve: only of a release whose bytes were verified.
LEMMA StableStarts ==
    ASSUME StableInv, NEW p \in StableRuns, Stable!StartStable(p) \/ Stable!StartResolve(p)
    PROVE  StableInv' /\ TagsSettled
<1>1. PICK v \in Approvable, step \in {"preflight", "compare"} :
         Stable!Fetch(p, v, Stable!VerifiedStable(v), step)
  BY DEF Stable!StartStable, Stable!StartResolve
<1>2. PICK latest \in BOOLEAN, execute \in BOOLEAN :
         imageJob' = [imageJob EXCEPT ![p] =
             [version |-> v, latest |-> latest /\ p \in Copiers,
              execute |-> execute \/ p \in Readers, local |-> Stable!Bytes(v), at |-> 1]]
  BY <1>1 DEF Stable!Fetch
<1> DEFINE j == [version |-> v, latest |-> latest /\ p \in Copiers,
                 execute |-> execute \/ p \in Readers, local |-> Stable!Bytes(v), at |-> 1]
           next == IF Stable!VerifiedStable(v) THEN step ELSE "failed"
<1>3. j \in ImageJobs /\ j.version = v /\ j.local = Stable!Bytes(v) /\ j.at = 1
  BY DEF ImageJobs, Stable!Bytes, Stable!Replaced
<1>4. imagePc' = [imagePc EXCEPT ![p] = next] /\ next \in StableSteps
  BY <1>1 DEF Stable!Fetch, Stable!Go, StableSteps
<1>5. UNCHANGED <<payload, registry, known, output>>
  BY <1>1 DEF Stable!Fetch, Stable!remote
<1>6. imageJob'[p] = j /\ imagePc'[p] = next
  BY <1>2, <1>4 DEF StableInv, StableTyped
<1>7. next # "failed" => j.local = v
  BY <1>3 DEF Stable!VerifiedStable, Stable!VerifiedRelease, Stable!Bytes
<1>8. AtDestination(p)'
  <2> HIDE DEF j
  <2> QED BY <1>3, <1>6, <1>7, ImageConstants DEF AtDestination
<1> HIDE DEF j, next
<1> QED BY <1>2, <1>3, <1>4, <1>5, <1>8, RunReads DEF j

\* What a run does at a destination, and the number of the next.
LEMMA JobMoves ==
    ASSUME StableTyped, NEW p \in StableRuns, NEW n \in Nat
    PROVE  LET j == [imageJob[p] EXCEPT !.at = n] IN
           /\ j \in ImageJobs /\ j.at = n /\ j.version = imageJob[p].version
           /\ j.latest = imageJob[p].latest /\ j.local = imageJob[p].local
           /\ [imageJob EXCEPT ![p].at = n] = [imageJob EXCEPT ![p] = j]
           /\ [imageJob EXCEPT ![p].at = n][p] = j
<1>1. imageJob[p] \in ImageJobs
  BY DEF StableTyped
<1> QED BY <1>1 DEF StableTyped, ImageJobs

\* Preflight: a destination whose version is not there, or which the registry does not
\* know, holds nothing of that version.
LEMMA StablePreflight ==
    ASSUME StableInv, NEW p \in StableRuns, Stable!Preflight(p)
    PROVE  StableInv' /\ TagsSettled
<1> DEFINE at == imageJob[p].at
           v == imageJob[p].version
           n == Len(Destinations)
           next == IF at = n THEN 1 ELSE at + 1
           j == [imageJob[p] EXCEPT !.at = next]
<1>1. /\ imagePc[p] = "preflight" /\ UNCHANGED <<payload, registry, known, output>>
      /\ imageJob' = [imageJob EXCEPT ![p].at = next]
  BY DEF Stable!Preflight, Stable!remote
<1>2. PICK answer \in Stable!Answers(Destinations[at]) :
        imagePc' = [imagePc EXCEPT ![p] =
            IF ~Stable!Unpublished(p, Destinations[at], answer) THEN "failed"
            ELSE IF at # n THEN "preflight"
            ELSE IF imageJob[p].execute THEN "command" ELSE "displayed"]
  BY DEF Stable!Preflight, Stable!Go
<1>3. /\ v \in Approvable /\ imageJob[p].local = v /\ at \in 1..n /\ n \in Nat \ {0}
      /\ \A k \in 1..(at - 1) : Ours(Destinations[k], VersionTag(v), v)
  BY <1>1, ImageConstants DEF StableInv, AtDestination
<1>4. /\ next \in Nat /\ j \in ImageJobs /\ j.at = next /\ j.version = v /\ j.local = v
      /\ j.latest = imageJob[p].latest /\ imageJob' = [imageJob EXCEPT ![p] = j] /\ imageJob'[p] = j
  <2>1. next \in Nat
    BY <1>3
  <2>2. StableTyped
    BY DEF StableInv
  <2> HIDE DEF next
  <2> QED BY <1>1, <1>3, <2>1, <2>2, JobMoves
<1>5. PICK step \in StableSteps :
        /\ imagePc' = [imagePc EXCEPT ![p] = step]
        /\ step \in {"failed", "preflight", "command", "displayed"}
        /\ step # "failed" => Stable!Unpublished(p, Destinations[at], answer)
        /\ step = "preflight" => at # n
        /\ step = "command" => at = n
  BY <1>2 DEF StableSteps
<1>6. imagePc'[p] = step
  BY <1>5 DEF StableInv, StableTyped
<1>7. Destinations[at] \in Stable!Image /\ VersionTag(v) \in Stable!Tags
  BY <1>3, ImageConstants, TagsAre
<1>8. Stable!Unpublished(p, Destinations[at], answer) => Ours(Destinations[at], VersionTag(v), v)
  <2>1. CASE answer = "tags"
    BY <2>1, TagsAre DEF Stable!Unpublished, Ours, Stable!Nothing
  <2>2. CASE answer = "unknown"
    <3>1. Destinations[at] \notin known
      BY <2>2 DEF Stable!Answers
    <3> QED BY <3>1, <1>7 DEF Ours, StableInv, StableTyped, Registered
  <2> QED BY <2>1, <2>2 DEF Stable!Unpublished
<1>9. AtDestination(p)'
  <2>1. step # "failed" => \A k \in 1..at : Ours(Destinations[k], VersionTag(v), v)
    <3> SUFFICES ASSUME step # "failed", NEW k \in 1..at
                 PROVE  Ours(Destinations[k], VersionTag(v), v)
      OBVIOUS
    <3>1. k = at \/ k \in 1..(at - 1)
      BY <1>3
    <3> QED BY <3>1, <1>3, <1>5, <1>8
  <2>2. step # "failed" =>
          \A k \in 1..at : registry'[Destinations[k]][VersionTag(v)] \in {"nothing", v}
    BY <2>1, <1>1 DEF Ours
  <2>3. step = "preflight" => next \in 1..n /\ next - 1 = at
    BY <1>3, <1>5
  <2>4. step = "command" => next = 1 /\ at = n /\ next \in 1..LastCommand(p)'
    BY <1>3, <1>4, <1>5 DEF LastCommand
  <2>5. \A k \in 1..n : ~(k < 1)
    BY <1>3
  <2> HIDE DEF j, next, v, at
  <2> QED BY <1>3, <1>4, <1>5, <1>6, <2>2, <2>3, <2>4, <2>5 DEF AtDestination, Ours
<1> HIDE DEF j, next
<1> QED BY <1>1, <1>4, <1>5, <1>9, RunReads

\* Compare: what was read is the version's own.
LEMMA StableCompare ==
    ASSUME StableInv, NEW p \in StableRuns, Stable!Compare(p)
    PROVE  StableInv' /\ TagsSettled
<1> DEFINE at == imageJob[p].at
           v == imageJob[p].version
           n == Len(Destinations)
           next == IF at = n THEN 1 ELSE at + 1
           j == [imageJob[p] EXCEPT !.at = next]
<1>1. /\ imagePc[p] = "compare" /\ UNCHANGED <<payload, registry, known, output>>
      /\ imageJob' = [imageJob EXCEPT ![p].at = next]
  BY DEF Stable!Compare, Stable!remote
<1>2. PICK read \in BOOLEAN :
        imagePc' = [imagePc EXCEPT ![p] =
            IF ~(read /\ Stable!SameBytes(p, Destinations[at])) THEN "failed"
            ELSE IF at = n THEN "write" ELSE "compare"]
  BY DEF Stable!Compare, Stable!Go
<1>3. /\ v \in Approvable /\ imageJob[p].local = v /\ at \in 1..n /\ n \in Nat \ {0}
      /\ \A k \in 1..(at - 1) : HasVersion(Destinations[k], v)
  BY <1>1, ImageConstants DEF StableInv, AtDestination
<1>4. /\ next \in Nat /\ j \in ImageJobs /\ j.at = next /\ j.version = v /\ j.local = v
      /\ imageJob' = [imageJob EXCEPT ![p] = j] /\ imageJob'[p] = j
  <2>1. next \in Nat
    BY <1>3
  <2>2. StableTyped
    BY DEF StableInv
  <2> HIDE DEF next
  <2> QED BY <1>1, <1>3, <2>1, <2>2, JobMoves
<1>5. PICK step \in StableSteps :
        /\ imagePc' = [imagePc EXCEPT ![p] = step] /\ step \in {"failed", "write", "compare"}
        /\ step # "failed" => Stable!SameBytes(p, Destinations[at])
        /\ step = "compare" => at # n
        /\ step = "write" => at = n
  BY <1>2 DEF StableSteps
<1>6. imagePc'[p] = step
  BY <1>5 DEF StableInv, StableTyped
<1>7. Stable!SameBytes(p, Destinations[at]) => HasVersion(Destinations[at], v)
  BY <1>3, TagsAre DEF Stable!SameBytes, HasVersion
<1>8. AtDestination(p)'
  <2>1. step # "failed" => \A k \in 1..at : HasVersion(Destinations[k], v)
    <3> SUFFICES ASSUME step # "failed", NEW k \in 1..at
                 PROVE  HasVersion(Destinations[k], v)
      OBVIOUS
    <3>1. k = at \/ k \in 1..(at - 1)
      BY <1>3
    <3> QED BY <3>1, <1>3, <1>5, <1>7
  <2>2. step # "failed" => \A k \in 1..at : registry'[Destinations[k]][VersionTag(v)] = v
    BY <2>1, <1>1 DEF HasVersion
  <2>3. step = "compare" => next \in 1..n /\ next - 1 = at
    BY <1>3, <1>5
  <2> HIDE DEF j, next, v, at
  <2> QED BY <1>3, <1>4, <1>5, <1>6, <2>2, <2>3 DEF AtDestination, HasVersion
<1> HIDE DEF j, next
<1> QED BY <1>1, <1>4, <1>5, <1>8, RunReads

\* WriteOutput: every image has the version that is written.
LEMMA StableWrites ==
    ASSUME StableInv, NEW p \in StableRuns, Stable!WriteOutput(p)
    PROVE  StableInv' /\ TagsSettled
<1>1. /\ imagePc[p] = "write" /\ UNCHANGED <<payload, registry, known, imageJob>>
      /\ output' \in {output, imageJob[p].version}
  BY DEF Stable!WriteOutput, Stable!remote
<1>2. PICK step \in StableSteps :
        imagePc' = [imagePc EXCEPT ![p] = step] /\ step \in {"done", "failed"}
  BY DEF Stable!WriteOutput, Stable!Go, StableSteps
<1>3. /\ imageJob[p].version \in Approvable
      /\ \A i \in Stable!Image : HasVersion(i, imageJob[p].version)
  BY <1>1, ImageConstants DEF StableInv, AtDestination
<1>4. Registered' /\ TagsSettled /\ FilledOwn
  BY <1>1, RegistryUnchanged DEF StableInv, StableTyped, Registered
<1>5. Promised'
  BY <1>1, <1>3 DEF StableInv, Promised, HasVersion
<1>6. imagePc'[p] = step
  BY <1>2 DEF StableInv, StableTyped
<1>7. AtDestination(p)'
  BY <1>2, <1>6 DEF AtDestination
<1>8. imageJob[p] \in ImageJobs /\ imageJob' = [imageJob EXCEPT ![p] = imageJob[p]]
  BY <1>1 DEF StableInv, StableTyped
<1> QED BY <1>1, <1>2, <1>4, <1>5, <1>7, <1>8, RunMoved

\* The copies to the version of every destination come before all copies to latest.
LEMMA CommandsInOrder ==
    ASSUME NEW p
    PROVE  /\ Len(Stable!Commands(p)) = LastCommand(p)
           /\ \A k \in 1..Len(Destinations) :
                Stable!Commands(p)[k] = <<Destinations[k], VersionTag(imageJob[p].version)>>
           /\ \A k \in (Len(Destinations) + 1)..LastCommand(p) :
                Stable!Commands(p)[k] = <<Destinations[k - Len(Destinations)], Latest>>
<1> DEFINE n == Len(Destinations)
           versions == [k \in 1..n |-> <<Destinations[k], VersionTag(imageJob[p].version)>>]
           latests == IF imageJob[p].latest THEN [k \in 1..n |-> <<Destinations[k], Latest>>]
                      ELSE <<>>
           Pairs == {<<Destinations[k], VersionTag(imageJob[p].version)>> : k \in 1..n}
                    \cup {<<Destinations[k], Latest>> : k \in 1..n}
<1>1. n \in Nat /\ DOMAIN Destinations = 1..n
  BY ImageConstants
<1>2. Stable!Commands(p) = versions \o latests
  BY <1>1, TagsAre DEF Stable!Commands
<1>3. /\ versions \in Seq(Pairs) /\ Len(versions) = n
      /\ \A k \in 1..n : versions[k] = <<Destinations[k], VersionTag(imageJob[p].version)>>
  <2>1. \A k \in 1..n : <<Destinations[k], VersionTag(imageJob[p].version)>> \in Pairs
    OBVIOUS
  <2> HIDE DEF Pairs
  <2> QED BY <1>1, <2>1, IsASeq, LenProperties
<1>4. latests \in Seq(Pairs) /\ Len(latests) = LastCommand(p) - n
      /\ \A k \in 1..Len(latests) : latests[k] = <<Destinations[k], Latest>>
  <2>1. \A k \in 1..n : <<Destinations[k], Latest>> \in Pairs
    OBVIOUS
  <2> HIDE DEF Pairs
  <2>2. CASE imageJob[p].latest
    <3>1. latests = [k \in 1..n |-> <<Destinations[k], Latest>>] /\ LastCommand(p) = 2 * n
      BY <2>2 DEF LastCommand
    <3>2. latests \in Seq(Pairs) /\ Len(latests) = n
      BY <1>1, <2>1, <3>1, IsASeq, LenProperties
    <3> QED BY <1>1, <3>1, <3>2
  <2>3. CASE ~imageJob[p].latest
    BY <1>1, <2>3, EmptySeq DEF LastCommand
  <2> QED BY <2>2, <2>3
<1> HIDE DEF versions, latests, Pairs
<1>5. LastCommand(p) \in Nat
  BY <1>1 DEF LastCommand
<1>6. /\ Len(versions \o latests) = LastCommand(p)
      /\ \A k \in 1..LastCommand(p) :
           (versions \o latests)[k] = IF k <= n THEN versions[k] ELSE latests[k - n]
  <2>1. n + (LastCommand(p) - n) = LastCommand(p)
    BY <1>1, <1>5
  <2>2. /\ Len(versions \o latests) = Len(versions) + Len(latests)
        /\ \A k \in 1..(Len(versions) + Len(latests)) :
             (versions \o latests)[k] =
                 IF k <= Len(versions) THEN versions[k] ELSE latests[k - Len(versions)]
    BY <1>3, <1>4, ConcatProperties
  <2> QED BY <1>3, <1>4, <2>1, <2>2
<1>7. \A k \in (n + 1)..LastCommand(p) : latests[k - n] = <<Destinations[k - n], Latest>>
  BY <1>1, <1>4, <1>5
<1>8. n <= LastCommand(p)
  BY <1>1 DEF LastCommand
<1> HIDE DEF n
<1>9. \A k \in 1..n : (versions \o latests)[k] = versions[k]
  BY <1>1, <1>5, <1>6, <1>8
<1>10. \A k \in (n + 1)..LastCommand(p) : (versions \o latests)[k] = latests[k - n]
  BY <1>1, <1>5, <1>6, <1>8
<1> QED BY <1>2, <1>3, <1>6, <1>7, <1>9, <1>10 DEF n

\* What a copy does, the one that fails after it wrote the tag included.
LEMMA CopyMoves ==
    ASSUME NEW p, NEW i, NEW tag, NEW next, Stable!Copy(p, i, tag, next)
    PROVE  /\ \E step \in {next, "failed"} :
                /\ imagePc' = [imagePc EXCEPT ![p] = step]
                /\ step # "failed" => registry' = [registry EXCEPT ![i][tag] = imageJob[p].local]
           /\ \/ UNCHANGED <<registry, known>>
              \/ /\ registry' = [registry EXCEPT ![i][tag] = imageJob[p].local]
                 /\ known' = known \cup {i}
<1> QED BY DEF Stable!Copy, Stable!Go

\* A copy to latest of a version that every image has.
LEMMA CopiedToLatest ==
    ASSUME StableTyped, Promised, NEW i \in Stable!Image, NEW v \in Approvable,
           \A k \in Stable!Image : HasVersion(k, v), UNCHANGED output,
           registry' = [registry EXCEPT ![i][Latest] = v], known' = known \cup {i}
    PROVE  Registered' /\ TagsSettled /\ FilledOwn /\ Promised'
<1>1. /\ Latest \in Stable!Tags /\ v \in Digests
      /\ ReleaseTags \subseteq Stable!Tags /\ Latest \notin ReleaseTags
  BY TagsAre DEF Digests
<1>2. /\ Registered'
      /\ \A j \in Stable!Image, u \in Stable!Tags :
           registry'[j][u] = IF j = i /\ u = Latest THEN v ELSE registry[j][u]
  BY <1>1, TagCopied DEF StableTyped
<1>3. \A j \in Stable!Image, u \in ReleaseTags : registry'[j][u] = registry[j][u]
  BY <1>1, <1>2
<1>4. TagsSettled
  BY <1>3 DEF TagsSettled
<1>5. FilledOwn
  BY <1>3, TagsAre DEF FilledOwn
<1>6. \A j \in Stable!Image, w \in Approvable : HasVersion(j, w)' = HasVersion(j, w)
  BY <1>3, TagsAre DEF HasVersion
<1>7. \A j \in Stable!Image : registry'[j][Latest] \in {v, registry[j][Latest]}
  BY <1>1, <1>2
<1>8. Promised'
  BY <1>6, <1>7 DEF Promised
<1> QED BY <1>2, <1>4, <1>5, <1>8

\* Command: a version is copied to where nobody else has it, and latest only moves once
\* every destination has the version.
LEMMA StableCommand ==
    ASSUME StableInv, NEW p \in StableRuns, Stable!Command(p)
    PROVE  StableInv' /\ TagsSettled
<1> DEFINE at == imageJob[p].at
           v == imageJob[p].version
           n == Len(Destinations)
           last == LastCommand(p)
           j == [imageJob[p] EXCEPT !.at = at + 1]
           command == Stable!Commands(p)[at]
<1>1. /\ imagePc[p] = "command" /\ UNCHANGED <<payload, output>>
      /\ imageJob' = [imageJob EXCEPT ![p].at = at + 1]
      /\ Stable!Copy(p, command[1], command[2],
                     IF at = Len(Stable!Commands(p)) THEN "done" ELSE "command")
  BY DEF Stable!Command
<1>2. /\ v \in Approvable /\ imageJob[p].local = v /\ at \in 1..last /\ n \in Nat \ {0}
      /\ \A k \in 1..n : Ours(Destinations[k], VersionTag(v), v)
      /\ \A k \in 1..n : k < at => HasVersion(Destinations[k], v)
      /\ last \in Nat /\ (last = n \/ last = 2 * n)
  <2>1. AtDestination(p) /\ n \in Nat \ {0}
    BY ImageConstants DEF StableInv
  <2>2. last \in Nat /\ (last = n \/ last = 2 * n)
    BY <2>1 DEF LastCommand
  <2> HIDE DEF last
  <2> QED BY <1>1, <2>1, <2>2 DEF AtDestination, last
<1>3. /\ j \in ImageJobs /\ j.at = at + 1 /\ j.version = v /\ j.local = v
      /\ j.latest = imageJob[p].latest
      /\ imageJob' = [imageJob EXCEPT ![p] = j] /\ imageJob'[p] = j
  <2>1. at + 1 \in Nat
    BY <1>2
  <2>2. StableTyped
    BY DEF StableInv
  <2> QED BY <1>1, <1>2, <2>1, <2>2, JobMoves
<1>4. /\ at <= n => command[1] = Destinations[at] /\ command[2] = VersionTag(v)
      /\ at > n => command[1] = Destinations[at - n] /\ command[2] = Latest /\ at - n \in 1..n
      /\ Len(Stable!Commands(p)) = last
  <2>1. at <= n => at \in 1..n
    BY <1>2
  <2>2. at > n => at \in (n + 1)..last /\ at - n \in 1..n
    BY <1>2
  <2>3. /\ Len(Stable!Commands(p)) = last
        /\ \A k \in 1..n : Stable!Commands(p)[k] = <<Destinations[k], VersionTag(v)>>
        /\ \A k \in (n + 1)..last : Stable!Commands(p)[k] = <<Destinations[k - n], Latest>>
    BY CommandsInOrder
  <2> HIDE DEF at, v, n, last
  <2>4. at <= n => command = <<Destinations[at], VersionTag(v)>>
    BY <2>1, <2>3
  <2>5. at > n => command = <<Destinations[at - n], Latest>>
    BY <2>2, <2>3
  <2> QED BY <1>2, <2>2, <2>3, <2>4, <2>5
<1> HIDE DEF command
<1>5. PICK step \in {"done", "command", "failed"} :
        /\ imagePc' = [imagePc EXCEPT ![p] = step]
        /\ step = "command" => at # last
        /\ step # "failed" => registry' = [registry EXCEPT ![command[1]][command[2]] = v]
  <2> DEFINE next == IF at = Len(Stable!Commands(p)) THEN "done" ELSE "command"
  <2>1. Stable!Copy(p, command[1], command[2], next)
    BY <1>1
  <2>2. next \in {"done", "command"} /\ (next = "command" => at # last)
    BY <1>4
  <2> HIDE DEF next
  <2>3. PICK step \in {next, "failed"} :
          /\ imagePc' = [imagePc EXCEPT ![p] = step]
          /\ step # "failed" =>
               registry' = [registry EXCEPT ![command[1]][command[2]] = imageJob[p].local]
    BY <2>1, CopyMoves
  <2> HIDE DEF at, v, last
  <2> QED BY <1>2, <2>2, <2>3
<1>6. \/ UNCHANGED <<registry, known>>
      \/ /\ registry' = [registry EXCEPT ![command[1]][command[2]] = v]
         /\ known' = known \cup {command[1]}
  BY <1>1, <1>2, CopyMoves
<1>7. step \in StableSteps /\ imagePc'[p] = step
  BY <1>5 DEF StableInv, StableTyped, StableSteps
<1>8. command[1] \in Stable!Image
  BY <1>2, <1>4, ImageConstants
<1>9. Registered' /\ TagsSettled /\ FilledOwn /\ Promised'
  <2>1. CASE UNCHANGED <<registry, known>>
    <3>1. Registered' /\ TagsSettled /\ FilledOwn
      BY <2>1, RegistryUnchanged DEF StableInv, StableTyped, Registered
    <3> QED BY <1>1, <2>1, <3>1, PromisesStay DEF StableInv, StableTyped
  <2>2. CASE /\ registry' = [registry EXCEPT ![command[1]][command[2]] = v]
             /\ known' = known \cup {command[1]} /\ at <= n
    <3>1. /\ Ours(command[1], VersionTag(v), v) /\ VersionTag(v) \in ReleaseTags
          /\ registry' = [registry EXCEPT ![command[1]][VersionTag(v)] = v]
      <4>1. command[1] = Destinations[at] /\ command[2] = VersionTag(v) /\ at \in 1..n
        BY <1>2, <1>4, <2>2
      <4> HIDE DEF at, v
      <4> QED BY <1>2, <4>1, <2>2, TagsAre
    <3>2. /\ Registered' /\ TagsSettled /\ FilledOwn
          /\ \A k \in Stable!Image : registry'[k][Latest] = registry[k][Latest]
      <4> HIDE DEF command, v
      <4> QED BY <1>2, <1>8, <2>2, <3>1, CopiedToVersion DEF StableInv, StableTyped
    <3> QED BY <1>1, <3>2, PromisesStay DEF StableInv, StableTyped
  <2>3. CASE /\ registry' = [registry EXCEPT ![command[1]][command[2]] = v]
             /\ known' = known \cup {command[1]} /\ at > n
    <3>1. \A k \in Stable!Image : HasVersion(k, v)
      BY <1>2, <2>3, ImageConstants
    <3>2. registry' = [registry EXCEPT ![command[1]][Latest] = v]
      <4> HIDE DEF at, v
      <4> QED BY <1>2, <1>4, <2>3
    <3> HIDE DEF command, v
    <3> QED BY <1>1, <1>2, <1>8, <2>3, <3>1, <3>2, CopiedToLatest DEF StableInv
  <2> QED BY <1>2, <1>6, <2>1, <2>2, <2>3
<1>10. /\ \A k \in 1..n : registry'[Destinations[k]][VersionTag(v)] \in {"nothing", v}
       /\ \A k \in 1..n : k < at => registry'[Destinations[k]][VersionTag(v)] = v
  <2>1. /\ VersionTag(v) \in ReleaseTags /\ v # "nothing"
        /\ \A k \in 1..n : Destinations[k] \in Stable!Image
    BY <1>2, TagsAre, ImageConstants
  <2> HIDE DEF v
  <2> QED BY <1>2, <1>9, <2>1 DEF TagsSettled, FilledOwn, Ours, HasVersion
<1>11. step # "failed" /\ at <= n => registry'[Destinations[at]][VersionTag(v)] = v
  <2> SUFFICES ASSUME step # "failed", at <= n PROVE registry'[Destinations[at]][VersionTag(v)] = v
    OBVIOUS
  <2>1. /\ registry' = [registry EXCEPT ![command[1]][VersionTag(v)] = v]
        /\ command[1] = Destinations[at]
    BY <1>4, <1>5
  <2>2. VersionTag(v) \in Stable!Tags /\ registry \in [Stable!Image -> [Stable!Tags -> Digests]]
    BY <1>2, TagsAre DEF StableInv, StableTyped, Registered
  <2> HIDE DEF command, v
  <2> QED BY <1>8, <2>1, <2>2
<1>12. AtDestination(p)'
  <2>1. step = "command" => at + 1 \in 1..last
    BY <1>2, <1>5
  <2>2. LastCommand(p)' = last
    BY <1>3 DEF LastCommand
  <2>3. step = "command" =>
          \A k \in 1..n : k < at + 1 => registry'[Destinations[k]][VersionTag(v)] = v
    <3> SUFFICES ASSUME step = "command", NEW k \in 1..n, k < at + 1
                 PROVE  registry'[Destinations[k]][VersionTag(v)] = v
      OBVIOUS
    <3>1. k < at \/ (k = at /\ at <= n)
      BY <1>2
    <3> HIDE DEF v, at
    <3> QED BY <1>10, <1>11, <3>1
  <2>4. step \in {"done", "command", "failed"}
    BY <1>5
  <2> HIDE DEF j, v, at, last
  <2> QED BY <1>2, <1>3, <1>7, <1>10, <2>1, <2>2, <2>3, <2>4 DEF AtDestination, Ours, HasVersion
<1> HIDE DEF j
<1> QED BY <1>1, <1>3, <1>5, <1>7, <1>9, <1>12, RunMoved

\* At first a tag is free or somebody else's, and no image has a latest.
LEMMA RegistryAtFirst ==
    ASSUME Stable!Init \/ Candidate!Init
    PROVE  /\ Registered /\ \A i \in Stable!Image : registry[i][Latest] = "nothing"
           /\ payload \in [Approvable -> {"draft", "approved", "replaced"}] /\ output = "nothing"
<1>1. PICK taken \in SUBSET (Stable!Tags \ {Latest}) :
        /\ registry = [i \in Stable!Image |-> [t \in Stable!Tags |->
             IF i = Stable!Ghcr /\ t \in taken THEN "foreign" ELSE "nothing"]]
        /\ known = IF taken = {} THEN {} ELSE {Stable!Ghcr}
  BY TagsAre DEF Stable!Init, Candidate!Init, Stable!Foreign, Stable!Nothing, Candidate!Foreign,
     Candidate!Nothing
<1>2. registry \in [Stable!Image -> [Stable!Tags -> Digests]] /\ known \subseteq Stable!Image
  BY <1>1, ImageConstants DEF Digests
<1>3. \A i \in Stable!Image \ known, t \in Stable!Tags : registry[i][t] = "nothing"
  BY <1>1
<1>4. \A i \in Stable!Image : registry[i][Latest] = "nothing"
  BY <1>1, TagsAre
<1>5. payload \in [Approvable -> {"draft", "approved", "replaced"}] /\ output = "nothing"
  BY DEF Stable!Init, Candidate!Init, Stable!Nothing, Candidate!Nothing
<1> QED BY <1>2, <1>3, <1>4, <1>5 DEF Registered

\* The job of a run that has not started.
NoJob == [version |-> "nothing", latest |-> FALSE, execute |-> FALSE, local |-> "nothing", at |-> 1]

\* No run has seen or promised anything at first.
LEMMA StableAtFirst ==
    ASSUME Stable!Init
    PROVE  StableInv
<1>1. imagePc = [p \in StableRuns |-> "idle"] /\ imageJob = [p \in StableRuns |-> NoJob]
  BY DEF Stable!Init, Stable!Runs, StableRuns, Stable!NoJob, NoJob, Stable!Nothing
<1>2. NoJob \in ImageJobs
  BY DEF NoJob, ImageJobs
<1>3. StableTyped
  BY <1>1, <1>2, RegistryAtFirst DEF StableTyped, StableSteps
<1>4. Promised
  BY RegistryAtFirst DEF Promised
<1>5. \A p \in StableRuns : AtDestination(p)
  BY <1>1 DEF AtDestination
<1> QED BY <1>3, <1>4, <1>5 DEF StableInv

\* Every step keeps the invariant, and the tags of all versions.
LEMMA StableInductive ==
    ASSUME StableInv, [Stable!Next]_ImageVars
    PROVE  StableInv' /\ TagsSettled
<1>1. CASE Stable!Next
  <2>1. CASE \E v \in Approvable : Stable!Publish(v) \/ Stable!ReplaceAsset(v)
    BY <2>1, StableRelease
  <2>2. CASE \E p \in Copiers : Stable!StartStable(p) \/ Stable!Preflight(p) \/ Stable!Command(p)
    BY <2>2, StableStarts, StablePreflight, StableCommand DEF StableRuns
  <2>3. CASE \E p \in Readers : Stable!StartResolve(p) \/ Stable!Compare(p) \/ Stable!WriteOutput(p)
    BY <2>3, StableStarts, StableCompare, StableWrites DEF StableRuns
  <2> QED BY <1>1, <2>1, <2>2, <2>3 DEF Stable!Next
<1>2. CASE UNCHANGED ImageVars
  <2>1. UNCHANGED <<payload, registry, known, output, imagePc, imageJob>>
    BY <1>2 DEF ImageVars
  <2> QED BY <2>1, ReleaseMoved DEF StableInv, StableTyped
<1> QED BY <1>1, <1>2

\* The invariant says what the images are relied on for.
LEMMA StableSafe ==
    ASSUME StableInv
    PROVE  Stable!TypeOK /\ Stable!PublishedIsApproved /\ Stable!OutputDeployable
<1>1. Stable!TypeOK
  BY DEF StableInv, StableTyped, Registered, Promised, Stable!TypeOK, Stable!Runs, StableRuns,
     StableSteps, ImageJobs, Digests, Stable!Foreign, Stable!Replaced, Stable!Nothing
<1>2. Stable!PublishedIsApproved
  BY TagsAre DEF StableInv, Promised, HasVersion, Stable!PublishedIsApproved, Stable!Nothing
<1>3. Stable!OutputDeployable
  BY TagsAre DEF StableInv, Promised, HasVersion, Stable!OutputDeployable, Stable!Nothing
<1> QED BY <1>1, <1>2, <1>3

-----------------------------------------------------------------------------
(* Runs of publish_ghcr.py                                                 *)

ExactSteps == {"idle", "list", "again", "bootstrap", "copy", "existing", "verify", "published",
               "already-published", "verified-only", "failed"}

\* A run only copies to a tag that nobody else holds, and reports it with its own bytes.
AtTag(p) ==
    LET v == imageJob[p].version
    IN /\ imagePc[p] \notin {"idle", "verified-only", "failed"} =>
            v \in Approvable /\ imageJob[p].local = v
       /\ imagePc[p] = "copy" => Ours(Stable!Ghcr, ExactTag(v), v)
       /\ imagePc[p] \in {"published", "already-published"} =>
            registry[Stable!Ghcr][ExactTag(v)] = v

CandidateTyped ==
    /\ payload \in [Approvable -> {"draft", "approved", "replaced"}]
    /\ Registered /\ output = "nothing"
    /\ \A i \in Stable!Image : registry[i][Latest] = "nothing"
    /\ imagePc \in [Run -> ExactSteps] /\ imageJob \in [Run -> ImageJobs]

CandidateInv == CandidateTyped /\ \A p \in Run : AtTag(p)

\* What a run relies on stays so while it does not move.
LEMMA TagStays ==
    ASSUME CandidateTyped, TagsSettled, FilledOwn, NEW p \in Run, AtTag(p),
           imagePc'[p] = imagePc[p], imageJob'[p] = imageJob[p]
    PROVE  AtTag(p)'
<1>1. \A v \in Approvable :
        /\ registry[Stable!Ghcr][ExactTag(v)] = v => registry'[Stable!Ghcr][ExactTag(v)] = v
        /\ Ours(Stable!Ghcr, ExactTag(v), v) => Ours(Stable!Ghcr, ExactTag(v), v)'
  <2> TAKE v \in Approvable
  <2>1. ExactTag(v) \in ReleaseTags /\ v # "nothing" /\ Stable!Ghcr \in Stable!Image
    BY TagsAre, ImageConstants
  <2> QED BY <2>1 DEF TagsSettled, FilledOwn, Ours
<1> QED BY <1>1 DEF AtTag

\* A step of one run p: the others keep what they rely on.
LEMMA ExactMoved ==
    ASSUME CandidateInv, Registered', TagsSettled, FilledOwn, NEW p \in Run,
           NEW step \in ExactSteps, imagePc' = [imagePc EXCEPT ![p] = step],
           NEW j \in ImageJobs, imageJob' = [imageJob EXCEPT ![p] = j],
           UNCHANGED <<payload, output>>,
           \A i \in Stable!Image : registry'[i][Latest] = registry[i][Latest], AtTag(p)'
    PROVE  CandidateInv' /\ TagsSettled
<1>1. CandidateTyped'
  BY DEF CandidateInv, CandidateTyped
<1>2. ASSUME NEW q \in Run PROVE AtTag(q)'
  <2>1. CASE q = p
    BY <2>1
  <2>2. CASE q # p
    BY <2>2, TagStays DEF CandidateInv, CandidateTyped
  <2> QED BY <2>1, <2>2
<1> QED BY <1>1, <1>2 DEF CandidateInv

\* Steps that do not write to a tag.
LEMMA ExactReads ==
    ASSUME CandidateInv, NEW p \in Run,
           NEW step \in ExactSteps, imagePc' = [imagePc EXCEPT ![p] = step],
           NEW j \in ImageJobs, imageJob' = [imageJob EXCEPT ![p] = j],
           UNCHANGED <<payload, registry, output>>,
           known \subseteq known', known' \subseteq Stable!Image, AtTag(p)'
    PROVE  CandidateInv' /\ TagsSettled
<1>1. Registered' /\ TagsSettled /\ FilledOwn
  BY RegistryUnchanged DEF CandidateInv, CandidateTyped
<1> QED BY <1>1, ExactMoved

\* Publish, ReplaceAsset
LEMMA CandidateRelease ==
    ASSUME CandidateInv, payload' \in [Approvable -> {"draft", "approved", "replaced"}],
           UNCHANGED <<registry, known, output, imagePc, imageJob>>
    PROVE  CandidateInv' /\ TagsSettled
<1>1. Registered' /\ TagsSettled /\ FilledOwn
  BY RegistryUnchanged DEF CandidateInv, CandidateTyped, Registered
<1>2. \A p \in Run : AtTag(p)'
  BY <1>1, TagStays DEF CandidateInv
<1>3. CandidateTyped'
  BY <1>1 DEF CandidateInv, CandidateTyped
<1> QED BY <1>1, <1>2, <1>3 DEF CandidateInv

\* StartExact: only of a release whose bytes were verified.
LEMMA ExactStarts ==
    ASSUME CandidateInv, NEW p \in Run, Candidate!StartExact(p)
    PROVE  CandidateInv' /\ TagsSettled
<1>1. PICK v \in Approvable : Candidate!Fetch(p, v, Candidate!VerifiedRelease(v), "list")
  BY DEF Candidate!StartExact
<1>2. PICK latest \in BOOLEAN, execute \in BOOLEAN :
         imageJob' = [imageJob EXCEPT ![p] =
             [version |-> v, latest |-> latest /\ p \in {}, execute |-> execute \/ p \in {},
              local |-> Candidate!Bytes(v), at |-> 1]]
  BY <1>1 DEF Candidate!Fetch
<1> DEFINE j == [version |-> v, latest |-> latest /\ p \in {}, execute |-> execute \/ p \in {},
                 local |-> Candidate!Bytes(v), at |-> 1]
           next == IF Candidate!VerifiedRelease(v) THEN "list" ELSE "failed"
<1>3. j \in ImageJobs /\ j.version = v /\ j.local = Candidate!Bytes(v)
  BY DEF ImageJobs, Candidate!Bytes, Candidate!Replaced
<1>4. imagePc' = [imagePc EXCEPT ![p] = next] /\ next \in ExactSteps
  BY <1>1 DEF Candidate!Fetch, Candidate!Go, ExactSteps
<1>5. UNCHANGED <<payload, registry, known, output>>
  BY <1>1 DEF Candidate!Fetch, Candidate!remote
<1>6. imageJob'[p] = j /\ imagePc'[p] = next
  BY <1>2, <1>4 DEF CandidateInv, CandidateTyped
<1>7. next # "failed" => j.local = v
  BY <1>3 DEF Candidate!VerifiedRelease, Candidate!Bytes
<1>8. AtTag(p)'
  <2>1. next \in {"list", "failed"}
    OBVIOUS
  <2> HIDE DEF j, next
  <2> QED BY <1>3, <1>6, <1>7, <2>1 DEF AtTag
<1>9. known \subseteq known' /\ known' \subseteq Stable!Image
  BY <1>5 DEF CandidateInv, CandidateTyped, Registered
<1> HIDE DEF j, next
<1> QED BY <1>2, <1>3, <1>4, <1>5, <1>8, <1>9, ExactReads DEF j

\* List: the tag is taken for free only if the registry listed what the image has.
LEMMA ExactLists ==
    ASSUME CandidateInv, NEW p \in Run, Candidate!List(p)
    PROVE  CandidateInv' /\ TagsSettled
<1> DEFINE v == imageJob[p].version
<1>1. imagePc[p] \in {"list", "again"} /\ UNCHANGED <<payload, registry, known, output, imageJob>>
  BY DEF Candidate!List, Candidate!remote
<1>2. v \in Approvable /\ imageJob[p].local = v
  BY <1>1 DEF CandidateInv, AtTag
<1>3. PICK step \in ExactSteps :
        /\ imagePc' = [imagePc EXCEPT ![p] = step]
        /\ step \in {"existing", "copy", "verified-only", "bootstrap", "failed"}
        /\ step = "copy" => registry[Stable!Ghcr][ExactTag(v)] = "nothing"
  BY TagsAre DEF Candidate!List, Candidate!Listed, Candidate!Go, Candidate!Nothing, ExactSteps
<1>4. imagePc'[p] = step
  BY <1>3 DEF CandidateInv, CandidateTyped
<1>5. AtTag(p)'
  BY <1>1, <1>2, <1>3, <1>4 DEF AtTag, Ours
<1>6. imageJob[p] \in ImageJobs /\ imageJob' = [imageJob EXCEPT ![p] = imageJob[p]]
  BY <1>1 DEF CandidateInv, CandidateTyped
<1>7. known \subseteq known' /\ known' \subseteq Stable!Image
  BY <1>1 DEF CandidateInv, CandidateTyped, Registered
<1> QED BY <1>1, <1>3, <1>5, <1>6, <1>7, ExactReads

\* Bootstrap: objects named by their digest make no tag.
LEMMA ExactBootstraps ==
    ASSUME CandidateInv, NEW p \in Run, Candidate!Bootstrap(p)
    PROVE  CandidateInv' /\ TagsSettled
<1>1. /\ imagePc[p] = "bootstrap" /\ UNCHANGED <<payload, registry, output, imageJob>>
      /\ known' \in {known, known \cup {Stable!Ghcr}}
  BY TagsAre DEF Candidate!Bootstrap
<1>2. PICK step \in ExactSteps :
        imagePc' = [imagePc EXCEPT ![p] = step] /\ step \in {"again", "failed"}
  BY DEF Candidate!Bootstrap, Candidate!Go, ExactSteps
<1>3. imagePc'[p] = step
  BY <1>2 DEF CandidateInv, CandidateTyped
<1>4. AtTag(p)'
  BY <1>1, <1>2, <1>3 DEF AtTag, CandidateInv
<1>5. imageJob[p] \in ImageJobs /\ imageJob' = [imageJob EXCEPT ![p] = imageJob[p]]
  BY <1>1 DEF CandidateInv, CandidateTyped
<1>6. known \subseteq known' /\ known' \subseteq Stable!Image
  BY <1>1, ImageConstants DEF CandidateInv, CandidateTyped, Registered
<1> QED BY <1>1, <1>2, <1>4, <1>5, <1>6, ExactReads

\* CopyExact: two runs of one version write the same bytes.
LEMMA ExactCopies ==
    ASSUME CandidateInv, NEW p \in Run, Candidate!CopyExact(p)
    PROVE  CandidateInv' /\ TagsSettled
<1> DEFINE v == imageJob[p].version
<1>1. /\ imagePc[p] = "copy" /\ UNCHANGED <<payload, output, imageJob>>
      /\ Candidate!Copy(p, Stable!Ghcr, ExactTag(v), "verify")
  BY TagsAre DEF Candidate!CopyExact
<1>2. v \in Approvable /\ imageJob[p].local = v /\ Ours(Stable!Ghcr, ExactTag(v), v)
  BY <1>1 DEF CandidateInv, AtTag
<1>3. PICK step \in ExactSteps :
        imagePc' = [imagePc EXCEPT ![p] = step] /\ step \in {"verify", "failed"}
  BY <1>1 DEF Candidate!Copy, Candidate!Go, ExactSteps
<1>4. /\ Registered' /\ TagsSettled /\ FilledOwn
      /\ \A i \in Stable!Image : registry'[i][Latest] = registry[i][Latest]
  <2>1. CASE UNCHANGED <<registry, known>>
    BY <2>1, RegistryUnchanged DEF CandidateInv, CandidateTyped, Registered
  <2>2. CASE /\ registry' = [registry EXCEPT ![Stable!Ghcr][ExactTag(v)] = v]
             /\ known' = known \cup {Stable!Ghcr}
    <3>1. ExactTag(v) \in ReleaseTags /\ Stable!Ghcr \in Stable!Image /\ Registered
      BY <1>2, TagsAre, ImageConstants DEF CandidateInv, CandidateTyped
    <3> HIDE DEF v
    <3> QED BY <1>2, <2>2, <3>1, CopiedToVersion
  <2> QED BY <1>1, <1>2, <2>1, <2>2 DEF Candidate!Copy
<1>5. imagePc'[p] = step
  BY <1>3 DEF CandidateInv, CandidateTyped
<1>6. AtTag(p)'
  BY <1>1, <1>2, <1>3, <1>5 DEF AtTag
<1>7. imageJob[p] \in ImageJobs /\ imageJob' = [imageJob EXCEPT ![p] = imageJob[p]]
  BY <1>1 DEF CandidateInv, CandidateTyped
<1> QED BY <1>1, <1>3, <1>4, <1>6, <1>7, ExactMoved

\* Inspect: what is reported was read back with the bytes of the release.
LEMMA ExactInspects ==
    ASSUME CandidateInv, NEW p \in Run, Candidate!Inspect(p)
    PROVE  CandidateInv' /\ TagsSettled
<1> DEFINE v == imageJob[p].version
<1>1. /\ imagePc[p] \in {"existing", "verify"}
      /\ UNCHANGED <<payload, registry, known, output, imageJob>>
  BY DEF Candidate!Inspect, Candidate!remote
<1>2. v \in Approvable /\ imageJob[p].local = v
  BY <1>1 DEF CandidateInv, AtTag
<1>3. PICK step \in ExactSteps :
        /\ imagePc' = [imagePc EXCEPT ![p] = step]
        /\ step \in {"published", "already-published", "failed"}
        /\ step # "failed" => registry[Stable!Ghcr][ExactTag(v)] = imageJob[p].local
  BY TagsAre DEF Candidate!Inspect, Candidate!Go, ExactSteps
<1>4. imagePc'[p] = step
  BY <1>3 DEF CandidateInv, CandidateTyped
<1>5. AtTag(p)'
  BY <1>1, <1>2, <1>3, <1>4 DEF AtTag
<1>6. imageJob[p] \in ImageJobs /\ imageJob' = [imageJob EXCEPT ![p] = imageJob[p]]
  BY <1>1 DEF CandidateInv, CandidateTyped
<1>7. known \subseteq known' /\ known' \subseteq Stable!Image
  BY <1>1 DEF CandidateInv, CandidateTyped, Registered
<1> QED BY <1>1, <1>3, <1>5, <1>6, <1>7, ExactReads

\* No run relies on anything at first.
LEMMA CandidateAtFirst ==
    ASSUME Candidate!Init
    PROVE  CandidateInv
<1>1. imagePc = [p \in Run |-> "idle"] /\ imageJob = [p \in Run |-> NoJob]
  BY DEF Candidate!Init, Candidate!Runs, Candidate!NoJob, NoJob, Candidate!Nothing
<1>2. NoJob \in ImageJobs
  BY DEF NoJob, ImageJobs
<1>3. CandidateTyped
  BY <1>1, <1>2, RegistryAtFirst DEF CandidateTyped, ExactSteps
<1>4. \A p \in Run : AtTag(p)
  BY <1>1 DEF AtTag
<1> QED BY <1>3, <1>4 DEF CandidateInv

\* Every step keeps the invariant, and the tags of all versions.
LEMMA CandidateInductive ==
    ASSUME CandidateInv, [Candidate!Next]_ImageVars
    PROVE  CandidateInv' /\ TagsSettled
<1>1. CASE Candidate!Next
  <2>1. CASE \E v \in Approvable : Candidate!Publish(v) \/ Candidate!ReplaceAsset(v)
    <3>1. /\ payload' \in [Approvable -> {"draft", "approved", "replaced"}]
          /\ UNCHANGED <<registry, known, output, imagePc, imageJob>>
      BY <2>1 DEF Candidate!Publish, Candidate!ReplaceAsset, CandidateInv, CandidateTyped,
         Candidate!Replaced
    <3> QED BY <3>1, CandidateRelease
  <2>2. CASE \E p \in Run : \/ Candidate!StartExact(p) \/ Candidate!List(p)
                            \/ Candidate!Bootstrap(p) \/ Candidate!CopyExact(p)
                            \/ Candidate!Inspect(p)
    BY <2>2, ExactStarts, ExactLists, ExactBootstraps, ExactCopies, ExactInspects
  <2> QED BY <1>1, <2>1, <2>2 DEF Candidate!Next
<1>2. CASE UNCHANGED ImageVars
  <2>1. UNCHANGED <<payload, registry, known, output, imagePc, imageJob>>
    BY <1>2 DEF ImageVars
  <2> QED BY <2>1, CandidateRelease DEF CandidateInv, CandidateTyped
<1> QED BY <1>1, <1>2

\* The invariant says what a report and latest are relied on for.
LEMMA CandidateSafe ==
    ASSUME CandidateInv
    PROVE  Candidate!TypeOK /\ Candidate!PublishedIsApproved
<1>1. Candidate!TypeOK
  <2>1. /\ imagePc \in [Candidate!Runs -> ExactSteps] /\ imageJob \in [Candidate!Runs -> ImageJobs]
        /\ payload \in [Approvable -> {"draft", "approved", "replaced"}]
        /\ registry \in [Candidate!Image -> [Candidate!Tags -> Digests]]
        /\ known \subseteq Candidate!Image /\ output = "nothing"
    BY TagsAre DEF CandidateInv, CandidateTyped, Registered, Candidate!Runs
  <2> QED BY <2>1 DEF Candidate!TypeOK, ExactSteps, ImageJobs, Digests, Candidate!Foreign,
       Candidate!Replaced, Candidate!Nothing
<1>2. Candidate!PublishedIsApproved
  BY TagsAre DEF CandidateInv, CandidateTyped, AtTag, Candidate!PublishedIsApproved,
     Candidate!Nothing
<1> QED BY <1>1, <1>2

\* However many runs copy the images of however many versions, with whatever answers of
\* the registry, copies that fail after they were made and runs that stop: a version's tag
\* never changes once it has bytes, what is reported as published is what was approved,
\* latest is a version that every image has, and so is what is written for a deployment
\* (publish_archive, container_commands, resolve).
THEOREM SafeImagesCorrect ==
    MCSpec => SafeImages
<1> DEFINE Inv == /\ part = "candidate images" => CandidateInv
                  /\ part = "stable images" => StableInv
           Kept == /\ part = "candidate images" => Candidate!TagsKept
                   /\ part = "stable images" => Stable!TagsKept
<1>1. MCInit => Inv
  BY CandidateAtFirst, StableAtFirst DEF MCInit
<1>2. Inv /\ [MCNext]_MCvars => Inv' /\ [Kept]_MCvars
  <2> SUFFICES ASSUME Inv, [MCNext]_MCvars
               PROVE  Inv' /\ Kept
    OBVIOUS
  <2>1. UNCHANGED part
    BY DEF MCNext, MCvars
  <2>2. part = "candidate images" => [Candidate!Next]_ImageVars
    BY DEF MCNext, MCvars
  <2>3. part = "stable images" => [Stable!Next]_ImageVars
    BY DEF MCNext, MCvars
  <2>4. TagsSettled => Candidate!TagsKept /\ Stable!TagsKept
    BY TagsAre DEF TagsSettled, Candidate!TagsKept, Stable!TagsKept, Candidate!Nothing,
       Stable!Nothing
  <2> QED BY <2>1, <2>2, <2>3, <2>4, CandidateInductive, StableInductive
<1>3. Inv => /\ part = "candidate images" => Candidate!TypeOK /\ Candidate!PublishedIsApproved
             /\ part = "stable images" =>
                  Stable!TypeOK /\ Stable!PublishedIsApproved /\ Stable!OutputDeployable
  BY CandidateSafe, StableSafe
<1> HIDE DEF Inv
<1> QED BY <1>1, <1>2, <1>3, PTL DEF MCSpec, SafeImages
=============================================================================
