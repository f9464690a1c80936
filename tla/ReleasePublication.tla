------------------------- MODULE ReleasePublication -------------------------
(***************************************************************************)
(* Versions and releases: scripts/release_state.py (the ledger of version  *)
(* plans), release_versioned.py (prepare and publish) and                  *)
(* release_control.py (promotion, and the publication itself).             *)
(*                                                                         *)
(* A run is one run of the release workflow, with its attempts.  It        *)
(* reserves a plan in the ledger, builds, spends the plan's build number   *)
(* and then creates a tag, a draft and its assets, and makes it public.    *)
(* Each call to GitHub is a step of its own where another actor can come   *)
(* between; a run can end at any step, with or without the effect of the   *)
(* call it was making.  Maintainers move the default branch, replace       *)
(* assets and discard drafts.                                              *)
(*                                                                         *)
(* A source is the position of its commit on the default branch.  Policies,*)
(* receipts, signatures and notes only refuse: a refusal is Fail.          *)
(***************************************************************************)
EXTENDS Naturals, Sequences, FiniteSets

CONSTANTS
    Run, NoRun,
    Triggers,      \* event and channel of the runs, a subset of Occasions
    Promotion,     \* versioning.promotion of the policy
    Serial,        \* the workflow's concurrency group holds
    BaseAt,        \* base version committed at each source
    MaxSource, MaxIncidents   \* bounds of the model

Channels == {"nightly", "beta", "rc", "stable"}
Occasions == {<<"push", "beta">>, <<"schedule", "nightly">>} \cup ({"dispatch"} \X Channels)
Sources == 1..MaxSource

ReleaseAssumption ==
    /\ NoRun \notin Run
    /\ Triggers \subseteq Occasions
    /\ Promotion \in {"promote-bytes", "final-build"}
    /\ Serial \in BOOLEAN
    /\ MaxSource \in Nat \ {0} /\ MaxIncidents \in Nat
    /\ BaseAt \in [Sources -> Nat]

VARIABLES
    head,          \* source at the default branch
    ledger,        \* the file of the dedicated branch
    tags, releases,
    evidence,      \* attempt whose manifest a run stored as an artifact, or 0
    incidents,     \* reruns, replaced assets and discarded drafts so far
    pc, trigger, source, attempt, fresh,
    input,         \* run whose RC the dispatch names
    copy,          \* the ledger as the run read it
    plan,          \* the plan artifact
    seen,          \* what it recorded of the world before its first write
    staged,        \* the bytes in its staging directory
    release        \* the release it works on, or 0

remote == <<head, ledger, tags, releases, evidence, incidents>>
job == <<trigger, source, input>>
vars == <<remote, pc, job, attempt, fresh, copy, plan, seen, staged, release>>

NoPlan == [number |-> 0]
Blank == [rev |-> 0, counter |-> 0, floor |-> 0, plans |-> [r \in Run |-> NoPlan]]
Stages == {"prepare", "reserve", "publish", "promote", "stage", "begin", "spend", "tag",
           "create", "readback", "upload", "confirm", "public", "evidence"}
Active(r) == pc[r] \in Stages
Event(r) == trigger[r][1]
Channel(r) == trigger[r][2]
Base(r) == BaseAt[source[r]]
Automatic(r) == trigger[r] \in {<<"push", "beta">>, <<"schedule", "nightly">>}
Promoting(r) == Channel(r) = "stable" /\ Promotion = "promote-bytes"

\* A tag: base, channel, sequence and, for a nightly, its run.
Tag(b, c, n, r) == [base |-> b, channel |-> c, sequence |-> n, run |-> r]
Final(b) == Tag(b, "stable", 0, NoRun)

Alive == {i \in DOMAIN releases : releases[i].state # "deleted"}
Public == {i \in Alive : releases[i].state = "public"}
WithTag(t) == {i \in Alive : releases[i].tag = t}
Published(p) == \E i \in Public : releases[i].tag = p.tag

\* ensure_absent: neither a tag nor a release, draft or public.
Absent(t) == t \notin tags /\ WithTag(t) = {}

Init ==
    /\ head = 1
    /\ ledger = Blank
    /\ tags = {} /\ releases = <<>>
    /\ evidence = [r \in Run |-> 0] /\ incidents = 0
    /\ pc = [r \in Run |-> "idle"]
    /\ trigger = [r \in Run |-> <<"none", "none">>]
    /\ source = [r \in Run |-> 1] /\ attempt = [r \in Run |-> 0]
    /\ fresh = [r \in Run |-> FALSE] /\ input = [r \in Run |-> NoRun]
    /\ copy = [r \in Run |-> Blank] /\ plan = [r \in Run |-> NoPlan]
    /\ seen = [r \in Run |-> 0] /\ staged = [r \in Run |-> <<NoRun, 0>>]
    /\ release = [r \in Run |-> 0]

-----------------------------------------------------------------------------
(* Control of a run                                                        *)

Go(r, to) == pc' = [pc EXCEPT ![r] = to]

\* The end of a run's process; the plan artifact stays.
Ends(r, how) ==
    /\ Go(r, how)
    /\ copy' = [copy EXCEPT ![r] = Blank]
    /\ seen' = [seen EXCEPT ![r] = 0]
    /\ staged' = [staged EXCEPT ![r] = <<NoRun, 0>>]
    /\ release' = [release EXCEPT ![r] = 0]
Free == Serial => \A r \in Run : ~Active(r)

Start(r, t, rc) ==
    /\ pc[r] = "idle" /\ Free
    /\ IF t[2] = "stable" THEN rc \in Run \ {r} /\ ledger.plans[rc] # NoPlan ELSE rc = NoRun
    /\ Go(r, "prepare")
    /\ trigger' = [trigger EXCEPT ![r] = t]
    /\ source' = [source EXCEPT ![r] = head]
    /\ input' = [input EXCEPT ![r] = rc]
    /\ attempt' = [attempt EXCEPT ![r] = 1]
    /\ fresh' = [fresh EXCEPT ![r] = TRUE]
    /\ UNCHANGED <<remote, copy, plan, seen, staged, release>>

\* A second attempt runs every job again, or only the last one: then the jobs
\* that had succeeded are copied from the attempt before.
Rerun(r, all) ==
    /\ pc[r] \in {"failed", "succeeded"} /\ incidents < MaxIncidents /\ Free
    /\ all \/ plan[r] # NoPlan
    /\ Go(r, IF all THEN "prepare" ELSE IF Promoting(r) THEN "promote" ELSE "publish")
    /\ attempt' = [attempt EXCEPT ![r] = @ + 1]
    /\ fresh' = [fresh EXCEPT ![r] = all]
    /\ plan' = [plan EXCEPT ![r] = IF all THEN NoPlan ELSE @]
    /\ incidents' = incidents + 1
    /\ UNCHANGED <<head, ledger, tags, releases, evidence, job, copy, seen, staged, release>>

\* Any refusal, crash, cancellation or job timeout.
Fail(r) ==
    /\ Active(r)
    /\ Ends(r, "failed")
    /\ UNCHANGED <<remote, job, attempt, fresh, plan>>

\* The run succeeds without a release: the version is closed, a newer source
\* supersedes it, or a qualified release of the same source exists.
Skip(r) == Ends(r, "succeeded") /\ UNCHANGED <<job, attempt, fresh, plan>>

-----------------------------------------------------------------------------
(* The ledger                                                              *)

\* Mutant: the write names no blob.
CurrentAlways(r) == TRUE

\* write_state: the blob read before is the blob replaced.
Current(r) == copy[r].rev = ledger.rev
Write(r, new) ==
    /\ Current(r)
    /\ ledger' = [new EXCEPT !.rev = ledger.rev + 1]

Largest(S) == CHOOSE n \in S \cup {0} : \A m \in S : m <= n

\* Mutant: only tags and releases count, not reservations.
NextSequenceReleased(r) ==
    1 + Largest({t.sequence : t \in {u \in tags \cup {releases[i].tag : i \in Alive} :
                                     u.base = Base(r) /\ u.channel = Channel(r)}})

\* next_sequence and the reservations of the same line.
NextSequence(r) ==
    1 + Largest({t.sequence : t \in {u \in tags \cup {releases[i].tag : i \in Alive}
                                            \cup {p.tag : p \in {copy[r].plans[q] : q \in Run} \ {NoPlan}} :
                                     u.base = Base(r) /\ u.channel = Channel(r)}})

NewTag(r) ==
    CASE Channel(r) = "nightly" -> Tag(Base(r), "nightly", 0, r)
      [] Channel(r) = "stable" -> Final(Base(r))
      [] OTHER -> Tag(Base(r), Channel(r), NextSequence(r), NoRun)

NewPlan(r) ==
    [number |-> copy[r].counter + 1, tag |-> NewTag(r), source |-> source[r], parent |-> input[r]]

\* Mutants: a plan is published again once its draft is gone; any reserved plan
\* is published.
ReservedAboveReleases(L, r) ==
    /\ L.plans[r] = plan[r] /\ plan[r] # NoPlan
    /\ \A q \in Run : L.plans[q] # NoPlan /\ Published(L.plans[q]) =>
          L.plans[q].number < plan[r].number
ReservedAsPlanned(L, r) == L.plans[r] = plan[r] /\ plan[r] # NoPlan

\* verify_reservation, against the ledger L.
Reserved(L, r) ==
    /\ L.plans[r] = plan[r] /\ plan[r] # NoPlan
    /\ plan[r].number > L.floor
    /\ \A q \in Run : L.plans[q] # NoPlan /\ Published(L.plans[q]) =>
          L.plans[q].number < plan[r].number

\* verify_promotion_order of the RC a run promotes.
Promotable(L, r) ==
    LET p == L.plans[input[r]] IN
    /\ p # NoPlan /\ p.tag.channel = "rc"
    /\ p.number >= L.floor
    /\ Published(p)
    /\ \A q \in Run : L.plans[q] # NoPlan /\ Published(L.plans[q]) => L.plans[q].number <= p.number

\* validate_run and verify_evidence: the run succeeded in its latest attempt, the
\* one that stored the manifest.
Succeeded(q) == pc[q] = "succeeded"
Evident(q) == evidence[q] = attempt[q]

\* verified_rc: a public RC of a run that succeeded, with the bytes of its manifest.
Rc(r) == CHOOSE i \in Public : releases[i].tag = ledger.plans[input[r]].tag
Accepted(r) ==
    LET q == input[r] IN
    /\ ledger.plans[q] # NoPlan /\ ledger.plans[q].tag.channel = "rc"
    /\ Published(ledger.plans[q])
    /\ Succeeded(q) /\ Evident(q)
    /\ releases[Rc(r)].bytes = <<q, evidence[q]>>

-----------------------------------------------------------------------------
(* Preparation                                                             *)

Prepare(r) ==
    /\ pc[r] = "prepare"
    /\ Channel(r) = "stable" => Accepted(r)
    /\ IF Promoting(r)
       THEN Go(r, "promote") /\ UNCHANGED copy
       ELSE /\ Channel(r) = "stable" => ledger.plans[input[r]].source = source[r]
            /\ Channel(r) # "nightly" => Absent(Final(Base(r)))
            /\ copy' = [copy EXCEPT ![r] = ledger]
            /\ Go(r, "reserve")
    /\ UNCHANGED <<remote, job, attempt, fresh, plan, seen, staged, release>>

\* An automatic beta of a version that is final already: no build.
ClosedCycle(r) ==
    /\ pc[r] = "prepare" /\ Event(r) = "push" /\ Final(Base(r)) \in tags
    /\ Skip(r)
    /\ UNCHANGED remote

\* A run that reserved before gets the same plan.
Reuse(r) ==
    /\ pc[r] = "reserve" /\ copy[r].plans[r] # NoPlan
    /\ plan' = [plan EXCEPT ![r] = copy[r].plans[r]]
    /\ Go(r, "publish")
    /\ copy' = [copy EXCEPT ![r] = Blank]
    /\ UNCHANGED <<remote, job, attempt, fresh, seen, staged, release>>

Reserve(r, answered) ==
    /\ pc[r] = "reserve" /\ copy[r].plans[r] = NoPlan
    /\ Absent(NewTag(r))
    /\ Write(r, [copy[r] EXCEPT !.counter = @ + 1, !.plans[r] = NewPlan(r)])
    /\ plan' = [plan EXCEPT ![r] = IF answered THEN NewPlan(r) ELSE @]
    /\ Go(r, IF answered THEN "publish" ELSE "failed")
    /\ copy' = [copy EXCEPT ![r] = Blank]
    /\ UNCHANGED <<head, tags, releases, evidence, incidents, job, attempt, fresh, seen, staged, release>>

-----------------------------------------------------------------------------
(* The checks before the first public write                                *)

\* Every prerequisite job of a later attempt must have run in that attempt.
GateReady(r) == attempt[r] = 1 \/ fresh[r]

\* A qualified release of the same source: a scheduled run ends with it.
Qualified(r) ==
    \E q \in Run : /\ ledger.plans[q] # NoPlan
                   /\ ledger.plans[q].source = source[r]
                   /\ ledger.plans[q].tag.channel # "nightly"
                   /\ Succeeded(q) /\ Evident(q)
                   /\ \E i \in Public : /\ releases[i].tag = ledger.plans[q].tag
                                        /\ releases[i].bytes = <<q, evidence[q]>>

Publishable(r) ==
    /\ pc[r] = "publish" /\ ~Promoting(r)
    /\ GateReady(r)
    /\ Channel(r) = "stable" => Accepted(r) /\ ledger.plans[input[r]].source = plan[r].source
    /\ Reserved(ledger, r)
    /\ Absent(plan[r].tag)
    /\ Channel(r) \in {"beta", "rc"} => Absent(Final(Base(r)))

Superseded(r) == Publishable(r) /\ Automatic(r) /\ head # source[r] /\ Skip(r) /\ UNCHANGED remote

Reused(r) ==
    /\ Publishable(r) /\ trigger[r] = <<"schedule", "nightly">> /\ Qualified(r)
    /\ Skip(r)
    /\ UNCHANGED remote

Publish(r) ==
    /\ Publishable(r)
    /\ Automatic(r) => head = source[r]
    /\ ~(trigger[r] = <<"schedule", "nightly">> /\ Qualified(r))
    /\ seen' = [seen EXCEPT ![r] = head]
    /\ staged' = [staged EXCEPT ![r] = <<r, attempt[r]>>]
    /\ Go(r, "begin")
    /\ UNCHANGED <<remote, job, attempt, fresh, copy, plan, release>>

\* promote: the first checks, and a snapshot of the RC.
Promote(r) ==
    /\ pc[r] = "promote"
    /\ Promotable(ledger, r) /\ Accepted(r)
    /\ Absent(Final(ledger.plans[input[r]].tag.base))
    /\ seen' = [seen EXCEPT ![r] = Rc(r)]
    /\ Go(r, "stage")
    /\ UNCHANGED <<remote, job, attempt, fresh, copy, plan, staged, release>>

\* Mutant: the download is not compared again.
StageUnchecked(r) ==
    /\ pc[r] = "stage"
    /\ seen[r] \in Public
    /\ plan' = [plan EXCEPT ![r] = [ledger.plans[input[r]] EXCEPT !.tag = Final(@.base)]]
    /\ staged' = [staged EXCEPT ![r] = releases[seen[r]].bytes]
    /\ Go(r, "begin")
    /\ UNCHANGED <<remote, job, attempt, fresh, copy, seen, release>>

\* The bytes are downloaded and compared with the manifest, the RC with its
\* snapshot, and the run of the RC is checked once more.
Stage(r) ==
    /\ pc[r] = "stage"
    /\ Accepted(r) /\ Rc(r) = seen[r]
    /\ Promotable(ledger, r)
    /\ plan' = [plan EXCEPT ![r] = [ledger.plans[input[r]] EXCEPT !.tag = Final(@.base)]]
    /\ staged' = [staged EXCEPT ![r] = releases[Rc(r)].bytes]
    /\ Go(r, "begin")
    /\ UNCHANGED <<remote, job, attempt, fresh, copy, seen, release>>

-----------------------------------------------------------------------------
(* Publication                                                             *)

\* begin_publication reads the ledger and checks the order again,
Begin(r) ==
    /\ pc[r] = "begin"
    /\ IF Promoting(r) THEN Promotable(ledger, r) ELSE Reserved(ledger, r)
    /\ copy' = [copy EXCEPT ![r] = ledger]
    /\ Go(r, "spend")
    /\ UNCHANGED <<remote, job, attempt, fresh, plan, seen, staged, release>>

\* and consumes the number.  The run keeps the ledger it wrote.
Spend(r, answered) ==
    /\ pc[r] = "spend"
    /\ Write(r, [copy[r] EXCEPT !.floor = plan[r].number])
    /\ IF answered
       THEN /\ Go(r, "tag")
            /\ copy' = [copy EXCEPT ![r] = ledger']
            /\ UNCHANGED <<seen, staged, release>>
       ELSE Ends(r, "failed")
    /\ UNCHANGED <<head, tags, releases, evidence, incidents, job, attempt, fresh, plan>>

CreateTag(r, answered) ==
    /\ pc[r] = "tag"
    /\ Absent(plan[r].tag)
    /\ tags' = tags \cup {plan[r].tag}
    /\ IF answered THEN Go(r, "create") /\ UNCHANGED <<copy, seen, staged, release>> ELSE Ends(r, "failed")
    /\ UNCHANGED <<head, ledger, releases, evidence, incidents, job, attempt, fresh, plan>>

Draft(r) ==
    [tag |-> plan[r].tag, number |-> plan[r].number, state |-> "draft", by |-> r,
     bytes |-> <<NoRun, 0>>, built |-> staged[r]]

\* create_release_once.  The answer can be lost, whether or not the draft was
\* created; only a candidate or final build then reads it back.
Ambiguous(r) ==
    IF Promoting(r) THEN Ends(r, "failed") ELSE Go(r, "readback") /\ UNCHANGED <<copy, seen, staged, release>>

Create(r, answered) ==
    /\ pc[r] = "create"
    /\ releases' = Append(releases, Draft(r))
    /\ IF answered
       THEN /\ Go(r, "upload")
            /\ release' = [release EXCEPT ![r] = Len(releases) + 1]
            /\ UNCHANGED <<copy, seen, staged>>
       ELSE Ambiguous(r)
    /\ UNCHANGED <<head, ledger, tags, evidence, incidents, job, attempt, fresh, plan>>

CreateLost(r) ==
    /\ pc[r] = "create"
    /\ Ambiguous(r)
    /\ UNCHANGED <<remote, job, attempt, fresh, plan>>

Unmoved(r) == Current(r) /\ head = seen[r]

\* _reconcile_created_release: one empty draft of this tag, and neither the
\* ledger nor the default branch has changed since the number was spent.
Readback(r) ==
    /\ pc[r] = "readback"
    /\ Unmoved(r)
    /\ plan[r].tag \in tags
    /\ \E i \in Alive :
         /\ WithTag(plan[r].tag) = {i}
         /\ releases[i].state = "draft"
         /\ release' = [release EXCEPT ![r] = i]
    /\ Go(r, "upload")
    /\ UNCHANGED <<remote, job, attempt, fresh, copy, plan, seen, staged>>

\* Every asset is uploaded once and read back.
Upload(r) ==
    /\ pc[r] = "upload" /\ releases[release[r]].state = "draft"
    /\ releases' = [releases EXCEPT ![release[r]].state = "full", ![release[r]].bytes = staged[r]]
    /\ Go(r, "confirm")
    /\ UNCHANGED <<head, ledger, tags, evidence, incidents, job, attempt, fresh, copy, plan, seen, staged,
                   release>>

Confirm(r) ==
    /\ pc[r] = "confirm" /\ plan[r].tag \in tags
    /\ Automatic(r) => head = seen[r]
    /\ Go(r, "public")
    /\ UNCHANGED <<remote, job, attempt, fresh, copy, plan, seen, staged, release>>

MakePublic(r, answered) ==
    /\ pc[r] = "public" /\ releases[release[r]].state = "full"
    /\ releases' = [releases EXCEPT ![release[r]].state = "public"]
    /\ CASE ~answered -> Ends(r, "failed")
         [] answered /\ Promoting(r) -> Ends(r, "succeeded")
         [] OTHER -> Go(r, "evidence") /\ UNCHANGED <<copy, seen, staged, release>>
    /\ UNCHANGED <<head, ledger, tags, evidence, incidents, job, attempt, fresh, plan>>

\* The step after the publication stores the manifest as an artifact.
StoreEvidence(r) ==
    /\ pc[r] = "evidence"
    /\ evidence' = [evidence EXCEPT ![r] = attempt[r]]
    /\ Ends(r, "succeeded")
    /\ UNCHANGED <<head, ledger, tags, releases, incidents, job, attempt, fresh, plan>>

-----------------------------------------------------------------------------
(* Maintainers                                                             *)

Jobs == <<pc, job, attempt, fresh, copy, plan, seen, staged, release>>

HeadMoves ==
    /\ head < MaxSource
    /\ head' = head + 1
    /\ UNCHANGED <<ledger, tags, releases, evidence, incidents, Jobs>>

ReplaceAsset(i) ==
    /\ i \in Public /\ incidents < MaxIncidents
    /\ releases' = [releases EXCEPT ![i].bytes = <<NoRun, 0>>]
    /\ incidents' = incidents + 1
    /\ UNCHANGED <<head, ledger, tags, evidence, Jobs>>

\* A draft that was left behind is deleted with its tag, or a tag without one.
Discard(t) ==
    /\ incidents < MaxIncidents
    /\ t \in tags /\ WithTag(t) \cap Public = {}
    /\ tags' = tags \ {t}
    /\ releases' = [i \in DOMAIN releases |->
                      IF i \in WithTag(t) THEN [releases[i] EXCEPT !.state = "deleted"] ELSE releases[i]]
    /\ incidents' = incidents + 1
    /\ UNCHANGED <<head, ledger, evidence, Jobs>>

Step(r) ==
    \/ \E t \in Triggers, rc \in Run \cup {NoRun} : Start(r, t, rc)
    \/ \E all \in BOOLEAN : Rerun(r, all)
    \/ Fail(r)
    \/ Prepare(r) \/ ClosedCycle(r) \/ Reuse(r)
    \/ \E answered \in BOOLEAN : Reserve(r, answered)
    \/ Superseded(r) \/ Reused(r) \/ Publish(r)
    \/ Promote(r) \/ Stage(r)
    \/ Begin(r)
    \/ \E answered \in BOOLEAN : \/ Spend(r, answered)
                                 \/ CreateTag(r, answered)
                                 \/ Create(r, answered)
                                 \/ MakePublic(r, answered)
    \/ CreateLost(r) \/ Readback(r)
    \/ Upload(r) \/ Confirm(r) \/ StoreEvidence(r)

Next ==
    \/ \E r \in Run : Step(r)
    \/ HeadMoves
    \/ \E i \in DOMAIN releases : ReplaceAsset(i)
    \/ \E t \in tags : Discard(t)

Spec == Init /\ [][Next]_vars

-----------------------------------------------------------------------------
(* Properties                                                              *)

Plans == {r \in Run : ledger.plans[r] # NoPlan}

\* Two runs never hold the same build number or tag, and the ledger's counters
\* bound them: a reservation made from a ledger that was read before another
\* run's write would give one of them away twice (reserve_plan, write_state).
\* (A final build's tag can be reserved by a second run after the first failed.)
DistinctPlans ==
    /\ \A r, s \in Plans : r # s =>
          /\ ledger.plans[r].number # ledger.plans[s].number
          /\ ledger.plans[r].tag.channel # "stable" => ledger.plans[r].tag # ledger.plans[s].tag
    /\ \A r \in Plans : ledger.plans[r].number <= ledger.counter
    /\ ledger.floor <= ledger.counter

\* No reservation is ever lost or changed and no counter goes back, whatever
\* runs write the file at the same time ("the ledger must never be reset").
NothingForgotten ==
    /\ \A r \in Plans : ledger'.plans[r] = ledger.plans[r]
    /\ ledger'.counter >= ledger.counter /\ ledger'.floor >= ledger.floor

\* One number stands for one build.  Two drafts with the same number, deleted
\* ones included, hold the same bytes, and at most one of a tag exists: after a
\* failed publication or a lost answer nothing is built or created again under
\* the number (begin_publication, create_release_once).
OneBuildPerNumber ==
    \A i, j \in DOMAIN releases : i < j /\ releases[i].number = releases[j].number =>
        /\ releases[i].built = releases[j].built
        /\ ~({i, j} \subseteq Alive /\ releases[i].tag = releases[j].tag)

\* A build number is reserved once, remembered and never built again, also when
\* runs write the ledger at the same time (reserve_plan, write_state,
\* create_release_once).
NumbersUnique == [](DistinctPlans /\ OneBuildPerNumber) /\ [][NothingForgotten]_vars

\* What becomes public was built under its plan: a candidate by the attempt that
\* publishes it, with every job run in that attempt, and a promotion has the
\* bytes the RC's own run stored evidence of, also when a maintainer replaced an
\* asset of the RC in the meantime (promote, require_current_attempt_jobs).
BuiltAsAccepted ==
    \A i \in DOMAIN releases : releases[i].state = "full" /\ releases'[i].state = "public" =>
        LET r == releases[i].by IN
        IF Promoting(r) THEN releases[i].bytes = <<input[r], evidence[input[r]]>>
                        ELSE releases[i].bytes = <<r, attempt[r]>> /\ GateReady(r)

\* While the workflow runs one at a time, native build numbers are published in
\* ascending order and no candidate of a version follows its final release, over
\* crashes, reruns and abandoned drafts (begin_publication, ensure_absent).
NoDowngrade ==
    \A i \in DOMAIN releases : releases[i].state = "full" /\ releases'[i].state = "public" =>
        \A j \in Public :
            /\ releases[j].number <= releases[i].number
            /\ releases[i].tag.channel \in {"beta", "rc"} => releases[j].tag # Final(releases[i].tag.base)

=============================================================================
