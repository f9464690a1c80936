------------------------------ MODULE Workbench ------------------------------
(***************************************************************************)
(* The read-only observations of cli/workbench.py: "test run health",      *)
(* "test run media-progress", "bundle" and "doctor --provider".            *)
(*                                                                         *)
(* A command observes the player's page, its native agent, or both, once   *)
(* or twice, within one budget of time that it divides, so that a page     *)
(* that does not answer leaves time for the agent.  The page is reloaded,  *)
(* the media is switched, sought, paused or freezes, and the clock of the  *)
(* device jumps, while the command waits.  The verdict of the progress     *)
(* test compares two samples.                                              *)
(***************************************************************************)
EXTENDS Integers, Sequences, FiniteSets

CONSTANTS
    Budget,        \* the time of a command
    Duration,      \* between the two samples of the progress test
    MaxEvents,     \* what may happen to the media while a command runs
    Commands       \* those that are asked for

WorkbenchAssumption ==
    /\ Budget \in Nat /\ Duration \in Nat \ {0} /\ Budget > Duration + 1
    /\ MaxEvents \in Nat
    /\ Commands \subseteq {"health", "progress", "bundle", "provider"}

VARIABLES
    now,           \* the host's clock
    media,         \* what plays, and the page it plays in
    skew,          \* of the device's clock
    happened,      \* events so far
    command, lane, \* what was asked for
    bound,         \* a native agent belongs to the player
    advertised,    \* the page can tell about its provider
    pc,
    stage, turn,   \* the observation of the plan, and its lane
    stageEnd, laneEnd,
    step,          \* the request of the lane: 1 or 2
    page,          \* the runtime of the page that named its capabilities
    reply,         \* the sample on its way, or NoSample
    rows,          \* the observations
    times,         \* when the first was begun and ended, and the second
    asked,         \* history: the observations that sent a request
    verdict,
    saved          \* the report: its result and its manifest

world == <<media, skew, happened>>
asking == <<command, lane, bound, advertised>>
position == <<stage, turn, stageEnd, laneEnd, step, page, reply>>
vars == <<now, world, asking, pc, position, rows, times, asked, verdict, saved>>

NoSample == [runtime |-> 0]

Init ==
    /\ now = 0
    /\ media = [runtime |-> 1, generation |-> 1, at |-> 5, state |-> "playing", epoch |-> 1]
    /\ skew = 0 /\ happened = 0
    /\ command \in Commands
    /\ lane \in {"web", "native", "auto"}
    /\ command = "provider" => lane # "native"
    /\ bound \in BOOLEAN /\ advertised \in BOOLEAN
    /\ pc = "stage" /\ stage = 1 /\ turn = 0
    /\ stageEnd = 0 /\ laneEnd = 0 /\ step = 1 /\ page = 0 /\ reply = NoSample
    /\ rows = <<>> /\ times = <<>> /\ asked = {}
    /\ verdict = "none" /\ saved = {}

-----------------------------------------------------------------------------
(* The player, its viewer and the clocks                                   *)

Waiting == pc \in {"wait", "sleep"}
Until == IF pc = "wait" THEN laneEnd ELSE times[2] + Duration

\* A client never waits beyond its deadline, nor longer than the pause is.
Tick ==
    /\ Waiting /\ now < Until
    /\ now' = now + 1
    /\ media' = [media EXCEPT !.at = IF @ > 0 /\ media.state = "playing" THEN @ + 1 ELSE @]
    /\ UNCHANGED <<skew, happened, asking, pc, position, rows, times, asked, verdict, saved>>

Happens ==
    /\ Waiting /\ happened < MaxEvents
    /\ happened' = happened + 1
    /\ UNCHANGED <<now, asking, pc, position, rows, times, asked, verdict, saved>>

\* Another media has another generation; a page that was reloaded counts its
\* generations anew.
SwitchMedia ==
    /\ Happens /\ UNCHANGED skew
    /\ media' = [media EXCEPT !.generation = @ + 1, !.at = 6, !.epoch = @ + 1]

Reload ==
    /\ Happens /\ UNCHANGED skew
    /\ media' = [runtime |-> media.runtime + 1, generation |-> 1, at |-> 6, state |-> "playing",
                 epoch |-> media.epoch + 1]

Seek ==
    /\ Happens /\ UNCHANGED skew
    /\ \E to \in {1, media.at + 100} : media' = [media EXCEPT !.at = to]

\* Paused by the viewer, or frozen without knowing.
Stall ==
    /\ Happens /\ UNCHANGED skew
    /\ \E state \in {"paused", "frozen", "playing"} \ {media.state} :
         media' = [media EXCEPT !.state = state]

ClockJump ==
    /\ Happens /\ UNCHANGED media
    /\ \E by \in {-3, 3} : skew' = skew + by

-----------------------------------------------------------------------------
(* The plan of a command                                                   *)

Lanes(l) == IF l = "auto" THEN <<"web", "native">> ELSE <<l>>

\* The lanes of its observations.
Plan ==
    CASE command = "health" -> <<Lanes(lane)>>
      [] command = "progress" -> <<Lanes(lane), Lanes(lane)>>
      [] command = "bundle" /\ lane = "native" -> <<Lanes(lane)>>
      [] command = "bundle" /\ lane # "native" -> <<Lanes(lane), <<"web">>, <<"web">>>>
      [] command = "provider" -> <<<<"web">>, Lanes(lane), <<"web">>>>

Left(end) == IF end > now THEN end - now ELSE 0
Part(num, den) == (Left(Budget) * num) \div den

\* The time an observation may take: a share of what is left, for the last one all.
Window ==
    CASE command = "progress" /\ stage = 1 -> (Budget - Duration) \div 2
      [] command = "bundle" /\ stage < Len(Plan) -> IF stage = 1 THEN Part(3, 4) ELSE Part(1, 2)
      [] command = "provider" /\ stage < Len(Plan) -> IF stage = 1 THEN Part(2, 5) ELSE Part(3, 5)
      [] OTHER -> Left(Budget)

\* A bundle asks for the provider only a page that told it can.
Skipped == command = "bundle" /\ stage = 2 /\ ~(\E i \in 1 .. Len(rows) : rows[i].caps /\ advertised)

BeginStage ==
    /\ pc = "stage" /\ stage <= Len(Plan)
    /\ IF Skipped
       THEN stage' = stage + 1 /\ UNCHANGED <<pc, stageEnd, turn, times>>
       ELSE /\ stageEnd' = now + Window
            /\ turn' = 1 /\ pc' = "lane"
            /\ times' = Append(times, now)
            /\ UNCHANGED stage
    /\ UNCHANGED <<now, world, asking, laneEnd, step, page, reply, rows, asked, verdict, saved>>

\* A variant that gives a lane all that is left.
ShareAll == Left(stageEnd)

\* observe: what is left of the stage is divided by the lanes that are left.
Share == Left(stageEnd) \div (Len(Plan[stage]) + 1 - turn)

Lane == Plan[stage][turn]

Row(status, sample, caps) == [stage |-> stage, lane |-> Lane, status |-> status, sample |-> sample, caps |-> caps]

\* The lane is done: the next one of the stage, or the next stage.
Done(row) ==
    /\ rows' = Append(rows, row)
    /\ reply' = NoSample /\ step' = 1 /\ page' = 0
    /\ IF turn < Len(Plan[stage])
       THEN pc' = "lane" /\ turn' = turn + 1 /\ UNCHANGED <<stage, times>>
       ELSE /\ stage' = stage + 1 /\ UNCHANGED turn
            /\ times' = Append(times, now)
            /\ pc' = IF command = "progress" /\ stage = 1 THEN "sleep" ELSE "stage"

BeginLane ==
    /\ pc = "lane"
    /\ laneEnd' = now + Share
    /\ IF Lane = "native" /\ ~bound
       THEN Done(Row("not_bound", NoSample, FALSE)) /\ UNCHANGED stageEnd
       ELSE pc' = "ask" /\ UNCHANGED <<stage, turn, stageEnd, step, page, reply, rows, times>>
    /\ UNCHANGED <<now, world, asking, asked, verdict, saved>>

-----------------------------------------------------------------------------
(* observe_lane                                                            *)

Ask ==
    /\ pc = "ask"
    /\ IF laneEnd <= now
       THEN Done(Row("unknown", NoSample, step = 2 /\ Lane = "web")) /\ UNCHANGED <<stageEnd, laneEnd, asked>>
       ELSE /\ pc' = "wait" /\ asked' = asked \cup {<<stage, Lane>>}
            /\ UNCHANGED <<position, rows, times>>
    /\ UNCHANGED <<now, world, asking, verdict, saved>>

\* The page answers for its present run only; the agent for any.
Sample ==
    [runtime |-> media.runtime, generation |-> media.generation, at |-> media.at,
     state |-> IF media.state = "frozen" THEN "playing" ELSE media.state,
     epoch |-> media.epoch, captured |-> now + skew]

Take ==
    /\ pc = "wait" /\ reply = NoSample
    /\ Lane = "web" /\ step = 2 => page = media.runtime
    /\ reply' = Sample
    /\ UNCHANGED <<now, world, asking, pc, stage, turn, stageEnd, laneEnd, step, page, rows, times,
                   asked, verdict, saved>>

\* The capabilities name the page's runtime, and what is observed is asked of
\* that.  An answer at the deadline is too late.
Answered ==
    /\ pc = "wait" /\ reply # NoSample /\ now < laneEnd
    /\ IF Lane = "web" /\ step = 1
       THEN /\ page' = reply.runtime /\ step' = 2 /\ reply' = NoSample
            /\ pc' = "ask"
            /\ UNCHANGED <<stage, turn, rows, times>>
       ELSE Done(Row("observed", reply, Lane = "web"))
    /\ UNCHANGED <<now, world, asking, stageEnd, laneEnd, asked, verdict, saved>>

\* A refusal, a loss, an answer that cannot be read, or none in time.
Unanswered ==
    /\ pc = "wait"
    /\ Done(Row("unknown", NoSample, step = 2 /\ Lane = "web"))
    /\ UNCHANGED <<now, world, asking, stageEnd, laneEnd, asked, verdict, saved>>

\* The pause between the two samples ends when its time is over.
SleepEnds ==
    /\ pc = "sleep" /\ now = times[2] + Duration
    /\ pc' = "stage"
    /\ UNCHANGED <<now, world, asking, position, rows, times, asked, verdict, saved>>

-----------------------------------------------------------------------------
(* The verdicts                                                            *)

Observed(s, l) == {i \in 1 .. Len(rows) : rows[i].stage = s /\ rows[i].lane = l /\ rows[i].status = "observed"}

\* The web lane has the say, unless only the native one was asked for.
Authority == IF lane = "native" THEN "native" ELSE "web"

\* The host's bounds on the time between the two samples.
IntervalMin == times[3] - times[2]
IntervalMax == times[4] - times[1]

\* A variant that compares the generations only.
SameGeneration(a, b) == a.generation = b.generation

SameMedia(a, b) == a.runtime = b.runtime /\ a.generation = b.generation

ProgressVerdict ==
    IF Observed(1, Authority) = {} \/ Observed(2, Authority) = {} THEN "unknown"
    ELSE LET a == rows[CHOOSE i \in Observed(1, Authority) : TRUE].sample
             b == rows[CHOOSE i \in Observed(2, Authority) : TRUE].sample
             elapsed == b.captured - a.captured
             delta == b.at - a.at
         IN IF \/ ~SameMedia(a, b)
               \/ elapsed <= 0
               \/ elapsed < IntervalMin - 1 \/ elapsed > IntervalMax + 1
               \/ a.state # "playing" \/ b.state # "playing"
               \/ delta < 0 \/ delta > 4 * IntervalMax + 1
            THEN "unknown"
            ELSE IF delta = 0 THEN "fail" ELSE "pass"

\* An agent that does not belong to the player is not missed; one that cannot
\* reach its page fails, which the model leaves open.
HealthVerdicts ==
    LET checked == {i \in 1 .. Len(rows) : rows[i].status # "not_bound"}
        native == Observed(1, "native")
    IN (IF native # {} THEN {"fail"} ELSE {})
       \cup (IF checked = {} \/ \E i \in checked : rows[i].status = "unknown"
             THEN {"unknown"} ELSE {"pass"})

AnyObserved ==
    IF \E i \in 1 .. Len(rows) : rows[i].status = "observed" /\ (command = "provider" => rows[i].stage = 1)
    THEN "observed" ELSE "unknown"

Conclude ==
    /\ pc = "stage" /\ stage > Len(Plan)
    /\ verdict' \in (CASE command = "health" -> HealthVerdicts
                       [] command = "progress" -> {ProgressVerdict}
                       [] OTHER -> {AnyObserved})
    /\ pc' = "save"
    /\ UNCHANGED <<now, world, asking, position, rows, times, asked, saved>>

\* write_report: the manifest is written last; a failure leaves the verdict.
Save ==
    /\ pc = "save"
    /\ saved' \in {{}, {"result"}, {"result", "manifest"}}
    /\ pc' = "end"
    /\ UNCHANGED <<now, world, asking, position, rows, times, asked, verdict>>

-----------------------------------------------------------------------------
World == Tick \/ SwitchMedia \/ Reload \/ Seek \/ Stall \/ ClockJump

Next ==
    \/ World
    \/ BeginStage \/ BeginLane \/ Ask \/ Take \/ Answered \/ Unanswered
    \/ SleepEnds \/ Conclude \/ Save

Spec == Init /\ [][Next]_vars

-----------------------------------------------------------------------------
(* Correctness                                                             *)

\* The progress test passes only when one and the same media, in one run of
\* the page, was further than before, and fails only when it was where it had
\* been: never because another one, or another run, was seen in between.
ProgressHonest ==
    command = "progress" /\ verdict \in {"pass", "fail"} =>
        LET i == CHOOSE k \in Observed(1, Authority) : TRUE
            j == CHOOSE k \in Observed(2, Authority) : TRUE
        IN /\ rows[i].sample.epoch = rows[j].sample.epoch
           /\ verdict = "pass" => rows[j].sample.at > rows[i].sample.at
           /\ verdict = "fail" => rows[j].sample.at = rows[i].sample.at

\* However slowly the others answer, every observation of the plan is asked
\* for: none runs out of time before its first request.
NoneStarved ==
    verdict # "none" =>
        \A i \in 1 .. Len(rows) :
            rows[i].status # "not_bound" => <<rows[i].stage, rows[i].lane>> \in asked
=============================================================================
