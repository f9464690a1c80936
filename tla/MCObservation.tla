--------------------------- MODULE MCObservation ----------------------------
(* Small instances of the commands that only observe a player, and of the     *)
(* trial that puts back what it changed, for TLC.  A process of ott runs one  *)
(* command, so a behaviour is one of theirs: its first state chooses it, and  *)
(* the variables of the others stay Absent.                                   *)
EXTENDS Naturals

Over == [start |-> 0, end |-> 1]
Running == [start |-> 1, end |-> 2]
Soon == [start |-> 2, end |-> 3]
\* Recordings alone, a recording and a programme to come, and that programme
\* moved; the local guide agrees with either.
Archive == [c |-> Over, d |-> Over]
Mixed == [c |-> Over, d |-> Soon]
Moved == [c |-> Running, d |-> Soon]
Plan(a, b, c) == [remote |-> <<a, b>>, local |-> <<c, c>>]
Guides == {Plan(Archive, Mixed, Mixed), Plan(Mixed, Archive, Archive),
           Plan(Moved, Mixed, Moved), Plan(Mixed, Moved, Archive)}

CONSTANTS
    \* Workbench: of the progress test, and of the commands that share their time
    ProgressBudget, ShareBudget, Duration, MaxHappenings,
    \* PerformanceTrial
    MaxForeign, MaxContexts,
    \* PerformanceExport
    MaxSeq, RingSize, PageSize, MaxPages, MaxEvents, MaxElapsed,
    \* ProgrammeSearch
    Channels, Plans, Retention, Lifetime, MaxSplits, MaxGeneration, MaxCatalog, MaxChanges,
    MaxTime, MaxSearches

VARIABLES
    part,    \* the program that runs
    \* Workbench
    workbenchNow, media, skew, happened, command, lane, bound, advertised, workbenchPc, stage,
    turn, stageEnd, laneEnd, step, page, workbenchReply, workbenchRows, times, asked, verdict,
    workbenchSaved,
    \* PerformanceTrial
    policy, writes, flying, trialReply, trialSession, trialDisk, grouped, trialPc, returns,
    original, owned, started, attempted, restored, allowed,
    \* PerformanceExport
    exportSession, player, exportDisk, exportPc, first, last, cursor, pages, events, reasons,
    failure, exportRows, journal, exportSaved, damaged,
    \* ProgrammeSearch
    searchNow, catalog, guide, generation, mappings, histories, probes, results, searchPc,
    service, search, batches, left, searchRows, at, searches, report, played

Progress == INSTANCE Workbench WITH
    Budget <- ProgressBudget, MaxEvents <- MaxHappenings, Commands <- {"progress"},
    now <- workbenchNow, pc <- workbenchPc, reply <- workbenchReply, rows <- workbenchRows,
    saved <- workbenchSaved
Shares == INSTANCE Workbench WITH
    Budget <- ShareBudget, MaxEvents <- 0,
    Commands <- {"health", "progress", "bundle", "provider"},
    now <- workbenchNow, pc <- workbenchPc, reply <- workbenchReply, rows <- workbenchRows,
    saved <- workbenchSaved

Trial == INSTANCE PerformanceTrial WITH
    reply <- trialReply, session <- trialSession, disk <- trialDisk, pc <- trialPc

Export == INSTANCE PerformanceExport WITH
    session <- exportSession, disk <- exportDisk, pc <- exportPc, rows <- exportRows,
    saved <- exportSaved

Search == INSTANCE ProgrammeSearch WITH
    now <- searchNow, pc <- searchPc, rows <- searchRows

ASSUME ProgressConstants == Progress!WorkbenchAssumption
ASSUME SharesConstants == Shares!WorkbenchAssumption
ASSUME TrialConstants == Trial!TrialAssumption
ASSUME ExportConstants == Export!ExportAssumption
ASSUME SearchConstants == Search!SearchAssumption

-----------------------------------------------------------------------------
WorkbenchVars == <<workbenchNow, media, skew, happened, command, lane, bound, advertised,
                   workbenchPc, stage, turn, stageEnd, laneEnd, step, page, workbenchReply,
                   workbenchRows, times, asked, verdict, workbenchSaved>>
TrialVars == <<policy, writes, flying, trialReply, trialSession, trialDisk, grouped, trialPc,
               returns, original, owned, started, attempted, restored, allowed>>
ExportVars == <<exportSession, player, exportDisk, exportPc, first, last, cursor, pages, events,
                reasons, failure, exportRows, journal, exportSaved, damaged>>
SearchVars == <<searchNow, catalog, guide, generation, mappings, histories, probes, results,
                searchPc, service, search, batches, left, searchRows, at, searches, report,
                played>>

\* The variables of a program that does not run.
Absent == "absent"
NoWorkbench ==
    /\ workbenchNow = Absent /\ media = Absent /\ skew = Absent /\ happened = Absent
    /\ command = Absent /\ lane = Absent /\ bound = Absent /\ advertised = Absent
    /\ workbenchPc = Absent /\ stage = Absent /\ turn = Absent /\ stageEnd = Absent
    /\ laneEnd = Absent /\ step = Absent /\ page = Absent /\ workbenchReply = Absent
    /\ workbenchRows = Absent /\ times = Absent /\ asked = Absent /\ verdict = Absent
    /\ workbenchSaved = Absent
NoTrial ==
    /\ policy = Absent /\ writes = Absent /\ flying = Absent /\ trialReply = Absent
    /\ trialSession = Absent /\ trialDisk = Absent /\ grouped = Absent /\ trialPc = Absent
    /\ returns = Absent /\ original = Absent /\ owned = Absent /\ started = Absent
    /\ attempted = Absent /\ restored = Absent /\ allowed = Absent
NoExport ==
    /\ exportSession = Absent /\ player = Absent /\ exportDisk = Absent /\ exportPc = Absent
    /\ first = Absent /\ last = Absent /\ cursor = Absent /\ pages = Absent /\ events = Absent
    /\ reasons = Absent /\ failure = Absent /\ exportRows = Absent /\ journal = Absent
    /\ exportSaved = Absent /\ damaged = Absent
NoSearch ==
    /\ searchNow = Absent /\ catalog = Absent /\ guide = Absent /\ generation = Absent
    /\ mappings = Absent /\ histories = Absent /\ probes = Absent /\ results = Absent
    /\ searchPc = Absent /\ service = Absent /\ search = Absent /\ batches = Absent
    /\ left = Absent /\ searchRows = Absent /\ at = Absent /\ searches = Absent
    /\ report = Absent /\ played = Absent

Parts == {"progress", "shares", "trial", "export", "search"}

MCInit ==
    /\ part \in Parts
    /\ CASE part = "progress" -> Progress!Init
         [] part = "shares" -> Shares!Init
         [] OTHER -> NoWorkbench
    /\ IF part = "trial" THEN Trial!Init ELSE NoTrial
    /\ IF part = "export" THEN Export!Init ELSE NoExport
    /\ IF part = "search" THEN Search!Init ELSE NoSearch

MCNext ==
    /\ UNCHANGED part
    /\ CASE part = "progress" -> Progress!Next
         [] part = "shares" -> Shares!Next
         [] OTHER -> UNCHANGED WorkbenchVars
    /\ IF part = "trial" THEN Trial!Next ELSE UNCHANGED TrialVars
    /\ IF part = "export" THEN Export!Next ELSE UNCHANGED ExportVars
    /\ IF part = "search" THEN Search!Next ELSE UNCHANGED SearchVars

MCvars == <<part, WorkbenchVars, TrialVars, ExportVars, SearchVars>>
MCSpec == MCInit /\ [][MCNext]_MCvars

-----------------------------------------------------------------------------
(* Correctness                                                             *)

\* The progress test passes only when one and the same media, in one run of
\* the page, was further than before, and fails only when it was where it had
\* been: never because another one, or another run, was seen in between.
ProgressHonest == part = "progress" => Progress!ProgressHonest

\* However slowly the others answer, every observation of the plan is asked
\* for: none runs out of time before its first request.
NoneStarved == part = "shares" => Shares!NoneStarved

\* What somebody else changed stays as they left it, and what the trial says of
\* the restored policy is so (PerformanceTrial).
SafeTrial == part = "trial" => Trial!ForeignKept /\ Trial!HonestRestore

\* An export that is complete, or verified as such later, holds every event
\* of the one session it started with, up to the last one at that time, each
\* once and in order.
ExportExact == part = "export" => Export!ExportExact

\* What a search offers is true when it is offered, and of one generation of one
\* guide: programmes on now, or else, when none is on, recordings that have
\* ended, are kept and were probed for this catalogue.  What is played is on the
\* channels of the catalogue searched, and a programme on now has not ended; a
\* search that reports a failure has played nothing.
SoundSelection == part = "search" => Search!SoundSelection
=============================================================================
