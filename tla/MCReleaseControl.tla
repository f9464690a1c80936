------------------------- MODULE MCReleaseControl ---------------------------
(* Small instances of the release pipeline for TLC: publication with runs at   *)
(* the same time (the module extended here), and with runs one after another;  *)
(* preparation of a version; and the images of a release, with two runs that   *)
(* copy any release, or two that copy the stable ones and one that reads them: *)
(* the two programs write no tag in common.  They share no state here, so a    *)
(* behaviour is that of one of them: its first state chooses it, and the       *)
(* variables of the others keep their first values.                            *)
EXTENDS ReleasePublication, TLC

CONSTANTS
    r1, r2, r3,
    Preparers, MaxVersion, MaxMain, MaxCommits,    \* VersionPreparation
    Copiers, Readers, Destinations, Approvable     \* ImagePublication

Candidates == {<<"push", "beta">>, <<"dispatch", "rc">>, <<"dispatch", "stable">>}
Occurring == Candidates \cup {<<"schedule", "nightly">>}
Bases == <<1, 2>>
GhcrThenDocker == <<"ghcr", "docker">>
Symmetric == Permutations({r1, r2, r3}) \cup Permutations(Copiers)

VARIABLES
    part,    \* the program that runs
    \* VersionPreparation
    main, prepareTags, commits, topic, pulls, merged, gone, preparePc, prepareHead, target, tip,
    opened, report,
    \* ImagePublication
    payload, registry, known, output, imagePc, imageJob

\* Promotion of bytes, where the workflow's concurrency group holds.
OneByOne == INSTANCE ReleasePublication WITH
    Run <- {r1, r2, r3}, Triggers <- Candidates, Promotion <- "promote-bytes", Serial <- TRUE

Preparation == INSTANCE VersionPreparation WITH
    tags <- prepareTags, pc <- preparePc, head <- prepareHead

Candidate == INSTANCE ImagePublication WITH
    Exact <- Run, Stable <- {}, Resolve <- {}, Images <- Destinations, Versions <- Approvable,
    pc <- imagePc, job <- imageJob
Stable == INSTANCE ImagePublication WITH
    Exact <- {}, Stable <- Copiers, Resolve <- Readers, Images <- Destinations,
    Versions <- Approvable, pc <- imagePc, job <- imageJob

ASSUME ReleaseConstants == ReleaseAssumption
ASSUME SerialConstants == OneByOne!ReleaseAssumption
ASSUME PreparationConstants == Preparation!PreparationAssumption
ASSUME CandidateConstants == Candidate!ImageAssumption
ASSUME StableConstants == Stable!ImageAssumption

-----------------------------------------------------------------------------
PreparationVars == <<main, prepareTags, commits, topic, pulls, merged, gone, preparePc,
                     prepareHead, target, tip, opened, report>>
ImageVars == <<payload, registry, known, output, imagePc, imageJob>>

\* The variables of a program that does not run.
Unused == "unused"
NoPreparation ==
    /\ main = Unused /\ prepareTags = Unused /\ commits = Unused /\ topic = Unused
    /\ pulls = Unused /\ merged = Unused /\ gone = Unused /\ preparePc = Unused
    /\ prepareHead = Unused /\ target = Unused /\ tip = Unused /\ opened = Unused
    /\ report = Unused
NoImages ==
    /\ payload = Unused /\ registry = Unused /\ known = Unused /\ output = Unused
    /\ imagePc = Unused /\ imageJob = Unused

Parts == {"serial", "concurrent", "preparation", "candidate images", "stable images"}

MCInit ==
    /\ part \in Parts
    /\ IF part = "serial" THEN OneByOne!Init ELSE Init
    /\ IF part = "preparation" THEN Preparation!Init ELSE NoPreparation
    /\ CASE part = "candidate images" -> Candidate!Init
         [] part = "stable images" -> Stable!Init
         [] OTHER -> NoImages

MCNext ==
    /\ UNCHANGED part
    /\ CASE part = "serial" -> OneByOne!Next
         [] part = "concurrent" -> Next
         [] OTHER -> UNCHANGED vars
    /\ IF part = "preparation" THEN Preparation!Next ELSE UNCHANGED PreparationVars
    /\ CASE part = "candidate images" -> Candidate!Next
         [] part = "stable images" -> Stable!Next
         [] OTHER -> UNCHANGED ImageVars

MCvars == <<part, vars, PreparationVars, ImageVars>>
MCSpec == MCInit /\ [][MCNext]_MCvars

-----------------------------------------------------------------------------
(* Correctness; NumbersUnique, a property of ReleasePublication, is about the  *)
(* runs at the same time: of those one after another it compares two.          *)

\* What becomes public is what was accepted, and, while the workflow runs one at a
\* time, newer than what was public (begin_publication, promote).
SafePublication == [][part = "serial" => OneByOne!BuiltAsAccepted /\ OneByOne!NoDowngrade]_MCvars

\* The images of a release are the bytes that were approved: a version's tag never
\* changes, latest is a version that every image has, and so is what is written for a
\* deployment (publish_archive, container_commands, resolve).
SafeImages ==
    /\ [][/\ part = "candidate images" => Candidate!TagsKept
         /\ part = "stable images" => Stable!TagsKept]_MCvars
    /\ [](part = "candidate images" => Candidate!TypeOK /\ Candidate!PublishedIsApproved)
    /\ [](part = "stable images" =>
            Stable!TypeOK /\ Stable!PublishedIsApproved /\ Stable!OutputDeployable)

\* A preparation never builds on, and so never reverts, what somebody else has
\* pushed to the branch and not merged; no commit of a branch is lost unless the
\* branch was merged or closed; and no version is below the one it was cut from.
OwnedTopic == part = "preparation" => Preparation!OwnedTopic
=============================================================================
