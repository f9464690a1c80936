-------------------------- MODULE RecoverableWrites --------------------------
(* The commands that keep a record on disk of what they change: the favorites *)
(* of a group, those of all players, a preset, the configuration itself, and  *)
(* the USB supervisor.  Each has a directory or a file of its own, so a       *)
(* behaviour is that of one of them: its first state chooses it, and the      *)
(* variables of the others keep their first values.  The favorites of a group *)
(* are the module extended here.                                              *)
EXTENDS FavoritesReplace

CONSTANTS
    r1, r2, r3, o2,
    \* GlobalFavorites: runs that change favorites, and runs of any kind
    PlanRuns, ListRuns, NoRun, Item, PlanTitles, ListTitles, Saved, MaxFavorites,
    \* PresetSession
    Key, NoKey, Profiles, Desired, Extras, Ttl, Budget, Margin, Pause,
    \* ConfigStore
    Updates, Kind, Field, Together,
    \* UsbRecovery
    Proc, NoProc, Node, MaxAttempts, MaxBoot

VARIABLES
    part,    \* the program that runs
    \* GlobalFavorites
    doc, rev, stage, globalFate, acked, globalNet, globalReply, globalGoal, globalPc, rows,
    fence, first, picked, basis, base, wanted, expected, about,
    \* PresetSession
    presetPlayer, live, presetReply, presetFile, presetPc, todo, current, pause, saw, unconfirmed,
    quiet, verdict,
    \* ConfigStore
    configFile, backups, configLock, configPc, configSeen, configOutcome, since, replaced,
    \* UsbRecovery
    tablet, container, state, usbLock, usbPc, kind, snapshot, boot, tried, shown

Plans == INSTANCE GlobalFavorites WITH
    Run <- PlanRuns, Title <- PlanTitles, Goals <- {"merge", "clear", "acknowledge"},
    MaxRevision <- MaxFavorites, fate <- globalFate, net <- globalNet, reply <- globalReply,
    goal <- globalGoal, pc <- globalPc
Lists == INSTANCE GlobalFavorites WITH
    Run <- ListRuns, Title <- ListTitles,
    Goals <- {"list", "play", "add", "remove", "merge", "replace", "clear", "preview", "acknowledge"},
    MaxRevision <- MaxFavorites, fate <- globalFate, net <- globalNet,
    reply <- globalReply, goal <- globalGoal, pc <- globalPc

Preset == INSTANCE PresetSession WITH
    player <- presetPlayer, reply <- presetReply, file <- presetFile, pc <- presetPc

Config == INSTANCE ConfigStore WITH
    file <- configFile, lock <- configLock, pc <- configPc, seen <- configSeen,
    outcome <- configOutcome

Usb == INSTANCE UsbRecovery WITH lock <- usbLock, pc <- usbPc

ASSUME GroupConstants == FavoritesAssumption
ASSUME PlanConstants == Plans!GlobalAssumption
ASSUME ListConstants == Lists!GlobalAssumption
ASSUME PresetConstants == Preset!PresetAssumption
ASSUME ConfigConstants == Config!ConfigAssumption
ASSUME UsbConstants == Usb!UsbAssumption

-----------------------------------------------------------------------------
GlobalVars == <<doc, rev, stage, globalFate, acked, globalNet, globalReply, globalGoal,
                globalPc, rows, fence, first, picked, basis, base, wanted, expected, about>>
PresetVars == <<presetPlayer, live, presetReply, presetFile, presetPc, todo, current, pause, saw,
                unconfirmed, quiet, verdict>>
ConfigVars == <<configFile, backups, configLock, configPc, configSeen, configOutcome, since,
                replaced>>
UsbVars == <<tablet, container, state, usbLock, usbPc, kind, snapshot, boot, tried, shown>>

\* The variables of a program that does not run.
Unused == "unused"
NoGlobal ==
    /\ doc = Unused /\ rev = Unused /\ stage = Unused /\ globalFate = Unused /\ acked = Unused
    /\ globalNet = Unused /\ globalReply = Unused /\ globalGoal = Unused /\ globalPc = Unused
    /\ rows = Unused /\ fence = Unused /\ first = Unused /\ picked = Unused /\ basis = Unused
    /\ base = Unused /\ wanted = Unused /\ expected = Unused /\ about = Unused
NoPreset ==
    /\ presetPlayer = Unused /\ live = Unused /\ presetReply = Unused /\ presetFile = Unused
    /\ presetPc = Unused /\ todo = Unused /\ current = Unused /\ pause = Unused
    /\ saw = Unused /\ unconfirmed = Unused /\ quiet = Unused /\ verdict = Unused
NoConfig ==
    /\ configFile = Unused /\ backups = Unused /\ configLock = Unused /\ configPc = Unused
    /\ configSeen = Unused /\ configOutcome = Unused /\ since = Unused /\ replaced = Unused
NoUsb ==
    /\ tablet = Unused /\ container = Unused /\ state = Unused /\ usbLock = Unused
    /\ usbPc = Unused /\ kind = Unused /\ snapshot = Unused /\ boot = Unused /\ tried = Unused
    /\ shown = Unused

Parts == {"replace", "change", "acknowledge", "plans", "lists", "preset", "config", "usb"}

WritesInit ==
    /\ part \in Parts
    /\ Init
    /\ CASE part = "plans" -> Plans!Init
         [] part = "lists" -> Lists!Init
         [] OTHER -> NoGlobal
    /\ IF part = "preset" THEN Preset!Init ELSE NoPreset
    /\ IF part = "config" THEN Config!Init ELSE NoConfig
    /\ IF part = "usb" THEN Usb!Init ELSE NoUsb

\* The commands on the favorites of a group: two processes and two operations, with a
\* restart of the player; one of each while the viewer changes the favorites; one that
\* replaces, and two that look at its operation or acknowledge it.
Idle(R) == \A r \in R : goal'[r] = "none" /\ pc'[r] = "start"
Bounded ==
    CASE part = "replace" -> revision' = 1 /\ Idle({r3})
      [] part = "change" -> fate'[o2] = "none" /\ Idle({r2, r3})
      [] part = "acknowledge" ->
            /\ runtime' = 1 /\ revision' = 1 /\ fate'[o2] = "none"
            /\ goal'[r1] \in {"none", "replace"}
            /\ \A r \in {r2, r3} : goal'[r] \in {"none", "status", "acknowledge"}

WritesNext ==
    /\ UNCHANGED part
    /\ IF part \in {"replace", "change", "acknowledge"} THEN Next /\ Bounded ELSE UNCHANGED vars
    /\ CASE part = "plans" -> Plans!Next
         [] part = "lists" -> Lists!Next
         [] OTHER -> UNCHANGED GlobalVars
    /\ IF part = "preset" THEN Preset!Next ELSE UNCHANGED PresetVars
    /\ IF part = "config" THEN Config!Next ELSE UNCHANGED ConfigVars
    /\ IF part = "usb" THEN Usb!Next ELSE UNCHANGED UsbVars

writesVars == <<part, vars, GlobalVars, PresetVars, ConfigVars, UsbVars>>
WritesSpec == WritesInit /\ [][WritesNext]_writesVars

-----------------------------------------------------------------------------
(* Correctness; SafeReplace is a property of FavoritesReplace              *)

\* What a commit changes is what the user was told: the favorites were those of
\* the snapshot, and become those of the plan.  Nothing the viewer or another
\* run changed in between is lost, however late the commit is executed.
CommitsThePlan == [][part = "plans" => Plans!CommitsThePlan]_writesVars

\* A list that is shown was the player's at one moment, also when favorites
\* change between its pages.
ListedAtOnce == part = "lists" => Lists!TypeOK /\ Lists!ListedAtOnce

\* No step of a preset is repeated, and no later one taken, while it can still
\* change the player, and a preset that is reported as verified is the player's
\* (PresetSession).
SafePreset ==
    /\ [](part = "preset" => Preset!TypeOK /\ Preset!NeverInDoubt)
    /\ [][part = "preset" => Preset!VerifiedIsTrue]_writesVars

\* A command replaces the configuration it saw when it last looked, unless another
\* that no lock keeps away wrote after that look; the content that a favorites
\* command saw is in a backup (ConfigStore).
SafeReplacement == part = "config" => Config!SafeReplacement

\* No boot of the tablet is recovered automatically more often than max_attempts,
\* and one recorded as completed is one in which the player came to the front
\* (UsbRecovery).
SafeAttempts == part = "usb" => Usb!TypeOK /\ Usb!AttemptsBounded /\ Usb!CompletedWasShown
=============================================================================
