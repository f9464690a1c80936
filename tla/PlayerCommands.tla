--------------------------- MODULE PlayerCommands ----------------------------
(***************************************************************************)
(* The commands that ask something of one player, or of the registry.  A   *)
(* process of ott runs one of them (cli, main in ott.py), so a behaviour   *)
(* is one of theirs: its first state chooses it, and the variables of the  *)
(* others stay Absent.                                                     *)
(***************************************************************************)
EXTENDS Naturals, Sequences

CONSTANTS
    \* MediaSelection
    Lineups, Destination, Wanted, Exact, Number, MediaCommands, MaxRevision, MaxStandby,
    \* BoundCommand
    BoundKinds, MaxRuntime, MaxDeploys,
    \* PlayerSettings
    Sources, Items, MaxSettingsChanges, MaxRestarts, PageSize,
    \* TorrentCatalog
    Ids, Chunks, MaxCatalogChanges, MaxCatalogRestarts,
    \* TorrentIndexer
    MaxIndexerRuntime, MaxGeneration,
    \* DevicePower
    MaxConnections, MaxDialogs,
    \* AppUpdate
    Invocations, Apks, CodeOf, Releases,
    \* RegistryOperator
    MaxOperations, MaxPosts, MaxChanges, MaxDays

VARIABLES
    part,    \* the program that runs
    \* MediaSelection
    advertised, mediaPlayer, standbys, mediaFlying, mediaReply, began, mediaCommand, mediaPc,
    token, mediaRows, restarted, awake, mediaChosen, mediaSays,
    \* BoundCommand
    boundPlayer, controller, deploys, boundFlying, boundReply, pending, did, boundKind, boundPc,
    boundSeen, late, boundOutcome,
    \* PlayerSettings
    settingsRuntime, settingsSource, held, switching, settingsNetwork, settingsAnswer,
    settingsApplied, settingsCommand, settingsPc, settingsBound, listed, cursor, settingsOutcome,
    \* TorrentCatalog
    torrentsRuntime, catalog, uploads, loading, favorites, torrentsApplied, played, merged,
    torrentsChanges, torrentsNetwork, torrentsAnswer, torrentsCommand, phase, torrentsAsked,
    torrentsBound, before, final, written, torrentsSent, durable, uncertain, torrentsOutcome,
    \* TorrentIndexer
    indexerRuntime, indexerSource, queue, companion, indexerAsked, indexerPc, indexerSeen,
    indexerAnswer, attempted, status, indexerReason, indexerEffects,
    \* DevicePower
    connection, dialog, dialogs, focused, touched, firmware, service, powerPc, transport,
    snapshot, button, pressed, powerSent, requested, powerOutcome,
    \* AppUpdate
    updatePlayer, updateFlight, updateAnswer, updateChosen, updatePc, report, acted,
    \* RegistryOperator
    registryRow, receipts, registryEffects, day, registryChanges, registryFlight, posts, registryReply,
    checkpoint, alias, registryPc, registryAt, receipt, prepared, settled, unaliased

Selection == INSTANCE MediaSelection WITH
    Commands <- MediaCommands, player <- mediaPlayer, flying <- mediaFlying,
    reply <- mediaReply, command <- mediaCommand, pc <- mediaPc, rows <- mediaRows,
    chosen <- mediaChosen, says <- mediaSays

Bound == INSTANCE BoundCommand WITH
    Kinds <- BoundKinds, player <- boundPlayer, flying <- boundFlying, reply <- boundReply,
    kind <- boundKind, pc <- boundPc, seen <- boundSeen, outcome <- boundOutcome

Settings == INSTANCE PlayerSettings WITH
    MaxChanges <- MaxSettingsChanges, runtime <- settingsRuntime, source <- settingsSource,
    network <- settingsNetwork, answer <- settingsAnswer, applied <- settingsApplied,
    command <- settingsCommand, pc <- settingsPc, bound <- settingsBound,
    outcome <- settingsOutcome

Torrents == INSTANCE TorrentCatalog WITH
    MaxChanges <- MaxCatalogChanges, MaxRestarts <- MaxCatalogRestarts,
    runtime <- torrentsRuntime, applied <- torrentsApplied, changes <- torrentsChanges,
    network <- torrentsNetwork, answer <- torrentsAnswer, command <- torrentsCommand,
    asked <- torrentsAsked, bound <- torrentsBound, sent <- torrentsSent,
    outcome <- torrentsOutcome

Indexer == INSTANCE TorrentIndexer WITH
    MaxRuntime <- MaxIndexerRuntime, runtime <- indexerRuntime, source <- indexerSource,
    asked <- indexerAsked, pc <- indexerPc, seen <- indexerSeen, answer <- indexerAnswer,
    reason <- indexerReason, effects <- indexerEffects

Power == INSTANCE DevicePower WITH
    pc <- powerPc, sent <- powerSent, outcome <- powerOutcome

Update == INSTANCE AppUpdate WITH
    player <- updatePlayer, flight <- updateFlight, answer <- updateAnswer,
    chosen <- updateChosen, pc <- updatePc

Registry == INSTANCE RegistryOperator WITH
    row <- registryRow, effects <- registryEffects, changes <- registryChanges,
    flight <- registryFlight, reply <- registryReply, pc <- registryPc, at <- registryAt

ASSUME SelectionConstants == Selection!SelectionAssumption
ASSUME BoundConstants == Bound!BoundAssumption
ASSUME SettingsConstants == Settings!SettingsAssumption
ASSUME CatalogConstants == Torrents!CatalogAssumption
ASSUME IndexerConstants == Indexer!IndexerAssumption
ASSUME PowerConstants == Power!PowerAssumption
ASSUME UpdateConstants == Update!UpdateAssumption
ASSUME RegistryConstants == Registry!OperatorAssumption

-----------------------------------------------------------------------------
SelectionVars == <<advertised, mediaPlayer, standbys, mediaFlying, mediaReply, began,
                   mediaCommand, mediaPc, token, mediaRows, restarted, awake, mediaChosen,
                   mediaSays>>
BoundVars == <<boundPlayer, controller, deploys, boundFlying, boundReply, pending, did,
               boundKind, boundPc, boundSeen, late, boundOutcome>>
SettingsVars == <<settingsRuntime, settingsSource, held, switching, settingsNetwork,
                  settingsAnswer, settingsApplied, settingsCommand, settingsPc,
                  settingsBound, listed, cursor, settingsOutcome>>
CatalogVars == <<torrentsRuntime, catalog, uploads, loading, favorites, torrentsApplied,
                 played, merged, torrentsChanges, torrentsNetwork, torrentsAnswer,
                 torrentsCommand, phase, torrentsAsked, torrentsBound, before, final,
                 written, torrentsSent, durable, uncertain, torrentsOutcome>>
IndexerVars == <<indexerRuntime, indexerSource, queue, companion, indexerAsked, indexerPc,
                 indexerSeen, indexerAnswer, attempted, status, indexerReason, indexerEffects>>
PowerVars == <<connection, dialog, dialogs, focused, touched, firmware, service, powerPc,
               transport, snapshot, button, pressed, powerSent, requested, powerOutcome>>
UpdateVars == <<updatePlayer, updateFlight, updateAnswer, updateChosen, updatePc, report,
                acted>>
RegistryVars == <<registryRow, receipts, registryEffects, day, registryChanges, posts,
                  registryFlight, registryReply, checkpoint, alias, registryPc, registryAt,
                  receipt, prepared, settled, unaliased>>

\* The variables of a program that does not run.
Absent == "absent"
NoSelection ==
    /\ advertised = Absent /\ mediaPlayer = Absent /\ standbys = Absent
    /\ mediaFlying = Absent /\ mediaReply = Absent /\ began = Absent
    /\ mediaCommand = Absent /\ mediaPc = Absent /\ token = Absent /\ mediaRows = Absent
    /\ restarted = Absent /\ awake = Absent /\ mediaChosen = Absent /\ mediaSays = Absent
NoBound ==
    /\ boundPlayer = Absent /\ controller = Absent /\ deploys = Absent
    /\ boundFlying = Absent /\ boundReply = Absent /\ pending = Absent /\ did = Absent
    /\ boundKind = Absent /\ boundPc = Absent /\ boundSeen = Absent /\ late = Absent
    /\ boundOutcome = Absent
NoSettings ==
    /\ settingsRuntime = Absent /\ settingsSource = Absent /\ held = Absent
    /\ switching = Absent /\ settingsNetwork = Absent /\ settingsAnswer = Absent
    /\ settingsApplied = Absent /\ settingsCommand = Absent /\ settingsPc = Absent
    /\ settingsBound = Absent /\ listed = Absent /\ cursor = Absent
    /\ settingsOutcome = Absent
NoTorrents ==
    /\ torrentsRuntime = Absent /\ catalog = Absent /\ uploads = Absent /\ loading = Absent
    /\ favorites = Absent /\ torrentsApplied = Absent /\ played = Absent /\ merged = Absent
    /\ torrentsChanges = Absent /\ torrentsNetwork = Absent /\ torrentsAnswer = Absent
    /\ torrentsCommand = Absent /\ phase = Absent /\ torrentsAsked = Absent
    /\ torrentsBound = Absent /\ before = Absent /\ final = Absent /\ written = Absent
    /\ torrentsSent = Absent /\ durable = Absent /\ uncertain = Absent
    /\ torrentsOutcome = Absent
NoIndexer ==
    /\ indexerRuntime = Absent /\ indexerSource = Absent /\ queue = Absent
    /\ companion = Absent /\ indexerReason = Absent /\ indexerAsked = Absent /\ indexerPc = Absent /\ indexerSeen = Absent
    /\ indexerAnswer = Absent /\ attempted = Absent /\ status = Absent
    /\ indexerEffects = Absent
NoPower ==
    /\ connection = Absent /\ dialog = Absent /\ dialogs = Absent /\ focused = Absent
    /\ touched = Absent /\ firmware = Absent /\ service = Absent /\ powerPc = Absent
    /\ transport = Absent /\ snapshot = Absent /\ button = Absent /\ pressed = Absent
    /\ powerSent = Absent /\ requested = Absent /\ powerOutcome = Absent
NoUpdate ==
    /\ updatePlayer = Absent /\ updateFlight = Absent /\ updateAnswer = Absent
    /\ updateChosen = Absent /\ updatePc = Absent /\ report = Absent /\ acted = Absent
NoRegistry ==
    /\ registryRow = Absent /\ receipts = Absent /\ registryEffects = Absent /\ day = Absent
    /\ registryChanges = Absent /\ registryFlight = Absent /\ registryReply = Absent
    /\ checkpoint = Absent /\ alias = Absent /\ registryPc = Absent /\ registryAt = Absent
    /\ receipt = Absent /\ posts = Absent /\ prepared = Absent /\ settled = Absent /\ unaliased = Absent

Parts == {"selection", "bound", "settings", "torrents", "indexer", "power", "update", "registry"}

CommandsInit ==
    /\ part \in Parts
    /\ IF part = "selection" THEN Selection!Init ELSE NoSelection
    /\ IF part = "bound" THEN Bound!Init ELSE NoBound
    /\ IF part = "settings" THEN Settings!Init ELSE NoSettings
    /\ IF part = "torrents" THEN Torrents!Init ELSE NoTorrents
    /\ IF part = "indexer" THEN Indexer!Init ELSE NoIndexer
    /\ IF part = "power" THEN Power!Init ELSE NoPower
    /\ IF part = "update" THEN Update!Init ELSE NoUpdate
    /\ IF part = "registry" THEN Registry!Init ELSE NoRegistry

CommandsNext ==
    /\ UNCHANGED part
    /\ IF part = "selection" THEN Selection!Next ELSE UNCHANGED SelectionVars
    /\ IF part = "bound" THEN Bound!Next ELSE UNCHANGED BoundVars
    /\ IF part = "settings" THEN Settings!Next ELSE UNCHANGED SettingsVars
    /\ IF part = "torrents" THEN Torrents!Next ELSE UNCHANGED CatalogVars
    /\ IF part = "indexer" THEN Indexer!Next ELSE UNCHANGED IndexerVars
    /\ IF part = "power" THEN Power!Next ELSE UNCHANGED PowerVars
    /\ IF part = "update" THEN Update!Next ELSE UNCHANGED UpdateVars
    /\ IF part = "registry" THEN Registry!Next ELSE UNCHANGED RegistryVars

commandsVars == <<part, SelectionVars, BoundVars, SettingsVars, CatalogVars, IndexerVars,
                  PowerVars, UpdateVars, RegistryVars>>
CommandsSpec == CommandsInit /\ [][CommandsNext]_commandsVars

-----------------------------------------------------------------------------
(* Correctness                                                             *)

\* "No playback was requested" stays true: the player did nothing for this
\* command and will not, although a request may be on its way while the viewer
\* changes the catalogue.  "Channel switch requested: X" means that the player
\* switched to X, to nothing else, within the provider the user named and to a
\* channel whose name the query matches.  No change is made twice.
HonestDispatch == part = "selection" => Selection!TypeOK /\ Selection!HonestDispatch

\* A command has the effect that was asked for, once and in the runtime whose
\* abilities it relied on, a temporary playback leaves the saved source alone, and
\* what is said of it is so (BoundCommand).
SafeCommand == part = "bound" => Bound!SafeCommand

\* Settings change as reported, once, and only as they were seen, in the source
\* they were read from (PlayerSettings).
SafeSettings ==
    /\ [](part = "settings" => Settings!HonestSettings)
    /\ [][part = "settings" => Settings!NothingUnseen]_commandsVars

\* What the command says of the catalogue is true and stays true whatever
\* arrives late: a failure means that it never changes it, a success that it
\* replaced exactly the content it had read by the content it planned, with the
\* favorites merged where it carried them, and no operation lacks its record
\* (TorrentCatalog).
HonestCatalog == part = "torrents" => Torrents!HonestCatalog

\* A mutation is reported done only when the companion has executed it for the
\* runtime that was inspected.  One reported failed waits nowhere in the queue; it
\* is not executed, nor will be, unless the reason given is that the companion did
\* not answer.  Nothing is executed twice, and a search follows a look at the source
\* (TorrentIndexer).
HonestIndexer == part = "indexer" => Indexer!HonestIndexer

\* Nothing ever reaches another device than the bound one, the request is sent
\* at most once, and what the command reports agrees with what it sent: an
\* error means that it neither asked for the power off nor confirmed it.
SafeShutdown == part = "power" => Power!SafeShutdown

\* What the player installs for an invocation is a file of its verified release
\* with the version that release names.  An invocation that reports that it has
\* requested nothing, or no installation, never has one executed, then or later,
\* and one that reports success has left at least its version on the player.
SafeUpdate == part = "update" => Update!SafeUpdate

\* An operation of the operator takes effect at most once, and stays in its
\* checkpoint until it is confirmed, refused or forgotten; one reported done took
\* effect, one refused when it was first sent did not, nor will; and "remove" takes
\* the alias of a generation away only once its access ended (RegistryOperator).
SafeRecovery == part = "registry" => Registry!SafeRecovery
=============================================================================
