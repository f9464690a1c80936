--------------------------- MODULE PlayerSettings ---------------------------
(***************************************************************************)
(* "setting", "settings", "setting plexFolderPaths" and "settings patch"   *)
(* of cli/player_settings.py.                                              *)
(*                                                                         *)
(* A setting belongs to the player or to the provider and profile it shows.*)
(* A command learns the runtime of the player, reads what it is going to   *)
(* change, and writes once, naming the runtime, the source and the         *)
(* revision it read.  Meanwhile the player restarts, shows another source, *)
(* and is changed by its viewer and by other clients; the controller may   *)
(* deliver a request after the command has given up on its answer.         *)
(***************************************************************************)
EXTENDS Naturals, Sequences, FiniteSets, SequencesExt

CONSTANTS
    Sources,        \* provider and profile, each with its own settings
    Items,          \* what a setting, a group or a folder selection holds
    MaxChanges,     \* changes by others
    MaxRestarts,
    PageSize        \* of a listing: 20 settings, 10 folders

SettingsAssumption ==
    /\ MaxChanges \in Nat /\ MaxRestarts \in Nat /\ PageSize \in Nat \ {0}
    /\ IsFiniteSet(Items) /\ "any" \notin Sources

VARIABLES
    runtime,        \* the runs of the player so far
    source,         \* what it shows
    held,           \* by source: the items and their revision
    switching,      \* what a connection group was, until its switch is settled
    network,        \* the request on its way, or "none"
    answer,         \* the answer on its way, or "none"
    applied,        \* history: the writes, each with what it replaced
    command,        \* what was asked for
    pc,
    bound,          \* the runtime, the source and the revision it read
    listed,         \* the items of the pages so far
    cursor,
    outcome         \* what it reports

player == <<runtime, source, held, switching, applied>>
client == <<command, pc, bound, listed, cursor, outcome>>
vars == <<player, network, answer, client>>

None == [op |-> "none", is |-> "none"]
Write(op, values) == [op |-> op, values |-> values]

\* The commands: one value of a setting or a group, one folder more or less,
\* all folders less, or a listing.
Commands ==
    {Write(op, {item}) : op \in {"set", "patch", "add", "remove"}, item \in Items}
    \cup {Write("clear", {}), Write("list", {}), Write("schema", {}), Write("get", {})}

Reads == {"list", "schema", "get"}

Init ==
    /\ runtime = 1 /\ source \in Sources
    /\ held \in [Sources -> [items : {{i} : i \in Items}, rev : {1}]]
    /\ switching = {}
    /\ network = None /\ answer = None /\ applied = {}
    /\ command \in Commands
    /\ pc = "capabilities" /\ bound = [runtime |-> 0]
    /\ listed = <<>> /\ cursor = 0 /\ outcome = "none"

-----------------------------------------------------------------------------
(* The player and the controller                                           *)

Change ==
    /\ held[source].rev =< MaxChanges
    /\ \E items \in SUBSET Items :
         held' = [held EXCEPT ![source] = [items |-> items, rev |-> @.rev + 1]]
    /\ UNCHANGED <<runtime, source, switching, applied, network, answer, client>>

SwitchSource ==
    /\ source' \in Sources \ {source}
    /\ UNCHANGED <<runtime, held, switching, applied, network, answer, client>>

Restart ==
    /\ runtime =< MaxRestarts
    /\ runtime' = runtime + 1 /\ switching' = {}
    /\ UNCHANGED <<source, held, applied, network, answer, client>>

\* What a write makes of the items.
Result(op, values, items) ==
    CASE op \in {"set", "patch"} -> values
      [] op = "add" -> items \cup values
      [] op = "remove" -> items \ values
      [] OTHER -> {}

\* How far a saved change has been applied.
States(request) ==
    CASE request.op = "set" -> {"completed", "deferred", "failed"}
      [] request.op = "patch" -> {IF request.values = held[source].items THEN "applied" ELSE "pending"}
      [] OTHER -> {"deferred", "failed"}

\* A player that could not verify what it stored may have stored it.
Stores(request) ==
    LET here == held[source]
        result == Result(request.op, request.values, here.items)
    IN /\ applied' = applied \cup {[values |-> result, over |-> here.items, source |-> source]}
       /\ held' = [held EXCEPT ![source] = [items |-> result, rev |-> @.rev + 1]]
       /\ switching' = IF request.op = "patch" THEN {[source |-> source, items |-> here.items]} ELSE switching

Refuses(request, reason) ==
    /\ answer' = [is |-> "rejected", op |-> request.op, reason |-> reason]
    /\ UNCHANGED <<held, switching, applied>>

Current(request) ==
    /\ request.source \in {source, "any"}
    /\ request.rev = held[source].rev

TakeWrite(request) ==
    CASE request.runtime # runtime -> Refuses(request, "runtime_changed")
      [] request.runtime = runtime /\ ~Current(request) ->
           Refuses(request, IF request.source = source THEN "revision_conflict" ELSE "source_changed")
      [] OTHER ->
           \/ Refuses(request, "policy_restricted")
           \/ Refuses(request, "storage_failed")
           \/ /\ Stores(request)
              /\ answer' = [is |-> "rejected", op |-> request.op, reason |-> "storage_failed"]
           \/ /\ Stores(request)
              /\ \E state \in States(request) :
                   answer' = [is |-> "ok", op |-> request.op, state |-> state,
                              items |-> held'[source].items, source |-> source,
                              rev |-> held'[source].rev]

Ordered(items) == SetToSeq(items)

TakeRead(request) ==
    IF request.runtime # runtime THEN Refuses(request, "runtime_changed")
    ELSE LET all == Ordered(held[source].items)
             upto == IF request.cursor + PageSize < Len(all) THEN request.cursor + PageSize ELSE Len(all)
         IN /\ answer' = [is |-> "ok", op |-> request.op, source |-> source, rev |-> held[source].rev,
                          items |-> SubSeq(all, request.cursor + 1, upto), total |-> Len(all),
                          next |-> IF upto < Len(all) THEN upto ELSE 0]
            /\ UNCHANGED <<held, switching, applied>>

Take ==
    /\ network # None
    /\ network' = None
    /\ IF network.op = "capabilities"
       THEN /\ answer' = [is |-> "ok", op |-> "capabilities", runtime |-> runtime]
            /\ UNCHANGED <<held, switching, applied>>
       ELSE IF network.op \in Reads THEN TakeRead(network) ELSE TakeWrite(network)
    /\ UNCHANGED <<runtime, source, client>>

LoseRequest ==
    /\ network # None /\ network' = None
    /\ UNCHANGED <<player, answer, client>>

LoseAnswer ==
    /\ answer # None /\ answer' = None
    /\ UNCHANGED <<player, network, client>>

\* The connection of a group is switched after the answer was acknowledged,
\* or it is as it was.
Switched ==
    /\ answer = None
    /\ \E old \in switching :
         held' \in {held, [held EXCEPT ![old.source] = [items |-> old.items, rev |-> @.rev + 1]]}
    /\ switching' = {}
    /\ UNCHANGED <<runtime, source, applied, network, answer, client>>

-----------------------------------------------------------------------------
(* The command                                                             *)

Ends(word) == pc' = "end" /\ outcome' = word

\* call: a request with what is left of the time.
Send(request, waits) ==
    /\ network' = request /\ answer' = None
    /\ pc' = waits
    /\ UNCHANGED outcome

Discover ==
    /\ pc = "capabilities"
    /\ Send([op |-> "capabilities"], "discovering")
    /\ UNCHANGED <<player, command, bound, listed, cursor>>

\* What the command reads first: a page of the listing, the setting or its
\* group; of the folders it is about to change only their number.
ReadOf == IF command.op \in Reads THEN command.op
          ELSE IF command.op \in {"set", "patch"} THEN "get" ELSE "list"

Ask(run, position) ==
    Send([op |-> ReadOf, runtime |-> run, cursor |-> position], "reading")

Discovered ==
    /\ pc = "discovering" /\ answer # None /\ answer.is = "ok" /\ answer.op = "capabilities"
    /\ bound' = [runtime |-> answer.runtime]
    /\ \/ Ask(answer.runtime, 0)
       \/ /\ Ends("unsent")
          /\ answer' = None /\ UNCHANGED network
    /\ UNCHANGED <<player, command, listed, cursor>>

\* The first answer binds the command to a source and a revision.
Bound == "source" \in DOMAIN bound

\* The pages of a listing are of one source, and those of the folders of one
\* revision.  The settings' descriptions do not change with their values.
SameListing ==
    Bound => /\ answer.source = bound.source
             /\ command.op = "list" => answer.rev = bound.rev /\ answer.total = bound.total

\* A page beyond what was announced ends a listing.
Fits == Len(listed) + Len(answer.items) =< answer.total

ReadPage ==
    /\ pc = "reading" /\ command.op \in Reads
    /\ answer # None /\ answer.is = "ok" /\ answer.op = ReadOf
    /\ IF ~SameListing \/ (command.op = "list" /\ ~Fits)
       THEN /\ Ends("unsent") /\ answer' = None
            /\ UNCHANGED <<network, bound, listed, cursor>>
       ELSE /\ bound' = [runtime |-> bound.runtime, source |-> answer.source, rev |-> answer.rev,
                         total |-> answer.total]
            /\ listed' = listed \o answer.items
            /\ cursor' = answer.next
            /\ IF command.op = "get" \/ answer.next = 0
               THEN /\ IF command.op = "list" /\ Len(listed') # answer.total
                       THEN Ends("unsent") ELSE Ends("read")
                    /\ answer' = None /\ UNCHANGED network
               ELSE Ask(bound.runtime, answer.next)
    /\ UNCHANGED <<player, command>>

\* A variant that leaves the source open: the player takes its own.
RequestAnywhere ==
    [op |-> command.op, values |-> command.values, runtime |-> bound.runtime,
     source |-> "any", rev |-> answer.rev]

\* A write names the runtime, the source and the revision that were read.
Request ==
    [op |-> command.op, values |-> command.values, runtime |-> bound.runtime,
     source |-> answer.source, rev |-> answer.rev]

ReadFirst ==
    /\ pc = "reading" /\ command.op \notin Reads
    /\ answer # None /\ answer.is = "ok" /\ answer.op = ReadOf
    /\ bound' = [runtime |-> bound.runtime, source |-> answer.source, rev |-> answer.rev]
    /\ Send(Request, "writing")
    /\ UNCHANGED <<player, command, listed, cursor>>

\* A setting that may not be written, or a value outside its type, its range
\* or its choices, is not sent.
NotAcceptable ==
    /\ pc = "reading" /\ command.op = "set"
    /\ answer # None /\ answer.is = "ok" /\ answer.op = ReadOf
    /\ Ends("unsent") /\ answer' = None
    /\ UNCHANGED <<player, network, command, bound, listed, cursor>>

\* The answer to a write must hold what was written.
SettingConfirmed == answer.items = command.values

FoldersConfirmed ==
    /\ command.op = "add" => answer.items # {}
    /\ command.op = "clear" => answer.items = {}

\* The values of a group are either secret or those that were asked for.
GroupConfirmed == answer.state \in {"applied", "pending"} /\ answer.items = command.values

Confirmed == CASE command.op = "set" -> SettingConfirmed
               [] command.op = "patch" -> GroupConfirmed
               [] OTHER -> FoldersConfirmed

\* It must be for the source that was read, and in time: otherwise nothing is
\* said about the write.
Wrote ==
    /\ pc = "writing" /\ answer # None /\ answer.is = "ok" /\ answer.op = command.op
    /\ \E late \in BOOLEAN :
         Ends(IF late \/ answer.source # bound.source \/ ~Confirmed THEN "inspect"
              ELSE IF answer.state = "failed" THEN "saved, not applied" ELSE "saved")
    /\ answer' = None
    /\ UNCHANGED <<player, network, command, bound, listed, cursor>>

\* A variant that takes any refusal for an unchanged setting.
AnyRefusal(reason) == "refused"

\* The reason of a refusal is reported; with one of them the player does not
\* know whether the setting was saved.
Refusal(reason) == IF reason = "storage_failed" THEN "unverified" ELSE "refused"

Refused ==
    /\ pc \in {"reading", "writing"} /\ answer # None /\ answer.is = "rejected"
    /\ Ends(Refusal(answer.reason))
    /\ answer' = None
    /\ UNCHANGED <<player, network, command, bound, listed, cursor>>

\* No answer in time, or one that cannot be read: before the write nothing
\* was sent that could change anything.
GiveUp ==
    /\ pc \in {"discovering", "reading", "writing"}
    /\ Ends("inspect")
    /\ UNCHANGED <<player, network, answer, command, bound, listed, cursor>>

-----------------------------------------------------------------------------
World == Change \/ SwitchSource \/ Restart \/ Take \/ LoseRequest \/ LoseAnswer \/ Switched

Next ==
    \/ World
    \/ Discover \/ Discovered \/ ReadPage \/ ReadFirst \/ NotAcceptable \/ Wrote \/ Refused \/ GiveUp

Spec == Init /\ [][Next]_vars

-----------------------------------------------------------------------------
(* Correctness                                                             *)

Flying == network # None /\ network.op \notin Reads \cup {"capabilities"}

\* What a command reports of its change is so, for good: "no change was sent"
\* and a refusal mean that nothing was and nothing will be changed by it, and
\* "saved" that it was, exactly once.
HonestSettings ==
    /\ outcome \in {"unsent", "refused", "read"} => applied = {} /\ ~Flying
    /\ outcome \in {"saved", "saved, not applied"} =>
         /\ Cardinality(applied) = 1 /\ ~Flying
         /\ command.op \in {"set", "patch"} => \A w \in applied : w.values = command.values

\* A change is made only to the source whose description the command read its
\* value with, and never over what others changed there in between; the
\* folders that are listed as the selection were the selection, all at once.
NothingUnseen ==
    /\ \A w \in applied' \ applied :
         /\ w.source = bound.source
         /\ held[w.source].rev = bound.rev
    /\ outcome' = "read" /\ outcome # "read" /\ command.op = "list" /\ held[bound'.source].rev = bound'.rev
         => Range(listed') = held[bound'.source].items

=============================================================================
