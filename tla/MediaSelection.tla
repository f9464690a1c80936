--------------------------- MODULE MediaSelection ---------------------------
(***************************************************************************)
(* Choosing what a player shows: play, random, category and provider of    *)
(* the command line, cli/ott.py.                                           *)
(*                                                                         *)
(* A name is looked up in the player's catalogue, which takes several      *)
(* reads, and one change follows.  Between any two requests the viewer may *)
(* switch provider, reload the catalogue or put the player into standby.   *)
(* Every read names the catalogue it continues, and a modern player plays  *)
(* an item of a catalogue only while it is the current one.  A legacy      *)
(* player takes a number instead, and may by then show another channel     *)
(* under it.  The answer to a change may be lost or come too late; the     *)
(* change is then never sent again.                                        *)
(*                                                                         *)
(* A channel stands for its id and its name, its number is its place in    *)
(* the catalogue.  One request is one step here: GroupCommand has the      *)
(* layer below.                                                            *)
(***************************************************************************)
EXTENDS Naturals, Sequences, FiniteSets, SequencesExt

CONSTANTS
    Lineups,       \* catalogues the viewer can load, by provider
    Destination,   \* the provider a "provider" command names
    Wanted,        \* channels whose name contains the query
    Exact,         \* channels whose name is the query
    Number,        \* the number a "number" command names
    Commands,      \* commands the user may give
    MaxRevision,   \* catalogues the player goes through
    MaxStandby     \* how often the viewer puts it into standby

Channels == UNION {ToSet(l) : l \in UNION {Lineups[p] : p \in DOMAIN Lineups}}

SelectionAssumption ==
    /\ Destination \in DOMAIN Lineups
    /\ \A p \in DOMAIN Lineups : Lineups[p] # {}
    /\ Exact \subseteq Wanted /\ Wanted \subseteq Channels
    /\ Number \in Nat \ {0} /\ MaxRevision \in Nat \ {0} /\ MaxStandby \in Nat
    /\ Commands \subseteq {"play", "exact", "number", "random", "category", "provider"}

VARIABLES
    advertised,    \* capabilities: categories, safe random selection
    player,        \* provider, revision and rows of its catalogue, its state
    standbys,      \* how often the viewer may still put it into standby
    flying,        \* the change that was sent and not yet taken
    reply,         \* the answer to it
    began,         \* history: what this command made the player do, in order
    command,
    pc,
    token,         \* the catalogue the lookup is bound to
    rows,          \* what was read of it
    restarted,     \* the lookup began again
    awake,         \* a wake was sent
    chosen,        \* the row to play, or none of them in particular
    says           \* what the command line reports

lookup == <<token, rows, restarted, chosen>>
vars == <<advertised, player, standbys, flying, reply, began, command, pc, lookup, awake, says>>

NoRow == [channel |-> "none", number |-> 0]
Nothing == [op |-> "none"]
NoReply == [status |-> "none"]
Unsaid == [is |-> "none", row |-> NoRow]

-----------------------------------------------------------------------------
(* The player and its viewer                                               *)

RowsOf(l) == {[channel |-> l[i], number |-> i] : i \in 1 .. Len(l)}
Current == RowsOf(player.lineup)

Modern == "categories" \in advertised
Random == "random" \in advertised

Init ==
    /\ advertised \in SUBSET {"categories", "random"}
    /\ \E p \in DOMAIN Lineups, ready, standby \in BOOLEAN :
         \E l \in Lineups[p] :
           player = [provider |-> p, lineup |-> l, revision |-> 1,
                     ready |-> ready, loading |-> ~ready, standby |-> standby]
    /\ standbys = MaxStandby
    /\ flying = Nothing /\ reply = NoReply
    /\ began = <<>>
    /\ command \in Commands
    /\ pc = "start"
    /\ token = 0 /\ rows = {} /\ restarted = FALSE /\ chosen = NoRow
    /\ awake = FALSE
    /\ says = Unsaid

cli == <<command, pc, lookup, awake, says>>

Loaded(p, l) ==
    [player EXCEPT !.provider = p, !.lineup = l, !.revision = @ + 1,
                   !.ready = FALSE, !.loading = TRUE]

Reload(p, l) ==
    /\ player.revision < MaxRevision
    /\ player' = Loaded(p, l)
    /\ UNCHANGED <<advertised, standbys, flying, reply, began, cli>>

\* The provider is ready before its catalogue is complete.
Ready ==
    /\ player.loading
    /\ player' = IF player.ready THEN [player EXCEPT !.loading = FALSE]
                 ELSE [player EXCEPT !.ready = TRUE]
    /\ UNCHANGED <<advertised, standbys, flying, reply, began, cli>>

Standby ==
    /\ standbys > 0 /\ ~player.standby
    /\ player' = [player EXCEPT !.standby = TRUE]
    /\ standbys' = standbys - 1
    /\ UNCHANGED <<advertised, flying, reply, began, cli>>

Did(row) == Append(began, [op |-> flying.op, row |-> row, provider |-> player.provider])

Shows(row) ==
    /\ reply' = [status |-> "ok", row |-> row]
    /\ began' = Did(row)
    /\ UNCHANGED player

\* What the player does when it takes a change.  A catalogue that is no
\* longer the current one is refused, and so is an item it does not hold.
Carry ==
    CASE flying.op = "provider" ->
           /\ player' = IF player.provider = Destination THEN player
                        ELSE Loaded(Destination, CHOOSE l \in Lineups[Destination] : TRUE)
           /\ reply' = [status |-> "ok", row |-> NoRow]
           /\ began' = Did(NoRow)
      [] flying.op = "wake" ->
           /\ player' = [player EXCEPT !.standby = FALSE]
           /\ reply' = [status |-> "ok", row |-> NoRow]
           /\ began' = Did(NoRow)
      [] flying.op = "select" ->
           /\ flying.token = player.revision
           /\ Shows(NoRow)
      [] flying.op = "item" ->
           /\ flying.token = player.revision /\ flying.row \in Current
           /\ Shows(flying.row)
      [] flying.op = "any" ->
           /\ flying.token = player.revision
           /\ \E row \in Current : row.channel \in flying.from /\ Shows(row)
      [] flying.op = "number" ->
           \E row \in Current : row.number = flying.number /\ Shows(row)

\* A legacy player answers a number with the channel it found there.
Execute ==
    /\ flying.op # "none"
    /\ Carry
    /\ flying' = Nothing
    /\ UNCHANGED <<advertised, standbys, cli>>

RejectChange ==
    /\ flying.op # "none"
    /\ flying' = Nothing
    /\ reply' = [status |-> "rejected"]
    /\ UNCHANGED <<advertised, player, standbys, began, cli>>

Expire ==
    /\ flying.op # "none"
    /\ flying' = Nothing
    /\ UNCHANGED <<advertised, player, standbys, reply, began, cli>>

-----------------------------------------------------------------------------
(* The command line                                                        *)

world == <<advertised, player, standbys, flying, reply, began>>

\* The messages that end a command: nothing was requested, or it may have
\* been, or it was confirmed.
Ends(is, row) ==
    /\ says' = [is |-> is, row |-> row]
    /\ pc' = "end"
    /\ UNCHANGED <<command, lookup, awake>>

Goes(next) ==
    /\ pc' = next
    /\ UNCHANGED <<command, lookup, awake, says>>

\* A read that is refused, not answered or found invalid, or a deadline that
\* passed before the change: no playback was requested.
Searching == {"start", "ready", "catalogue", "rows", "select", "bind", "recheck"}
Fail ==
    /\ pc \in Searching
    /\ Ends("no", NoRow)
    /\ UNCHANGED world

\* A number needs no lookup; a provider is switched to first.
Start ==
    /\ pc = "start"
    /\ Goes(CASE command = "number" -> "play"
              [] command = "provider" -> "switch"
              [] OTHER -> "catalogue")
    /\ UNCHANGED world

Send(request, next) ==
    /\ flying' = request
    /\ reply' = NoReply
    /\ pc' = next
    /\ UNCHANGED <<advertised, player, standbys, began>>

Switch ==
    /\ pc = "switch"
    /\ Send([op |-> "provider"], "switching")
    /\ UNCHANGED <<command, lookup, awake, says>>

\* provider_switch_metadata.
Switched ==
    /\ pc = "switching" /\ reply.status = "ok"
    /\ Goes("ready")
    /\ UNCHANGED world

Settled == player.provider = Destination /\ player.ready /\ ~player.standby

\* provider_ready with wait: until the provider is there, waking the player
\* at most once.
AwaitReady ==
    /\ pc = "ready"
    /\ IF player.standby /\ ~awake
       THEN /\ Send([op |-> "wake"], "waking")
            /\ awake' = TRUE
            /\ UNCHANGED <<command, lookup, says>>
       ELSE /\ Settled
            /\ Goes("catalogue")
            /\ UNCHANGED world

\* It reads the status again, on which it decided before the wake.
Woken ==
    /\ pc = "waking" /\ reply.status = "ok"
    /\ Goes("ready")
    /\ UNCHANGED world

\* An unconfirmed wake ends the command, an unconfirmed switch as well.
Unconfirmed ==
    /\ pc \in {"switching", "waking"}
    /\ Ends(IF pc = "waking" \/ reply.status = "rejected" THEN "no" ELSE "unknown", NoRow)
    /\ UNCHANGED world

AsExpected == command = "provider" => player.provider = Destination
Legacy == ~Modern /\ command # "category"

\* The first page of the categories names the catalogue.  A provider's is read
\* again until it is loaded; a name is not looked up in one that is loading.
Categories ==
    /\ pc = "catalogue" /\ Modern
    /\ AsExpected
    /\ ~player.loading \/ command \in {"exact", "category"}
    /\ token' = player.revision
    /\ rows' = {}
    /\ pc' = IF command = "random" THEN "play"
             ELSE IF command = "category" THEN "select" ELSE "rows"
    /\ UNCHANGED <<world, command, restarted, awake, chosen, says>>

\* While it loads, the provider has to stay ready.
Reread ==
    /\ pc \in {"catalogue", "rows"} /\ Modern /\ command = "provider"
    /\ player.loading
    /\ IF Settled THEN Goes("catalogue") ELSE Ends("no", NoRow)
    /\ UNCHANGED world

Matching(set) == {row \in set : row.channel \in Wanted}

\* One row a page; a page of another catalogue is refused by the player.
Page ==
    /\ pc = "rows" /\ Modern
    /\ token = player.revision
    /\ \E row \in Matching(Current) \ rows :
         /\ \A other \in Matching(Current) \ rows : row.number <= other.number
         /\ rows' = rows \cup {row}
    /\ UNCHANGED <<world, command, pc, token, restarted, awake, chosen, says>>

Complete ==
    /\ pc = "rows" /\ Modern
    /\ token = player.revision
    /\ rows = Matching(Current)
    /\ ~player.loading \/ command = "exact"
    /\ Goes("select")
    /\ UNCHANGED world

\* The lookup of a name begins again, once.
Changed ==
    /\ pc = "rows" /\ Modern
    /\ token # player.revision
    /\ IF command = "play" /\ ~restarted
       THEN /\ restarted' = TRUE
            /\ pc' = "catalogue"
            /\ UNCHANGED <<command, token, rows, chosen, awake, says>>
       ELSE Ends("no", NoRow)
    /\ UNCHANGED world

\* A legacy player answers with the whole list, in one request.
WholeList ==
    /\ pc = "catalogue" /\ Legacy
    /\ command # "exact"
    /\ token' = player.revision
    /\ rows' = Matching(Current)
    /\ pc' = IF command = "random" THEN "play" ELSE "select"
    /\ UNCHANGED <<world, command, restarted, awake, chosen, says>>

ExactRows == {row \in rows : row.channel \in Exact}
Only(set) == Cardinality(set) = 1

\* The one row of that name, or else any that matches, which needs the safe
\* random selection.
Select ==
    /\ pc = "select"
    /\ IF command = "category"
       THEN pc' = "play" /\ chosen' = NoRow
       ELSE /\ rows # {}
            /\ \/ Only(ExactRows) /\ chosen' \in ExactRows
               \/ ~Only(ExactRows) /\ Random /\ chosen' = NoRow
            /\ pc' = IF command = "provider" THEN "recheck"
                     ELSE IF ~Modern /\ chosen' = NoRow THEN "bind" ELSE "play"
    /\ UNCHANGED <<world, command, token, rows, restarted, awake, says>>

\* The list of a legacy player names no catalogue: a random selection from it
\* is bound to the one that is current by now.
Bind ==
    /\ pc = "bind"
    /\ token' = player.revision
    /\ pc' = "play"
    /\ UNCHANGED <<world, command, rows, restarted, chosen, awake, says>>

\* provider_ready without wait, right before the change.
Recheck ==
    /\ pc = "recheck"
    /\ IF Settled THEN Goes("play") ELSE Ends("no", NoRow)
    /\ UNCHANGED world

\* The set a random selection is made from: the player applies the query.
Pool == IF command = "random" THEN Channels ELSE Wanted

Request ==
    IF command = "number" THEN [op |-> "number", number |-> Number]
    ELSE IF command = "category" THEN [op |-> "select", token |-> token]
    ELSE IF chosen = NoRow THEN [op |-> "any", token |-> token, from |-> Pool]
    ELSE IF Modern \/ command = "provider"
    THEN [op |-> "item", token |-> token, row |-> chosen]
    ELSE [op |-> "number", number |-> chosen.number]

Play ==
    /\ pc = "play"
    /\ command = "random" => Random
    /\ Send(Request, "playing")
    /\ UNCHANGED <<command, lookup, awake, says>>

NotPlayed ==
    /\ pc = "play" /\ command # "number"
    /\ Ends("no", NoRow)
    /\ UNCHANGED world

\* What was asked for is what the answer names: the chosen row, or one of
\* those that were read.
ConfirmedByNumber(row) == chosen # NoRow => row.number = chosen.number
Confirmed(row) ==
    \/ command \in {"number", "random", "category"}
    \/ chosen # NoRow /\ row = chosen
    \/ chosen = NoRow /\ row \in (IF ExactRows = {} THEN rows ELSE ExactRows)

Receive ==
    /\ pc = "playing" /\ reply.status # "none"
    /\ IF reply.status = "rejected" THEN Ends("no", NoRow)
       ELSE IF Confirmed(reply.row) THEN Ends("yes", reply.row)
       ELSE Ends("unknown", NoRow)
    /\ UNCHANGED world

GiveUp ==
    /\ pc = "playing"
    /\ Ends("unknown", NoRow)
    /\ UNCHANGED world

-----------------------------------------------------------------------------
Viewer == \/ \E p \in DOMAIN Lineups : \E l \in Lineups[p] : Reload(p, l)
          \/ Ready
          \/ Standby

Answers == Execute \/ RejectChange \/ Expire

Lookup == \/ Start \/ Fail
          \/ Categories \/ Reread \/ Page \/ Complete \/ Changed \/ WholeList
          \/ Select \/ Bind

Change == \/ Switch \/ Switched \/ AwaitReady \/ Woken \/ Unconfirmed \/ Recheck
          \/ Play \/ NotPlayed \/ Receive \/ GiveUp

Next == Viewer \/ Answers \/ Lookup \/ Change

Spec == Init /\ [][Next]_vars

-----------------------------------------------------------------------------
(* Correctness                                                             *)

Plays == {i \in 1 .. Len(began) : began[i].op \notin {"provider", "wake"}}
Times(op) == Cardinality({i \in 1 .. Len(began) : began[i].op = op})

\* "No playback was requested" stays true: the player did nothing for this
\* command and will not, although a request may be on its way while the viewer
\* changes the catalogue.  "Channel switch requested: X" means that the player
\* switched to X, to nothing else, within the provider the user named and to a
\* channel whose name the query matches.  No change is made twice.
HonestDispatch ==
    /\ Cardinality(Plays) <= 1
    /\ Times("provider") <= 1 /\ Times("wake") <= 1
    /\ says.is = "no" => Plays = {}
    /\ says.is = "yes" =>
         \E i \in Plays :
           /\ began[i].row = says.row
           /\ command = "provider" => began[i].provider = Destination
           /\ command \in {"play", "exact", "provider"} => says.row.channel \in Wanted

TypeOK ==
    /\ player.provider \in DOMAIN Lineups
    /\ player.revision \in 1 .. MaxRevision + 1
    /\ pc \in Searching \cup {"switch", "switching", "waking", "play", "playing", "end"}
    /\ says.is \in {"none", "no", "yes", "unknown"}
=============================================================================
