---------------------------- MODULE GroupCommand ----------------------------
(***************************************************************************)
(* One command for several players: player_group_command and the request   *)
(* layer under it, cli/ott.py and cli/player_groups.py.                    *)
(*                                                                         *)
(* The main thread submits one job per player to a pool, collects results  *)
(* as they finish and turns an interrupt of the user into a cancellation.  *)
(* A job makes the calls of its command in order.  A call posts once, from *)
(* a daemon thread that outlives a caller which stops waiting, then polls  *)
(* the receipt.  What the job could establish becomes the row of its       *)
(* player in the report, which a user reads before the next change.        *)
(*                                                                         *)
(* Deadlines can pass at any time: no time is counted.  Commands are told  *)
(* apart by the calls they make; what they read and print is not modelled  *)
(* beyond its size, and catalogues are in MediaSelection.                  *)
(***************************************************************************)
EXTENDS Naturals, Sequences, FiniteSets

CONSTANTS
    Names,          \* names the configuration gives to players
    Groups,         \* members of the saved groups, by name
    Device,         \* the player behind a name
    Selectors,      \* lists of names and groups the user may give
    MaxTargets,     \* names a selector may expand to
    Workers,        \* jobs at a time (GROUP_WORKERS)
    Commands,       \* kinds of command the user may give
    Room,           \* units of output the group may retain in memory
    MaxOutput,      \* units one job prints at most
    MaxInterrupts   \* how often the user interrupts

\* The elements of a list.
Elements(list) == {list[i] : i \in DOMAIN list}

\* What may stand in a list of the user or in a group.
Words == UNION {Elements(selector) : selector \in Selectors}
         \cup UNION {Elements(Groups[g]) : g \in DOMAIN Groups}

ASSUME GroupAssumption ==
    /\ MaxTargets \in Nat \ {0} /\ Workers \in Nat \ {0} /\ Room \in Nat
    /\ MaxOutput \in Nat /\ MaxInterrupts \in Nat
    /\ DOMAIN Device = Names
    /\ Selectors \subseteq Seq(Words)
    /\ \A g \in DOMAIN Groups : Groups[g] \in Seq(Words)
    /\ Commands \subseteq {"get", "list", "set", "bind", "play", "provider"}

VARIABLES
    command,       \* what the user asked for
    words,         \* what is left to expand of the list it is for
    expanded,      \* the names in it that are left to resolve
    targets,       \* the players it goes to, in order
    main,          \* the main thread
    next,          \* the player to submit next
    cancelled,     \* the event every job watches
    tracked,       \* players whose future the main thread knows of
    future,
    outcome,       \* rows, by player
    reported,      \* rows printed as a result came in
    exit,          \* code of the process
    interrupts,
    room,          \* what is left of the output budget
    pc,            \* of the jobs
    step,          \* the call a job is at
    thread,        \* the HTTP thread of a post, by player and call
    box            \* the request at the controller, by player and call

asked == <<command, words, expanded, targets>>
host == <<asked, main, next, tracked, reported, exit, interrupts>>
vars == <<host, cancelled, future, outcome, room, pc, step, thread, box>>

Slots == 1 .. MaxTargets
Players == 1 .. Len(targets)
Calls == 1 .. 3
None == [says |-> "none", at |-> 0, code |-> 0]
Codes == {0, 1, 3, 130}

-----------------------------------------------------------------------------
(* Commands and their targets                                              *)

\* What a command does is the kind of each of its calls.  "provider ID
\* CHANNEL" switches, waits for the new provider and then plays.
Script(c) == CASE c \in {"get", "list"} -> <<"read">>
               [] c \in {"set", "bind"} -> <<"change">>
               [] c = "play" -> <<"read", "change">>
               [] c = "provider" -> <<"change", "read", "change">>

\* Tokens, handles and bindings belong to one player.
ForOne(c) == c = "bind"

\* A group has no groups in it and no name of a player.
Usable(word) ==
    word \in DOMAIN Groups =>
        word \notin Names /\ Elements(Groups[word]) \cap DOMAIN Groups = {}

Members(word) == IF word \in DOMAIN Groups THEN Groups[word] ELSE <<word>>

LastCall(t) == step[t] = Len(Script(command))
Reading(t) == Script(command)[step[t]] = "read"

Row(says, at, code) == [says |-> says, at |-> at, code |-> code]
NotStarted == Row("not_started", 0, 130)

-----------------------------------------------------------------------------
Init ==
    /\ command \in Commands
    /\ words \in Selectors
    /\ expanded = <<>> /\ targets = <<>>
    /\ main = "resolve" /\ next = 1
    /\ cancelled = FALSE
    /\ tracked = {} /\ reported = {}
    /\ future = [t \in Slots |-> "none"]
    /\ outcome = [t \in Slots |-> None]
    /\ exit = 0
    /\ interrupts = MaxInterrupts
    /\ room = Room
    /\ pc = [t \in Slots |-> "idle"]
    /\ step = [t \in Slots |-> 1]
    /\ thread = [t \in Slots |-> [s \in Calls |-> "none"]]
    /\ box = [t \in Slots |-> [s \in Calls |-> "none"]]

-----------------------------------------------------------------------------
(* The main thread                                                         *)

jobs == <<room, pc, step, thread, box>>

resolution == <<command, next, tracked, reported, interrupts, cancelled, future,
                outcome, jobs>>

\* Every name is resolved, and the outputs of all players are found to differ
\* and not to exist, before anything is sent: whatever is wrong with a name, the
\* list or the outputs ends the command here.
Refuse ==
    /\ main = "resolve"
    /\ main' = "refused" /\ exit' = 1
    /\ UNCHANGED <<words, expanded, targets, resolution>>

Expand ==
    /\ main = "resolve" /\ words # <<>>
    /\ Usable(Head(words))
    /\ Len(expanded \o Members(Head(words))) <= MaxTargets
    /\ expanded' = expanded \o Members(Head(words))
    /\ words' = Tail(words)
    /\ UNCHANGED <<targets, main, exit, resolution>>

\* Mutant: a player that is named twice is a target twice.
NeverSeen(device) == FALSE

Seen(device) == \E t \in Players : targets[t] = device

\* Each player once, where it is named first.
ResolveName ==
    /\ main = "resolve" /\ words = <<>> /\ expanded # <<>>
    /\ Head(expanded) \in Names
    /\ targets' = IF Seen(Device[Head(expanded)]) THEN targets
                  ELSE Append(targets, Device[Head(expanded)])
    /\ expanded' = Tail(expanded)
    /\ UNCHANGED <<words, main, exit, resolution>>

Dispatch ==
    /\ main = "resolve" /\ words = <<>> /\ expanded = <<>>
    /\ ForOne(command) => Len(targets) = 1
    /\ main' = "submit"
    /\ UNCHANGED <<words, expanded, targets, exit, resolution>>

Resolve == Refuse \/ Expand \/ ResolveName \/ Dispatch

Submit ==
    /\ main = "submit"
    /\ IF cancelled \/ next > Len(targets)
       THEN main' = "wait" /\ UNCHANGED <<next, future, tracked>>
       ELSE /\ future' = [future EXCEPT ![next] = "queued"]
            /\ tracked' = tracked \cup {next}
            /\ next' = next + 1
            /\ UNCHANGED main
    /\ UNCHANGED <<asked, reported, exit, interrupts, cancelled, outcome>>
    /\ UNCHANGED jobs

\* The interrupt can come after the pool took the job and before the main
\* thread has noted its future.
InterruptSubmit(lost) ==
    /\ main = "submit" /\ interrupts > 0
    /\ lost => next <= Len(targets) /\ ~cancelled
    /\ interrupts' = interrupts - 1
    /\ cancelled' = TRUE
    /\ main' = "wait"
    /\ future' = IF lost THEN [future EXCEPT ![next] = "queued"] ELSE future
    /\ UNCHANGED <<asked, next, tracked, reported, exit, outcome>>
    /\ UNCHANGED jobs

InterruptWait ==
    /\ main = "wait" /\ tracked # {} /\ interrupts > 0
    /\ interrupts' = interrupts - 1
    /\ cancelled' = TRUE
    /\ UNCHANGED <<asked, main, next, tracked, reported, exit, future, outcome>>
    /\ UNCHANGED jobs

Collected(t) == IF future[t] = "skipped" THEN NotStarted ELSE outcome[t]

\* wait returned finished futures; one is handled at a time, and what the
\* others are is no concern of it.
Collect(t) ==
    /\ main = "wait" /\ t \in tracked
    /\ future[t] \in {"done", "skipped"}
    /\ outcome' = [outcome EXCEPT ![t] = Collected(t)]
    /\ reported' = reported \cup {t}
    /\ tracked' = tracked \ {t}
    /\ UNCHANGED <<asked, main, next, exit, interrupts, cancelled, future>>
    /\ UNCHANGED jobs

\* Every turn of the loop ends with this when the command was cancelled.
CancelPending ==
    /\ main = "wait" /\ cancelled
    /\ \E t \in tracked : future[t] = "queued"
    /\ future' = [t \in Slots |-> IF t \in tracked /\ future[t] = "queued"
                                    THEN "cancelled" ELSE future[t]]
    /\ UNCHANGED <<host, cancelled, outcome>>
    /\ UNCHANGED jobs

\* Leaving the pool's block waits for its threads.
Leave ==
    /\ main = "wait" /\ tracked = {}
    /\ main' = "closing"
    /\ UNCHANGED <<asked, next, tracked, reported, exit, interrupts,
                   cancelled, future, outcome>>
    /\ UNCHANGED jobs

Unfilled(o) == o
Filled(o) == [t \in Slots |-> IF t \in Players /\ o[t] = None THEN NotStarted ELSE o[t]]

ExitCode(o) ==
    LET codes == {o[t].code : t \in Players} IN
    IF cancelled THEN 130
    ELSE IF \E c \in {1, 2, 3} : c \in codes
    THEN CHOOSE c \in {1, 2, 3} : c \in codes /\ \A d \in {1, 2, 3} \cap codes : c <= d
    ELSE IF \A t \in Players : o[t].code = 0 THEN 0 ELSE 1

Report ==
    /\ main = "closing"
    /\ \A t \in Players : future[t] \notin {"queued", "cancelled", "running"}
    /\ outcome' = Filled(outcome)
    /\ reported' = Players
    /\ exit' = ExitCode(Filled(outcome))
    /\ main' = "reported"
    /\ UNCHANGED <<asked, next, tracked, interrupts, cancelled, future>>
    /\ UNCHANGED jobs

\* Nothing catches an interrupt while the pool is left: the process reports
\* no more, and ends with 130 when its threads have ended.
Abort ==
    /\ main = "closing" /\ interrupts > 0
    /\ interrupts' = interrupts - 1
    /\ main' = "aborted"
    /\ exit' = 130
    /\ UNCHANGED <<asked, next, tracked, reported, cancelled, future, outcome>>
    /\ UNCHANGED jobs

-----------------------------------------------------------------------------
(* Workers                                                                 *)

Take(t) ==
    /\ Cardinality({u \in Players : future[u] = "running"}) < Workers
    /\ future[t] \in {"queued", "cancelled"}
    /\ \A u \in Players : u < t => future[u] \notin {"queued", "cancelled"}
    /\ IF future[t] = "cancelled"
       THEN future' = [future EXCEPT ![t] = "skipped"] /\ UNCHANGED pc
       ELSE /\ future' = [future EXCEPT ![t] = "running"]
            /\ pc' = [pc EXCEPT ![t] = "start"]
    /\ UNCHANGED <<host, cancelled, outcome, room, step, thread, box>>

Capped(o, left) == IF o <= left THEN o ELSE left
Retain(o, left) == left - Capped(o, left)

\* A job ends: it keeps as much of its output as there is room for, and a row
\* that lost some is incomplete whatever the command came to.
Finish(t, row) ==
    \E o \in 0 .. MaxOutput :
        /\ row.code = 0 => o > 0
        /\ room' = Retain(o, room)
        /\ outcome' = [outcome EXCEPT ![t] =
                         IF o > room
                         THEN Row("incomplete", row.at,
                                  IF row.code = 130 THEN 130 ELSE 1)
                         ELSE row]
        /\ future' = [future EXCEPT ![t] = "done"]
        /\ pc' = [pc EXCEPT ![t] = "end"]
        /\ cancelled' = (cancelled \/ row.code = 130)

\* Nothing was printed yet.
EndsUnstarted(t) ==
    /\ outcome' = [outcome EXCEPT ![t] = NotStarted]
    /\ future' = [future EXCEPT ![t] = "done"]
    /\ pc' = [pc EXCEPT ![t] = "end"]

Begin(t) ==
    /\ pc[t] = "start"
    /\ IF cancelled THEN EndsUnstarted(t)
       ELSE /\ pc' = [pc EXCEPT ![t] = "call"]
            /\ UNCHANGED <<outcome, future>>
    /\ UNCHANGED <<host, cancelled, room, step, thread, box>>

Interrupted(t) == Row("interrupted", step[t], 130)

\* Every wait of a job looks at the event: before a call, while its post is
\* under way and between two reads of the receipt.
Interrupt(t) ==
    /\ cancelled
    /\ pc[t] \in {"call", "posting", "receipt"}
    /\ Finish(t, Interrupted(t))
    /\ UNCHANGED <<host, step, thread, box>>

\* What a failure at this call says of the command.  A lookup says that no
\* playback was requested; the second part of "provider" says it too.
Failed(t) == IF Reading(t) /\ command \in {"play", "provider"}
             THEN Row("not_requested", step[t], 1)
             ELSE Row("unknown", step[t], 1)

\* The last check before a change that follows a read.
Late(t) ==
    /\ pc[t] = "call" /\ step[t] > 1
    /\ Finish(t, Row("not_requested", step[t], 1))
    /\ UNCHANGED <<host, step, thread, box>>

-----------------------------------------------------------------------------
(* A call                                                                  *)

\* call_receipt, api: the post is handed to a thread of its own.
Post(t) ==
    /\ pc[t] = "call" /\ ~cancelled
    /\ pc' = [pc EXCEPT ![t] = "posting"]
    /\ thread' = [thread EXCEPT ![t][step[t]] = "started"]
    /\ UNCHANGED <<host, cancelled, future, outcome, room, step, box>>

\* Its caller waits for this thread.
Waits(t, s) == pc[t] = "posting" /\ step[t] = s

\* _api looks once more, then opens the connection.
Open(t, s) ==
    /\ thread[t][s] = "started"
    /\ thread' = [thread EXCEPT ![t][s] =
                    IF cancelled \/ ~Waits(t, s) THEN "unsent" ELSE "open"]
    /\ UNCHANGED <<host, cancelled, future, outcome, room, pc, step, box>>

\* The controller queues the request or refuses it, and its answer arrives or
\* not.  A status from 500 on says nothing of the queue.
Arrive(t, s, queued, answer) ==
    /\ thread[t][s] = "open"
    /\ answer = "id" => queued
    /\ answer = "refused" => ~queued
    /\ thread' = [thread EXCEPT ![t][s] = answer]
    /\ box' = IF queued THEN [box EXCEPT ![t][s] = "queued"] ELSE box
    /\ UNCHANGED <<host, cancelled, future, outcome, room, pc, step>>

Answers == {"id", "refused", "server_error", "lost"}
IsRefusalOrError(answer) == answer \in {"refused", "server_error"}
IsRefusal(answer) == answer = "refused"

Receive(t) ==
    /\ pc[t] = "posting"
    /\ thread[t][step[t]] \in Answers \cup {"unsent"}
    /\ LET answer == thread[t][step[t]] IN
       IF answer = "id"
       THEN /\ pc' = [pc EXCEPT ![t] = "receipt"]
            /\ UNCHANGED <<cancelled, future, outcome, room>>
       ELSE IF IsRefusal(answer) THEN Finish(t, Row("refused", step[t], 1))
       ELSE Finish(t, Failed(t))
    /\ UNCHANGED <<host, step, thread, box>>

\* The deadline of the post, or of the receipt; a receipt that is missing, not
\* readable or invalid ends the wait as well.
GiveUp(t) ==
    /\ pc[t] \in {"posting", "receipt"}
    /\ Finish(t, Failed(t))
    /\ UNCHANGED <<host, step, thread, box>>

\* The metadata functions accept the answer or not.
Accepted(t) ==
    IF ~LastCall(t)
    THEN /\ step' = [step EXCEPT ![t] = @ + 1]
         /\ pc' = [pc EXCEPT ![t] = "call"]
         /\ UNCHANGED <<cancelled, future, outcome, room>>
    ELSE /\ \/ Finish(t, Row("done", step[t], 0))
            \/ command = "list" /\ Finish(t, Row("partial", step[t], 3))
         /\ UNCHANGED step

Poll(t) ==
    /\ pc[t] = "receipt"
    /\ \/ box[t][step[t]] = "ok" /\ Accepted(t)
       \/ /\ box[t][step[t]] = "ok"
          /\ Finish(t, Failed(t))
          /\ UNCHANGED step
       \/ /\ box[t][step[t]] = "rejected"
          /\ Finish(t, Row("rejected", step[t], 1))
          /\ UNCHANGED step
    /\ UNCHANGED <<host, thread, box>>

-----------------------------------------------------------------------------
(* The player                                                              *)

\* It answers while the request lives; a request that is not taken expires.
Player(t, s, result) ==
    /\ box[t][s] = "queued"
    /\ box' = [box EXCEPT ![t][s] = result]
    /\ UNCHANGED <<host, cancelled, future, outcome, room, pc, step, thread>>

-----------------------------------------------------------------------------
MainStep ==
    \/ Resolve
    \/ Submit
    \/ \E lost \in BOOLEAN : InterruptSubmit(lost)
    \/ InterruptWait
    \/ \E t \in Players : Collect(t)
    \/ CancelPending
    \/ Leave
    \/ Report
    \/ Abort

Job(t) == \/ Begin(t)
          \/ Interrupt(t)
          \/ Late(t)
          \/ Post(t)
          \/ Receive(t)
          \/ GiveUp(t)
          \/ Poll(t)

Network(t, s) ==
    \/ Open(t, s)
    \/ \E queued \in BOOLEAN, answer \in Answers : Arrive(t, s, queued, answer)

Next ==
    \/ MainStep
    \/ \E t \in Slots : Take(t) \/ Job(t)
    \/ \E t \in Slots, s \in Calls :
         \/ Network(t, s)
         \/ \E result \in {"ok", "rejected", "expired"} : Player(t, s, result)

\* The threads of the process are scheduled, and every wait of a job ends at
\* its deadline.  Neither the network nor a player has to answer.
Fairness ==
    /\ WF_vars(Resolve)
    /\ WF_vars(Submit) /\ WF_vars(CancelPending) /\ WF_vars(Leave) /\ WF_vars(Report)
    /\ \A t \in Slots : WF_vars(Collect(t)) /\ WF_vars(Take(t)) /\ WF_vars(Job(t))

Spec == Init /\ [][Next]_vars
FairSpec == Spec /\ Fairness

-----------------------------------------------------------------------------
(* Correctness                                                             *)

TypeOK ==
    /\ main \in {"resolve", "refused", "submit", "wait", "closing", "reported", "aborted"}
    /\ next \in 1 .. MaxTargets + 1
    /\ words \in Seq(Words) /\ expanded \in Seq(Words)
    /\ targets \in Seq({Device[x] : x \in Names}) /\ Len(targets) <= MaxTargets
    /\ cancelled \in BOOLEAN
    /\ tracked \subseteq Players /\ reported \subseteq Players
    /\ future \in [Slots -> {"none", "queued", "cancelled", "running", "done", "skipped"}]
    /\ exit \in Codes
    /\ room \in 0 .. Room
    /\ pc \in [Slots -> {"idle", "start", "call", "posting", "receipt", "end"}]
    /\ step \in [Slots -> Calls]

Untouched(t, s) == box[t][s] = "none"

\* What the row of a player claims stays true for as long as anything can
\* still arrive: "not started" and "no playback was requested" mean that no
\* such request was or will be queued, although a thread of an abandoned post
\* may still be on its way; "rejected" that the player changed nothing at that
\* step or after it; "done" that it did all of it.  The process ends with 0
\* only when every row is done, and no player is sent a call twice because it
\* was named twice.
HonestReport ==
    /\ TypeOK
    /\ \A t \in Players :
         LET row == outcome[t]
             last == Len(Script(command))
         IN  CASE row.says = "not_started" -> \A s \in Calls : Untouched(t, s)
               [] row.says = "not_requested" -> Untouched(t, last)
               [] row.says = "refused" -> \A s \in Calls : s >= row.at => Untouched(t, s)
               [] row.says = "rejected" ->
                    /\ box[t][row.at] = "rejected"
                    /\ \A s \in Calls : s > row.at => Untouched(t, s)
               [] row.says \in {"done", "partial"} ->
                    \A s \in 1 .. last : box[t][s] = "ok"
               [] OTHER -> TRUE
    /\ main = "reported" /\ exit = 0 =>
         \A t \in Players : outcome[t].says = "done"
    /\ \A t, u \in Players, s \in Calls :
         t # u /\ targets[t] = targets[u] => Untouched(t, s) \/ Untouched(u, s)

\* Every player gets its row whatever the user, the network and the players
\* do, also one whose job was submitted when the interrupt came; the one
\* exception is a further interrupt while the pool is left.
EveryTargetReported ==
    <>(\/ main \in {"refused", "aborted"}
       \/ main = "reported" /\ reported = Players /\ \A t \in Players : outcome[t] # None)
=============================================================================
