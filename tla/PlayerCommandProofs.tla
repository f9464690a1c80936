------------------------ MODULE PlayerCommandProofs -------------------------
(***************************************************************************)
(* Theorems about the commands that ask one thing of a player or of the    *)
(* control server and report what became of it, for every value of the     *)
(* constants.                                                              *)
(*                                                                         *)
(* GroupCommand, the module extended here: every number of players and     *)
(* workers, every configuration, every output budget and any number of     *)
(* interrupts.  HonestReport is about rows that were written while         *)
(* requests may still be on their way.  The inductive invariant therefore  *)
(* follows each post: how far the calls of a player have come, that        *)
(* whatever is at the controller came from a post that was opened, and     *)
(* that a row is only written when no post which could make it untrue is   *)
(* left.                                                                   *)
(*                                                                         *)
(* The commands for one player follow, a section each: bound commands,     *)
(* channels and media, the torrent indexer, power, updates of the          *)
(* application, the registry's operator, the torrent catalogue and         *)
(* settings.  What each reports is honest because of an invariant about    *)
(* the same three things: where its request can still be, what has been    *)
(* done in its name, and what an answer proves.                            *)
(***************************************************************************)
EXTENDS GroupCommand, PlayerCommands, FiniteSetTheorems, TLAPS

Said == {"not_started", "not_requested", "interrupted", "incomplete", "unknown",
         "refused", "rejected", "done", "partial"}

Rows == [says : Said, at : 0 .. 3, code : Codes]

Typed ==
    /\ TypeOK
    /\ command \in Commands
    /\ outcome \in [Slots -> Rows \cup {None}]
    /\ thread \in [Slots -> [Calls -> {"none", "started", "open", "unsent"} \cup Answers]]
    /\ box \in [Slots -> [Calls -> {"none", "queued", "ok", "rejected", "expired"}]]

\* Resolution has named each player once, and has room for the names left.
Resolving ==
    /\ Len(targets) + Len(expanded) <= MaxTargets
    /\ words # <<>> => targets = <<>>
    /\ \A t, u \in Players : targets[t] = targets[u] => t = u

\* What the pool has been given.
Pool ==
    /\ main \in {"resolve", "refused"} =>
         next = 1 /\ tracked = {} /\ reported = {} /\ \A t \in Slots : future[t] = "none"
    /\ \A t \in Slots : future[t] # "none" => t \in Players
    /\ main = "submit" => \A t \in Slots : t >= next => future[t] = "none"
    /\ main = "reported" =>
         /\ \A t \in Players : future[t] \in {"none", "done", "skipped"}
         /\ exit = 0 => \A t \in Players : outcome[t].says = "done"

AtWork == {"start", "call", "posting", "receipt"}

Running(t) ==
    /\ future[t] = "running" <=> pc[t] \in AtWork
    /\ future[t] = "done" <=> pc[t] = "end"

\* How far the calls of a player have come: those before its step were accepted,
\* those after it were never posted, and what is at the controller was sent.
Sending(t) ==
    /\ step[t] <= Len(Script(command))
    /\ pc[t] \in {"idle", "start"} => step[t] = 1
    /\ \A s \in Calls :
         s > step[t] \/ (s = step[t] /\ pc[t] \in {"idle", "start", "call"}) =>
             thread[t][s] = "none"
    /\ \A s \in Calls : s < step[t] => box[t][s] = "ok"
    /\ pc[t] = "receipt" => thread[t][step[t]] = "id"
    /\ \A s \in Calls : box[t][s] # "none" => thread[t][s] \in {"id", "server_error", "lost"}

\* What a row claims, said of posts and not only of the controller.
Claims(t, row) ==
    /\ row.code = 0 => row.says \in {"none", "done"}
    /\ row.says = "not_started" => \A s \in Calls : thread[t][s] = "none"
    /\ row.says = "not_requested" => thread[t][Len(Script(command))] = "none"
    /\ row.says = "refused" =>
         /\ row.at \in Calls
         /\ \A s \in Calls : s >= row.at => thread[t][s] \in {"none", "refused"}
    /\ row.says = "rejected" =>
         /\ row.at \in Calls /\ box[t][row.at] = "rejected"
         /\ \A s \in Calls : s > row.at => thread[t][s] = "none"
    /\ row.says \in {"done", "partial"} =>
         \A s \in 1 .. Len(Script(command)) : box[t][s] = "ok"

Telling(t) ==
    /\ pc[t] \in AtWork => outcome[t] = None
    /\ pc[t] = "end" => outcome[t] # None
    /\ pc[t] = "idle" /\ outcome[t] # None =>
         outcome[t].says = "not_started" /\ (future[t] = "skipped" \/ main = "reported")
    /\ Claims(t, outcome[t])

Following(t) == Running(t) /\ Sending(t) /\ Telling(t)

IInv == Typed /\ Resolving /\ Pool /\ \A t \in Slots : Following(t)
-----------------------------------------------------------------------------
(* Commands, rows and players                                              *)

LEMMA Scripts ==
    ASSUME Typed
    PROVE  /\ Len(Script(command)) \in Calls
           /\ \A s \in 1 .. Len(Script(command)) :
                Script(command)[s] = "read" /\ command \in {"play", "provider"} =>
                    s < Len(Script(command))
<1>1. command \in {"get", "list", "set", "bind", "play", "provider"}
  BY GroupAssumption DEF Typed
<1>2. CASE command \in {"get", "list"}
  <2>1. Script(command) = <<"read">>
    BY <1>2 DEF Script
  <2> QED
    BY <1>2, <2>1 DEF Calls
<1>3. CASE command \in {"set", "bind"}
  <2>1. Script(command) = <<"change">>
    BY <1>3 DEF Script
  <2> QED
    BY <1>3, <2>1 DEF Calls
<1>4. CASE command = "play"
  <2>1. Script(command) = <<"read", "change">>
    BY <1>4 DEF Script
  <2> QED
    BY <2>1 DEF Calls
<1>5. CASE command = "provider"
  <2>1. Script(command) = <<"change", "read", "change">>
    BY <1>5 DEF Script
  <2> QED
    BY <2>1 DEF Calls
<1> QED
  BY <1>1, <1>2, <1>3, <1>4, <1>5

LEMMA NoneIsNoRow ==
    /\ None \notin Rows /\ None.says = "none" /\ None.code = 0
    /\ \A row \in Rows : row.says # "none" /\ row # None
<1>1. None.says = "none" /\ None.code = 0
  BY DEF None
<1>2. \A row \in Rows : row.says \in Said /\ row.says # "none"
  BY DEF Rows, Said
<1> QED
  BY <1>1, <1>2

LEMMA PlayersAreSlots ==
    ASSUME TypeOK
    PROVE  Players \subseteq Slots /\ Len(targets) \in Nat
BY GroupAssumption DEF TypeOK, Players, Slots

\* A player whose state a step leaves alone is followed as before.
LEMMA OthersFollowed ==
    ASSUME NEW u \in Slots, Following(u), command' = command,
           pc'[u] = pc[u], step'[u] = step[u], thread'[u] = thread[u], box'[u] = box[u],
           future'[u] = future[u], outcome'[u] = outcome[u],
           main = "reported" => main' = "reported"
    PROVE  Following(u)'
<1>1. Running(u)'
  BY DEF Following, Running
<1>2. Sending(u)'
  BY DEF Following, Sending
<1>3. Claims(u, outcome[u])'
  BY DEF Following, Telling, Claims
<1>4. Telling(u)'
  BY <1>3 DEF Following, Telling
<1> QED
  BY <1>1, <1>2, <1>4 DEF Following

\* What a row claims still holds after more has arrived, been sent or answered.
LEMMA ClaimsLast ==
    ASSUME Typed, NEW t \in Slots, NEW row \in Rows \cup {None}, Claims(t, row), Sending(t),
           command' = command,
           \A s \in Calls :
             /\ thread[t][s] \notin {"started", "open"} => thread'[t][s] = thread[t][s]
             /\ box'[t][s] = box[t][s]
                \/ thread[t][s] = "open" \/ box[t][s] = "queued"
    PROVE  Claims(t, row)'
<1>1. Len(Script(command)) \in Calls
  BY Scripts
<1>2. \A s \in Calls : thread[t][s] \in {"none", "refused"} => thread'[t][s] = thread[t][s]
  OBVIOUS
<1>3. \A s \in Calls : box[t][s] \in {"ok", "rejected"} => box'[t][s] = box[t][s]
  BY DEF Sending
<1>4. row.says = "not_started" => \A s \in Calls : thread'[t][s] = "none"
  BY <1>2 DEF Claims
<1>5. row.says = "not_requested" => thread'[t][Len(Script(command'))] = "none"
  BY <1>1, <1>2 DEF Claims
<1>6. row.says = "refused" =>
        row.at \in Calls /\ \A s \in Calls : s >= row.at => thread'[t][s] \in {"none", "refused"}
  BY <1>2 DEF Claims
<1>7. row.says = "rejected" =>
        /\ row.at \in Calls /\ box'[t][row.at] = "rejected"
        /\ \A s \in Calls : s > row.at => thread'[t][s] = "none"
  BY <1>2, <1>3 DEF Claims
<1>8. ASSUME row.says \in {"done", "partial"}, NEW s \in 1 .. Len(Script(command'))
      PROVE  box'[t][s] = "ok"
  <2>1. s \in 1 .. Len(Script(command))
    BY <1>8
  <2>2. s \in Calls
    <3>1. \A n \in Calls : 1 .. n \subseteq Calls
      BY DEF Calls
    <3> QED
      BY <1>1, <2>1, <3>1
  <2>3. box[t][s] = "ok"
    BY <1>8, <2>1 DEF Claims
  <2> QED
    BY <1>3, <2>2, <2>3
<1> QED
  BY <1>4, <1>5, <1>6, <1>7, <1>8 DEF Claims
-----------------------------------------------------------------------------
(* The main thread                                                         *)

LEMMA MembersType ==
    ASSUME NEW word \in Words
    PROVE  Members(word) \in Seq(Words)
BY GroupAssumption DEF Members

LEMMA ResolveType ==
    ASSUME TypeOK, Resolving, Resolve, Pool
    PROVE  /\ words' \in Seq(Words) /\ expanded' \in Seq(Words)
           /\ targets' \in Seq({Device[x] : x \in Names}) /\ Len(targets') <= MaxTargets
           /\ main' \in {"resolve", "refused", "submit"} /\ exit' \in {exit, 1}
           /\ Resolving'
<1>1. /\ words \in Seq(Words) /\ expanded \in Seq(Words)
      /\ targets \in Seq({Device[x] : x \in Names})
      /\ Len(targets) \in Nat /\ Len(expanded) \in Nat /\ MaxTargets \in Nat
      /\ Len(targets) + Len(expanded) <= MaxTargets
      /\ words # <<>> => targets = <<>>
      /\ \A t, u \in 1 .. Len(targets) : targets[t] = targets[u] => t = u
  BY GroupAssumption DEF TypeOK, Resolving, Players
<1>2. CASE Refuse
  <2>1. UNCHANGED <<words, expanded, targets>> /\ main' = "refused" /\ exit' = 1
    BY <1>2 DEF Refuse
  <2>2. Resolving'
    BY <1>1, <2>1 DEF Resolving, Players
  <2> QED
    BY <1>1, <2>1, <2>2
<1>3. CASE Expand
  <2> DEFINE more == expanded \o Members(Head(words))
  <2>1. /\ words # <<>> /\ expanded' = more /\ Len(more) <= MaxTargets
        /\ words' = Tail(words) /\ targets' = targets /\ main' = "resolve" /\ exit' = exit
    BY <1>3 DEF Expand
  <2>2. Head(words) \in Words /\ Tail(words) \in Seq(Words)
    BY <1>1, <2>1
  <2>3. more \in Seq(Words) /\ Len(more) \in Nat
    BY <1>1, <2>2, MembersType
  <2> HIDE DEF more
  <2>4. targets = <<>> /\ Len(targets) = 0
    BY <1>1, <2>1
  <2>5. Resolving'
    BY <1>1, <2>1, <2>3, <2>4 DEF Resolving, Players
  <2> QED
    BY <1>1, <2>1, <2>2, <2>3, <2>4, <2>5
<1>4. CASE ResolveName
  <2> DEFINE device == Device[Head(expanded)]
             D == {Device[x] : x \in Names}
  <2>1. /\ words = <<>> /\ words' = words /\ expanded # <<>> /\ expanded' = Tail(expanded)
        /\ main' = "resolve" /\ exit' = exit /\ Head(expanded) \in Names
        /\ targets' = IF Seen(device) THEN targets ELSE Append(targets, device)
    BY <1>4 DEF ResolveName
  <2>2. Tail(expanded) \in Seq(Words) /\ Len(Tail(expanded)) = Len(expanded) - 1
    BY <1>1, <2>1
  <2>3. device \in D
    BY <2>1
  <2> HIDE DEF D
  <2>4. CASE Seen(device)
    <3>1. targets' = targets
      BY <2>1, <2>4
    <3>2. Resolving'
      BY <1>1, <2>1, <2>2, <3>1 DEF Resolving, Players
    <3> QED
      BY <1>1, <2>1, <2>2, <3>1, <3>2
  <2>5. CASE ~Seen(device)
    <3> HIDE DEF device
    <3>1. /\ targets' = Append(targets, device) /\ targets \in Seq(D)
          /\ \A t \in 1 .. Len(targets) : targets[t] # device
      BY <1>1, <2>1, <2>5 DEF Seen, D, Players
    <3>2. /\ targets' \in Seq(D) /\ Len(targets') = Len(targets) + 1
          /\ targets'[Len(targets) + 1] = device
          /\ \A t \in 1 .. Len(targets) : targets'[t] = targets[t]
      BY <1>1, <2>3, <3>1
    <3>3. \A t, u \in 1 .. Len(targets') : targets'[t] = targets'[u] => t = u
      <4>1. \A t \in 1 .. Len(targets') : t \in 1 .. Len(targets) \/ t = Len(targets) + 1
        BY <1>1, <3>2
      <4> QED
        BY <1>1, <3>1, <3>2, <4>1
    <3>4. Len(targets') + Len(expanded') <= MaxTargets
      BY <1>1, <2>1, <2>2, <3>2
    <3>5. Len(targets') <= MaxTargets
      BY <1>1, <2>1, <2>2, <3>2, <3>4
    <3>6. Resolving'
      BY <2>1, <3>3, <3>4 DEF Resolving, Players
    <3> QED
      BY <1>1, <2>1, <2>2, <3>2, <3>5, <3>6 DEF D
  <2> QED
    BY <2>4, <2>5
<1>5. CASE Dispatch
  <2>1. UNCHANGED <<words, expanded, targets, exit>> /\ main' = "submit"
    BY <1>5 DEF Dispatch
  <2>2. Resolving'
    BY <1>1, <2>1 DEF Resolving, Players
  <2> QED
    BY <1>1, <2>1, <2>2
<1> QED
  BY <1>2, <1>3, <1>4, <1>5 DEF Resolve

LEMMA ResolveStep ==
    ASSUME IInv, Resolve
    PROVE  IInv'
<1>1. /\ main = "resolve" /\ UNCHANGED resolution
  BY DEF Resolve, Refuse, Expand, ResolveName, Dispatch
<1>2. /\ UNCHANGED <<command, next, tracked, reported, cancelled, future, outcome>>
      /\ UNCHANGED <<room, pc, step, thread, box>>
  BY <1>1 DEF resolution, jobs
<1>3. /\ words' \in Seq(Words) /\ expanded' \in Seq(Words)
      /\ targets' \in Seq({Device[x] : x \in Names}) /\ Len(targets') <= MaxTargets
      /\ main' \in {"resolve", "refused", "submit"} /\ exit' \in {exit, 1}
      /\ Resolving'
  BY ResolveType DEF IInv, Typed
<1>4. next = 1 /\ tracked = {} /\ reported = {} /\ \A t \in Slots : future[t] = "none"
  BY <1>1 DEF IInv, Pool
<1>5. TypeOK'
  BY <1>2, <1>3, <1>4 DEF IInv, Typed, TypeOK, Codes
<1>6. Typed'
  BY <1>2, <1>5 DEF IInv, Typed
<1>7. Pool'
  BY <1>2, <1>3, <1>4 DEF Pool
<1>8. \A u \in Slots : Following(u)'
  BY <1>1, <1>2, OthersFollowed DEF IInv
<1> QED
  BY <1>3, <1>6, <1>7, <1>8 DEF IInv

\* Steps of the main thread that leave what is resolved and the jobs alone.
LEMMA ResolvingSame ==
    ASSUME Resolving, UNCHANGED asked
    PROVE  Resolving'
BY DEF Resolving, asked, Players

\* A player that is idle has no row before it is reported.
LEMMA IdleFollowed ==
    ASSUME IInv, NEW t \in Slots, main # "reported", future[t] \in {"none", "queued"},
           UNCHANGED <<command, outcome, pc, step, thread, box>>,
           future'[t] \in {"queued", "cancelled"}
    PROVE  Following(t)'
<1>1. Following(t) /\ pc[t] \in {"idle", "start", "call", "posting", "receipt", "end"}
  BY DEF IInv, Typed, TypeOK
<1>2. pc[t] = "idle"
  BY <1>1 DEF Following, Running, AtWork
<1>3. outcome[t] = None
  BY <1>1, <1>2 DEF Following, Telling
<1>4. Running(t)'
  BY <1>2 DEF Running, AtWork
<1>5. Sending(t)'
  BY <1>1 DEF Following, Sending
<1>6. Claims(t, outcome[t])'
  BY <1>1 DEF Following, Telling, Claims
<1> QED
  BY <1>2, <1>3, <1>4, <1>5, <1>6 DEF Following, Telling, AtWork

LEMMA SubmitStep ==
    ASSUME IInv, Submit
    PROVE  IInv'
<1>1. /\ main = "submit" /\ UNCHANGED <<asked, reported, exit, interrupts, cancelled, outcome, jobs>>
      /\ \/ main' = "wait" /\ UNCHANGED <<next, future, tracked>>
         \/ /\ next \in Players /\ main' = main /\ next' = next + 1
            /\ future' = [future EXCEPT ![next] = "queued"]
            /\ tracked' = tracked \cup {next}
  BY DEF Submit, IInv, Typed, TypeOK, Players
<1>2. /\ UNCHANGED <<command, words, expanded, targets>>
      /\ UNCHANGED <<room, pc, step, thread, box>>
  BY <1>1 DEF asked, jobs
<1>3. Resolving'
  BY <1>1, ResolvingSame DEF IInv
<1>4. Players \subseteq Slots /\ Players' = Players /\ Len(targets) \in Nat /\ Len(targets) <= MaxTargets
  BY <1>2, PlayersAreSlots DEF IInv, Typed, Players, TypeOK
<1>5. CASE main' = "wait" /\ UNCHANGED <<next, future, tracked>>
  <2>1. Typed'
    BY <1>1, <1>2, <1>4, <1>5 DEF IInv, Typed, TypeOK
  <2>2. Pool'
    BY <1>1, <1>2, <1>4, <1>5 DEF IInv, Pool
  <2>3. \A u \in Slots : Following(u)'
    BY <1>1, <1>2, <1>5, OthersFollowed DEF IInv
  <2> QED
    BY <1>3, <2>1, <2>2, <2>3 DEF IInv
<1>6. CASE /\ next \in Players /\ main' = main /\ next' = next + 1
           /\ future' = [future EXCEPT ![next] = "queued"]
           /\ tracked' = tracked \cup {next}
  <2>1. /\ next \in Slots /\ future'[next] = "queued" /\ future[next] = "none"
        /\ \A u \in Slots \ {next} : future'[u] = future[u]
    BY <1>1, <1>4, <1>6 DEF IInv, Pool, Typed, TypeOK
  <2>2. next' \in 1 .. MaxTargets + 1
    BY <1>4, <1>6, GroupAssumption DEF Players
  <2>3. Typed'
    BY <1>1, <1>2, <1>4, <1>6, <2>2 DEF IInv, Typed, TypeOK
  <2>4. Pool'
    <3>1. \A t \in Slots : t >= next' => t >= next /\ t # next
      BY <1>6, <2>1 DEF Slots
    <3> QED
      BY <1>1, <1>4, <1>6, <2>1, <3>1 DEF IInv, Pool
  <2>5. \A u \in Slots : Following(u)'
    <3>1. ASSUME NEW u \in Slots, u = next PROVE Following(u)'
      BY <1>1, <1>2, <2>1, <3>1, IdleFollowed
    <3>2. ASSUME NEW u \in Slots, u # next PROVE Following(u)'
      BY <1>1, <1>2, <1>6, <2>1, <3>2, OthersFollowed DEF IInv
    <3> QED
      BY <3>1, <3>2
  <2> QED
    BY <1>3, <2>3, <2>4, <2>5 DEF IInv
<1> QED
  BY <1>1, <1>5, <1>6
LEMMA InterruptSubmitStep ==
    ASSUME IInv, NEW lost \in BOOLEAN, InterruptSubmit(lost)
    PROVE  IInv'
<1>1. /\ main = "submit" /\ main' = "wait" /\ cancelled' = TRUE
      /\ UNCHANGED <<asked, next, tracked, reported, exit, outcome, jobs>>
      /\ \/ UNCHANGED future
         \/ next \in Players /\ future' = [future EXCEPT ![next] = "queued"]
  BY DEF InterruptSubmit, IInv, Typed, TypeOK, Players
<1>2. /\ UNCHANGED <<command, words, expanded, targets>>
      /\ UNCHANGED <<room, pc, step, thread, box>>
  BY <1>1 DEF asked, jobs
<1>3. Resolving'
  BY <1>1, ResolvingSame DEF IInv
<1>4. Players \subseteq Slots /\ Players' = Players
  BY <1>2, PlayersAreSlots DEF IInv, Typed, Players
<1>5. CASE UNCHANGED future
  <2>1. Typed'
    BY <1>1, <1>2, <1>4, <1>5 DEF IInv, Typed, TypeOK
  <2>2. Pool'
    BY <1>1, <1>2, <1>4, <1>5 DEF IInv, Pool
  <2>3. \A u \in Slots : Following(u)'
    BY <1>1, <1>2, <1>5, OthersFollowed DEF IInv
  <2> QED
    BY <1>3, <2>1, <2>2, <2>3 DEF IInv
<1>6. CASE next \in Players /\ future' = [future EXCEPT ![next] = "queued"]
  <2>1. /\ next \in Slots /\ future'[next] = "queued" /\ future[next] = "none"
        /\ \A u \in Slots \ {next} : future'[u] = future[u]
    BY <1>1, <1>4, <1>6 DEF IInv, Pool, Typed, TypeOK, Slots
  <2>2. Typed'
    BY <1>1, <1>2, <1>4, <1>6 DEF IInv, Typed, TypeOK
  <2>3. Pool'
    BY <1>1, <1>2, <1>4, <1>6, <2>1 DEF IInv, Pool
  <2>4. \A u \in Slots : Following(u)'
    <3>1. ASSUME NEW u \in Slots, u = next PROVE Following(u)'
      BY <1>1, <1>2, <2>1, <3>1, IdleFollowed
    <3>2. ASSUME NEW u \in Slots, u # next PROVE Following(u)'
      BY <1>1, <1>2, <1>6, <2>1, <3>2, OthersFollowed DEF IInv
    <3> QED
      BY <3>1, <3>2
  <2> QED
    BY <1>3, <2>2, <2>3, <2>4 DEF IInv
<1> QED
  BY <1>1, <1>5, <1>6

\* The main thread moves on, or takes an interrupt, and touches no job.
LEMMA Onward ==
    ASSUME IInv, UNCHANGED <<asked, next, reported, future, outcome, jobs>>,
           main \in {"wait", "closing"}, main' \in {"wait", "closing", "aborted"},
           tracked' = tracked, exit' \in {exit, 130}, cancelled' \in BOOLEAN
    PROVE  IInv'
<1>1. /\ UNCHANGED <<command, words, expanded, targets>>
      /\ UNCHANGED <<room, pc, step, thread, box>>
  BY DEF asked, jobs
<1>2. Resolving'
  BY ResolvingSame DEF IInv
<1>3. Players' = Players
  BY <1>1 DEF Players
<1>4. Typed'
  BY <1>1, <1>3 DEF IInv, Typed, TypeOK, Codes
<1>5. Pool'
  BY <1>1, <1>3 DEF IInv, Pool
<1>6. \A u \in Slots : Following(u)'
  BY <1>1, OthersFollowed DEF IInv
<1> QED
  BY <1>2, <1>4, <1>5, <1>6 DEF IInv

\* Of a player whose job never began it is true that nothing was sent to it.
LEMMA NotStartedTrue ==
    ASSUME NEW t \in Slots, Sending(t), pc[t] \in {"idle", "start"}
    PROVE  /\ NotStarted \in Rows /\ NotStarted # None /\ NotStarted.says = "not_started"
           /\ Claims(t, NotStarted)
<1>1. /\ NotStarted.says = "not_started" /\ NotStarted.at = 0 /\ NotStarted.code = 130
      /\ NotStarted \in Rows
  BY DEF NotStarted, Row, Rows, Said, Codes
<1>2. \A s \in Calls : thread[t][s] = "none"
  BY DEF Sending, Calls
<1>3. Claims(t, NotStarted)
  BY <1>1, <1>2 DEF Claims
<1> QED
  BY <1>1, <1>3, NoneIsNoRow

LEMMA CollectStep ==
    ASSUME IInv, NEW t \in Players, Collect(t)
    PROVE  IInv'
<1>1. /\ main = "wait" /\ t \in tracked /\ future[t] \in {"done", "skipped"}
      /\ outcome' = [outcome EXCEPT ![t] = Collected(t)]
      /\ reported' = reported \cup {t} /\ tracked' = tracked \ {t}
      /\ UNCHANGED <<command, words, expanded, targets>>
      /\ UNCHANGED <<main, next, exit, cancelled, future, room, pc, step, thread, box>>
  BY DEF Collect, asked, jobs
<1>2. Resolving'
  BY <1>1, ResolvingSame DEF IInv, asked
<1>3. t \in Slots /\ Players' = Players
  BY <1>1, PlayersAreSlots DEF IInv, Typed, Players
<1>4. CASE future[t] = "done"
  <2>1. outcome' = outcome
    BY <1>1, <1>3, <1>4 DEF Collected, IInv, Typed
  <2>2. Typed'
    BY <1>1, <1>3, <2>1 DEF IInv, Typed, TypeOK
  <2>3. Pool'
    BY <1>1, <1>3, <2>1 DEF IInv, Pool
  <2>4. \A u \in Slots : Following(u)'
    BY <1>1, <2>1, OthersFollowed DEF IInv
  <2> QED
    BY <1>2, <2>2, <2>3, <2>4 DEF IInv
<1>5. CASE future[t] = "skipped"
  <2>1. Following(t) /\ pc[t] \in {"idle", "start", "call", "posting", "receipt", "end"}
    BY <1>3 DEF IInv, Typed, TypeOK
  <2>2. pc[t] = "idle"
    BY <1>5, <2>1 DEF Following, Running, AtWork
  <2>3. /\ NotStarted \in Rows /\ NotStarted # None /\ NotStarted.says = "not_started"
        /\ Claims(t, NotStarted)
    BY <1>3, <2>1, <2>2, NotStartedTrue DEF Following
  <2>4. /\ outcome' = [outcome EXCEPT ![t] = NotStarted] /\ outcome'[t] = NotStarted
        /\ \A u \in Slots \ {t} : outcome'[u] = outcome[u]
    BY <1>1, <1>3, <1>5 DEF Collected, IInv, Typed
  <2>5. Typed'
    BY <1>1, <1>3, <2>3, <2>4 DEF IInv, Typed, TypeOK
  <2>6. Pool'
    BY <1>1, <1>3 DEF IInv, Pool
  <2>7. Following(t)'
    <3>1. Running(t)' /\ Sending(t)'
      BY <1>1, <2>1 DEF Following, Running, Sending
    <3>2. Claims(t, outcome[t])'
      BY <1>1, <2>3, <2>4 DEF Claims
    <3> QED
      BY <1>1, <1>5, <2>2, <2>3, <2>4, <3>1, <3>2 DEF Following, Telling, AtWork
  <2>8. ASSUME NEW u \in Slots, u # t PROVE Following(u)'
    BY <1>1, <2>4, <2>8, OthersFollowed DEF IInv
  <2> QED
    BY <1>2, <2>5, <2>6, <2>7, <2>8 DEF IInv
<1> QED
  BY <1>1, <1>4, <1>5

LEMMA CancelPendingStep ==
    ASSUME IInv, CancelPending
    PROVE  IInv'
<1>1. /\ main = "wait" /\ UNCHANGED <<asked, main, next, tracked, reported, exit>>
      /\ UNCHANGED <<cancelled, outcome, jobs>>
      /\ future' = [t \in Slots |-> IF t \in tracked /\ future[t] = "queued"
                                      THEN "cancelled" ELSE future[t]]
  BY DEF CancelPending, host
<1>2. /\ UNCHANGED <<command, words, expanded, targets>>
      /\ UNCHANGED <<room, pc, step, thread, box>>
  BY <1>1 DEF asked, jobs
<1>3. Resolving'
  BY <1>1, ResolvingSame DEF IInv
<1>4. Players' = Players
  BY <1>2 DEF Players
<1>5. \A u \in Slots : \/ future'[u] = future[u]
                       \/ future[u] = "queued" /\ future'[u] = "cancelled"
  BY <1>1
<1>6. Typed'
  BY <1>1, <1>2, <1>4, <1>5 DEF IInv, Typed, TypeOK
<1>7. Pool'
  BY <1>1, <1>2, <1>4, <1>5 DEF IInv, Pool
<1>8. ASSUME NEW u \in Slots PROVE Following(u)'
  <2>1. CASE future'[u] = future[u]
    BY <1>1, <1>2, <2>1, OthersFollowed DEF IInv
  <2>2. CASE future[u] = "queued" /\ future'[u] = "cancelled"
    BY <1>1, <1>2, <2>2, IdleFollowed
  <2> QED
    BY <1>5, <2>1, <2>2
<1> QED
  BY <1>3, <1>6, <1>7, <1>8 DEF IInv

LEMMA ReportStep ==
    ASSUME IInv, Report
    PROVE  IInv'
<1> DEFINE rows == Filled(outcome)
<1>1. /\ main = "closing" /\ main' = "reported"
      /\ \A t \in Players : future[t] \notin {"queued", "cancelled", "running"}
      /\ outcome' = rows /\ reported' = Players /\ exit' = ExitCode(rows)
      /\ UNCHANGED <<command, words, expanded, targets>>
      /\ UNCHANGED <<next, tracked, cancelled, future, room, pc, step, thread, box>>
  BY DEF Report, asked, jobs
<1>2. Resolving'
  BY <1>1, ResolvingSame DEF IInv, asked
<1>3. Players \subseteq Slots /\ Players' = Players
  BY <1>1, PlayersAreSlots DEF IInv, Typed, Players
<1>4. ASSUME NEW t \in Slots
      PROVE  \/ t \in Players /\ outcome[t] = None /\ pc[t] = "idle" /\ rows[t] = NotStarted
             \/ (t \in Players => outcome[t] # None) /\ rows[t] = outcome[t]
  <2>1. rows[t] = IF t \in Players /\ outcome[t] = None THEN NotStarted ELSE outcome[t]
    BY DEF Filled
  <2>2. Following(t) /\ pc[t] \in {"idle", "start", "call", "posting", "receipt", "end"}
    BY DEF IInv, Typed, TypeOK
  <2>3. t \in Players /\ outcome[t] = None => pc[t] = "idle"
    BY <1>1, <2>2 DEF Following, Running, Telling, AtWork
  <2> QED
    BY <2>1, <2>3
<1>5. ASSUME NEW t \in Slots
      PROVE  /\ rows[t] \in Rows \cup {None} /\ (t \in Players => rows[t] \in Rows)
             /\ Claims(t, rows[t])
  <2>1. Following(t) /\ outcome[t] \in Rows \cup {None}
    BY DEF IInv, Typed
  <2> HIDE DEF rows
  <2>2. CASE t \in Players /\ outcome[t] = None /\ pc[t] = "idle" /\ rows[t] = NotStarted
    BY <2>1, <2>2, NotStartedTrue DEF Following
  <2>3. CASE (t \in Players => outcome[t] # None) /\ rows[t] = outcome[t]
    BY <2>1, <2>3 DEF Following, Telling
  <2> QED
    BY <1>4, <2>2, <2>3
<1>6. rows \in [Slots -> Rows \cup {None}]
  BY <1>5 DEF Filled
<1>7. exit' \in Codes /\ (exit' = 0 => \A t \in Players : rows[t].code = 0)
  <2> HIDE DEF rows
  <2>1. \A t \in Players : rows[t].code \in Codes
    BY <1>3, <1>5 DEF Rows
  <2> DEFINE codes == {rows[t].code : t \in Players}
  <2>2. exit' = IF cancelled THEN 130
                ELSE IF \E c \in {1, 2, 3} : c \in codes
                THEN CHOOSE c \in {1, 2, 3} : c \in codes /\ \A d \in {1, 2, 3} \cap codes : c <= d
                ELSE IF \A t \in Players : rows[t].code = 0 THEN 0 ELSE 1
    BY <1>1 DEF ExitCode
  <2>3. codes \subseteq Codes
    BY <2>1
  <2> HIDE DEF codes
  <2>4. ASSUME \E c \in {1, 2, 3} : c \in codes
        PROVE  \E c \in {1, 2, 3} : c \in codes /\ \A d \in {1, 2, 3} \cap codes : c <= d
    <3>1. CASE 1 \in codes
      BY <3>1
    <3>2. CASE 1 \notin codes /\ 2 \in codes
      BY <3>2
    <3>3. CASE 1 \notin codes /\ 2 \notin codes
      BY <2>4, <3>3
    <3> QED
      BY <3>1, <3>2, <3>3
  <2>5. CASE ~cancelled /\ \E c \in {1, 2, 3} : c \in codes
    <3> DEFINE least == CHOOSE c \in {1, 2, 3} : c \in codes /\ \A d \in {1, 2, 3} \cap codes : c <= d
    <3>1. exit' = least
      BY <2>2, <2>5
    <3>2. least \in {1, 2, 3} /\ least \in codes
      BY <2>4, <2>5
    <3> HIDE DEF least
    <3> QED
      BY <2>3, <3>1, <3>2 DEF Codes
  <2>6. CASE cancelled \/ ~\E c \in {1, 2, 3} : c \in codes
    BY <2>2, <2>6 DEF Codes
  <2> QED
    BY <2>5, <2>6 DEF IInv, Typed, TypeOK
<1> HIDE DEF rows
<1>8. Typed'
  BY <1>1, <1>3, <1>6, <1>7 DEF IInv, Typed, TypeOK
<1>9. Pool'
  <2>1. \A t \in Players : future'[t] \in {"none", "done", "skipped"}
    BY <1>1, <1>3 DEF IInv, Typed, TypeOK
  <2>2. ASSUME exit' = 0, NEW t \in Players PROVE outcome'[t].says = "done"
    <3>1. t \in Slots /\ rows[t] \in Rows /\ rows[t].code = 0 /\ Claims(t, rows[t])
      BY <1>3, <1>5, <1>7, <2>2
    <3>2. rows[t].says \in {"none", "done"}
      BY <3>1 DEF Claims
    <3> QED
      BY <1>1, <3>1, <3>2, NoneIsNoRow
  <2> QED
    BY <1>1, <1>3, <2>1, <2>2 DEF IInv, Pool
<1>10. ASSUME NEW t \in Slots PROVE Following(t)'
  <2>1. Following(t) /\ outcome[t] \in Rows \cup {None}
    BY DEF IInv, Typed
  <2>2. Running(t)' /\ Sending(t)'
    BY <1>1, <2>1 DEF Following, Running, Sending
  <2>3. Claims(t, outcome[t])'
    <3>1. Claims(t, rows[t])
      BY <1>5
    <3> QED
      BY <1>1, <3>1 DEF Claims
  <2>4. CASE t \in Players /\ outcome[t] = None /\ pc[t] = "idle" /\ rows[t] = NotStarted
    <3>1. NotStarted # None /\ NotStarted.says = "not_started"
      BY <2>1, <2>4, NotStartedTrue DEF Following
    <3> QED
      BY <1>1, <2>2, <2>3, <2>4, <3>1 DEF Following, Telling, AtWork
  <2>5. CASE (t \in Players => outcome[t] # None) /\ rows[t] = outcome[t]
    BY <1>1, <2>1, <2>2, <2>3, <2>5 DEF Following, Telling
  <2> QED
    BY <1>4, <2>4, <2>5
<1> QED
  BY <1>2, <1>8, <1>9, <1>10 DEF IInv

LEMMA MainSteps ==
    ASSUME IInv, MainStep
    PROVE  IInv'
<1>1. CASE Resolve
  BY <1>1, ResolveStep
<1>2. CASE Submit
  BY <1>2, SubmitStep
<1>3. CASE \E lost \in BOOLEAN : InterruptSubmit(lost)
  BY <1>3, InterruptSubmitStep
<1>4. CASE InterruptWait
  BY <1>4, Onward DEF InterruptWait
<1>5. CASE \E t \in Players : Collect(t)
  BY <1>5, CollectStep
<1>6. CASE CancelPending
  BY <1>6, CancelPendingStep
<1>7. CASE Leave
  <2>1. cancelled' \in BOOLEAN
    BY <1>7 DEF Leave, IInv, Typed, TypeOK
  <2> QED
    BY <1>7, <2>1, Onward DEF Leave
<1>8. CASE Report
  BY <1>8, ReportStep
<1>9. CASE Abort
  <2>1. cancelled' \in BOOLEAN
    BY <1>9 DEF Abort, IInv, Typed, TypeOK
  <2> QED
    BY <1>9, <2>1, Onward DEF Abort
<1> QED
  BY <1>1, <1>2, <1>3, <1>4, <1>5, <1>6, <1>7, <1>8, <1>9 DEF MainStep

-----------------------------------------------------------------------------
(* Workers and calls                                                       *)

\* A step of one player's job, or of one of its posts, on its way or arrived.
LEMMA OnePlayer ==
    ASSUME IInv, NEW t \in Slots, UNCHANGED host, Typed', Following(t)',
           \A u \in Slots \ {t} :
             /\ pc'[u] = pc[u] /\ step'[u] = step[u] /\ thread'[u] = thread[u]
             /\ box'[u] = box[u] /\ future'[u] = future[u] /\ outcome'[u] = outcome[u],
           \/ future'[t] = future[t] /\ outcome'[t] = outcome[t]
           \/ future[t] \in {"queued", "cancelled", "running"} /\ future'[t] # "none"
    PROVE  IInv'
<1>1. /\ UNCHANGED <<command, words, expanded, targets>>
      /\ UNCHANGED <<main, next, tracked, reported, exit>>
  BY DEF host, asked
<1>2. Resolving'
  BY <1>1, ResolvingSame DEF IInv, asked
<1>3. Players' = Players /\ Players \subseteq Slots
  BY <1>1, PlayersAreSlots DEF Players, IInv, Typed
<1>4. Pool'
  <2>1. CASE future'[t] = future[t] /\ outcome'[t] = outcome[t]
    <3>1. \A u \in Slots : future'[u] = future[u] /\ outcome'[u] = outcome[u]
      BY <2>1
    <3> QED
      BY <1>1, <1>3, <3>1 DEF IInv, Pool
  <2>2. CASE future[t] \in {"queued", "cancelled", "running"} /\ future'[t] # "none"
    <3>1. t \in Players /\ main \notin {"resolve", "refused", "reported"}
      BY <2>2 DEF IInv, Pool
    <3>2. main = "submit" => ~(t >= next)
      BY <2>2 DEF IInv, Pool
    <3> QED
      BY <1>1, <1>3, <2>2, <3>1, <3>2 DEF IInv, Pool
  <2> QED
    BY <2>1, <2>2
<1>5. \A u \in Slots \ {t} : Following(u)'
  BY <1>1, OthersFollowed DEF IInv
<1> QED
  BY <1>2, <1>4, <1>5 DEF IInv

\* A job that waits for its turn has no row.
LEMMA QueuedFacts ==
    ASSUME IInv, NEW t \in Slots, future[t] \in {"queued", "cancelled"}
    PROVE  pc[t] = "idle" /\ outcome[t] = None
<1>1. Following(t) /\ pc[t] \in {"idle", "start", "call", "posting", "receipt", "end"}
  BY DEF IInv, Typed, TypeOK
<1>2. pc[t] = "idle"
  BY <1>1 DEF Following, Running, AtWork
<1>3. main # "reported"
  BY DEF IInv, Pool
<1> QED
  BY <1>1, <1>2, <1>3 DEF Following, Telling

LEMMA NoRowClaims ==
    ASSUME NEW t \in Slots
    PROVE  Claims(t, None)
<1>1. None.says = "none" /\ None.code = 0
  BY NoneIsNoRow
<1> QED
  BY <1>1 DEF Claims

LEMMA TakeStep ==
    ASSUME IInv, NEW t \in Slots, Take(t)
    PROVE  IInv'
<1>1. /\ future[t] \in {"queued", "cancelled"}
      /\ UNCHANGED host /\ UNCHANGED <<cancelled, outcome, room, step, thread, box>>
      /\ \/ future' = [future EXCEPT ![t] = "skipped"] /\ pc' = pc
         \/ /\ future' = [future EXCEPT ![t] = "running"]
            /\ pc' = [pc EXCEPT ![t] = "start"]
  BY DEF Take
<1>2. UNCHANGED <<command, words, expanded, targets, main, next, tracked, reported, exit>>
  BY <1>1 DEF host, asked
<1>3. pc[t] = "idle" /\ outcome[t] = None /\ Following(t)
  BY <1>1, QueuedFacts DEF IInv
<1>4. \/ future'[t] = "skipped" /\ pc'[t] = "idle"
      \/ future'[t] = "running" /\ pc'[t] = "start"
  BY <1>1, <1>3 DEF IInv, Typed, TypeOK
<1>5. Players' = Players
  BY <1>2 DEF Players
<1>6. Typed'
  BY <1>1, <1>2, <1>5 DEF IInv, Typed, TypeOK
<1>7. Running(t)'
  BY <1>4 DEF Running, AtWork
<1>8. Sending(t)'
  BY <1>1, <1>2, <1>3, <1>4 DEF Following, Sending
<1>9. Claims(t, outcome[t])'
  BY <1>1, <1>2, <1>3 DEF Following, Telling, Claims
<1>10. Telling(t)'
  BY <1>1, <1>3, <1>4, <1>9 DEF Telling, AtWork
<1>11. \A u \in Slots \ {t} : pc'[u] = pc[u] /\ future'[u] = future[u]
  BY <1>1 DEF IInv, Typed, TypeOK
<1> QED
  BY <1>1, <1>4, <1>6, <1>7, <1>8, <1>10, <1>11, OnePlayer DEF Following

\* What is known of a job at work.
LEMMA WorkingFacts ==
    ASSUME IInv, NEW t \in Slots, pc[t] \in AtWork
    PROVE  /\ future[t] = "running" /\ outcome[t] = None /\ main # "reported"
           /\ Following(t) /\ step[t] \in Calls /\ Len(Script(command)) \in Calls
<1>1. Following(t) /\ step[t] \in Calls /\ Len(Script(command)) \in Calls
  BY Scripts DEF IInv, Typed, TypeOK
<1>2. future[t] = "running" /\ outcome[t] = None
  BY <1>1 DEF Following, Running, Telling
<1>3. main # "reported"
  BY <1>2 DEF IInv, Pool
<1> QED
  BY <1>1, <1>2, <1>3

\* A job ends with a row that is true, or with one that says less.
LEMMA FinishStep ==
    ASSUME IInv, NEW t \in Slots, NEW row \in Rows, pc[t] \in AtWork,
           Claims(t, row), Finish(t, row), UNCHANGED <<host, step, thread, box>>
    PROVE  IInv'
<1> DEFINE lesser == Row("incomplete", row.at, IF row.code = 130 THEN 130 ELSE 1)
<1>1. PICK o \in 0 .. MaxOutput :
        /\ room' = Retain(o, room)
        /\ outcome' = [outcome EXCEPT ![t] = IF o > room THEN lesser ELSE row]
        /\ future' = [future EXCEPT ![t] = "done"]
        /\ pc' = [pc EXCEPT ![t] = "end"]
        /\ cancelled' = (cancelled \/ row.code = 130)
  BY DEF Finish
<1>2. /\ row.at \in 0 .. 3 /\ lesser.says = "incomplete" /\ lesser.at = row.at
      /\ lesser.code = IF row.code = 130 THEN 130 ELSE 1
      /\ lesser = [says |-> "incomplete", at |-> row.at, code |-> lesser.code]
  BY DEF Row, Rows
<1>3. lesser.code \in Codes /\ lesser.code # 0
  BY <1>2 DEF Codes
<1> HIDE DEF lesser
<1>4. lesser \in Rows
  BY <1>2, <1>3 DEF Rows, Said
<1>5. Claims(t, lesser)
  BY <1>2, <1>3 DEF Claims
<1>6. outcome'[t] \in {lesser, row} /\ \A u \in Slots \ {t} : outcome'[u] = outcome[u]
  BY <1>1 DEF IInv, Typed
<1>7. UNCHANGED <<command, words, expanded, targets, main, next, tracked, reported, exit>>
  BY DEF host, asked
<1>8. /\ pc'[t] = "end" /\ future'[t] = "done"
      /\ \A u \in Slots \ {t} : pc'[u] = pc[u] /\ future'[u] = future[u]
  BY <1>1 DEF IInv, Typed, TypeOK
<1>9. room' \in 0 .. Room
  <2>1. room \in 0 .. Room /\ o \in Nat /\ Room \in Nat
    BY GroupAssumption DEF IInv, Typed, TypeOK
  <2> QED
    BY <1>1, <2>1 DEF Retain, Capped
<1>10. Typed'
  <2>1. outcome' \in [Slots -> Rows \cup {None}]
    BY <1>1, <1>4 DEF IInv, Typed
  <2>2. cancelled' \in BOOLEAN
    BY <1>1 DEF IInv, Typed, TypeOK
  <2>3. Players' = Players
    BY <1>7 DEF Players
  <2>4. /\ future' \in [Slots -> {"none", "queued", "cancelled", "running", "done", "skipped"}]
        /\ pc' \in [Slots -> {"idle", "start", "call", "posting", "receipt", "end"}]
    BY <1>1 DEF IInv, Typed, TypeOK
  <2>5. TypeOK'
    BY <1>7, <1>9, <2>2, <2>3, <2>4 DEF IInv, Typed, TypeOK
  <2> QED
    BY <1>7, <2>1, <2>5 DEF IInv, Typed
<1>11. Following(t) /\ future[t] = "running"
  BY WorkingFacts
<1>12. Running(t)'
  BY <1>8 DEF Running, AtWork
<1>13. Sending(t)'
  BY <1>7, <1>8, <1>11 DEF Following, Sending
<1>14. Claims(t, outcome[t])'
  <2>1. Claims(t, outcome'[t])
    BY <1>5, <1>6
  <2> QED
    BY <1>7, <2>1 DEF Claims
<1>15. outcome'[t] # None
  BY <1>4, <1>6, NoneIsNoRow
<1>16. Telling(t)'
  BY <1>8, <1>14, <1>15 DEF Telling, AtWork
<1> QED
  BY <1>6, <1>8, <1>10, <1>11, <1>12, <1>13, <1>16, OnePlayer DEF Following

LEMMA RowType ==
    ASSUME NEW says \in Said, NEW at \in Calls, NEW code \in Codes
    PROVE  /\ Row(says, at, code) \in Rows
           /\ Row(says, at, code).says = says
           /\ Row(says, at, code).at = at
           /\ Row(says, at, code).code = code
BY DEF Row, Rows, Calls

LEMMA BeginStep ==
    ASSUME IInv, NEW t \in Slots, Begin(t)
    PROVE  IInv'
<1>1. /\ pc[t] = "start" /\ UNCHANGED host /\ UNCHANGED <<cancelled, room, step, thread, box>>
      /\ \/ /\ outcome' = [outcome EXCEPT ![t] = NotStarted]
            /\ future' = [future EXCEPT ![t] = "done"] /\ pc' = [pc EXCEPT ![t] = "end"]
         \/ pc' = [pc EXCEPT ![t] = "call"] /\ UNCHANGED <<outcome, future>>
  BY DEF Begin, EndsUnstarted
<1>2. UNCHANGED <<command, words, expanded, targets, main, next, tracked, reported, exit>>
  BY <1>1 DEF host, asked
<1>3. Players' = Players
  BY <1>2 DEF Players
<1>4. Following(t) /\ future[t] = "running" /\ outcome[t] = None
  BY <1>1, WorkingFacts DEF AtWork
<1>5. NotStarted \in Rows /\ NotStarted # None /\ Claims(t, NotStarted)
  BY <1>1, <1>4, NotStartedTrue DEF Following
<1>6. Typed'
  BY <1>1, <1>2, <1>3, <1>5, ZenonT(60) DEF IInv, Typed, TypeOK
<1>7. \/ outcome'[t] = NotStarted /\ future'[t] = "done" /\ pc'[t] = "end"
      \/ outcome'[t] = None /\ future'[t] = "running" /\ pc'[t] = "call"
  BY <1>1, <1>4 DEF IInv, Typed, TypeOK
<1>8. \A u \in Slots \ {t} :
        pc'[u] = pc[u] /\ future'[u] = future[u] /\ outcome'[u] = outcome[u]
  BY <1>1 DEF IInv, Typed, TypeOK
<1>9. Running(t)'
  BY <1>7 DEF Running, AtWork
<1>10. Sending(t)'
  BY <1>1, <1>2, <1>4, <1>7 DEF Following, Sending
<1>11. Claims(t, outcome[t])'
  <2>1. Claims(t, outcome'[t])
    BY <1>5, <1>7, NoRowClaims
  <2> QED
    BY <1>1, <1>2, <2>1 DEF Claims
<1>12. Telling(t)'
  BY <1>5, <1>7, <1>11 DEF Telling, AtWork
<1> QED
  BY <1>1, <1>4, <1>6, <1>7, <1>8, <1>9, <1>10, <1>12, OnePlayer DEF Following

LEMMA InterruptStep ==
    ASSUME IInv, NEW t \in Slots, Interrupt(t)
    PROVE  IInv'
<1>1. /\ pc[t] \in AtWork /\ Finish(t, Interrupted(t)) /\ UNCHANGED <<host, step, thread, box>>
  BY DEF Interrupt, AtWork
<1>2. step[t] \in Calls
  BY <1>1, WorkingFacts
<1>3. /\ Interrupted(t) \in Rows /\ Interrupted(t).says = "interrupted"
      /\ Interrupted(t).code = 130
  BY <1>2, RowType DEF Interrupted, Said, Codes
<1>4. Claims(t, Interrupted(t))
  BY <1>3 DEF Claims
<1> QED
  BY <1>1, <1>3, <1>4, FinishStep

LEMMA LateStep ==
    ASSUME IInv, NEW t \in Slots, Late(t)
    PROVE  IInv'
<1> DEFINE row == Row("not_requested", step[t], 1)
<1>1. /\ pc[t] = "call" /\ pc[t] \in AtWork /\ Finish(t, row)
      /\ UNCHANGED <<host, step, thread, box>>
  BY DEF Late, AtWork
<1>2. /\ Following(t) /\ step[t] \in Calls /\ Len(Script(command)) \in Calls
  BY <1>1, WorkingFacts
<1>3. row \in Rows /\ row.says = "not_requested" /\ row.code = 1
  BY <1>2, RowType DEF Said, Codes
<1>4. thread[t][Len(Script(command))] = "none"
  <2>1. ASSUME NEW last \in Calls, step[t] <= last PROVE thread[t][last] = "none"
    <3>1. last > step[t] \/ last = step[t]
      BY <1>2, <2>1 DEF Calls
    <3> QED
      BY <1>1, <1>2, <3>1 DEF Following, Sending
  <2> QED
    BY <1>2, <2>1 DEF Following, Sending
<1> HIDE DEF row
<1>5. Claims(t, row)
  BY <1>3, <1>4 DEF Claims
<1> QED
  BY <1>1, <1>3, <1>5, FinishStep

\* A read before a playback that fails leaves the playback unasked for.
LEMMA FailedTrue ==
    ASSUME IInv, NEW t \in Slots, pc[t] \in AtWork
    PROVE  Failed(t) \in Rows /\ Claims(t, Failed(t))
<1>1. /\ Following(t) /\ step[t] \in Calls /\ Len(Script(command)) \in Calls
      /\ step[t] <= Len(Script(command))
  BY WorkingFacts DEF Following, Sending
<1>2. CASE Reading(t) /\ command \in {"play", "provider"}
  <2>1. /\ Failed(t) \in Rows /\ Failed(t).says = "not_requested" /\ Failed(t).code = 1
    BY <1>1, <1>2, RowType DEF Failed, Said, Codes
  <2>2. step[t] \in 1 .. Len(Script(command))
    BY <1>1 DEF Calls
  <2>3. step[t] < Len(Script(command))
    BY <1>2, <2>2, Scripts DEF Reading, IInv
  <2>4. thread[t][Len(Script(command))] = "none"
    BY <1>1, <2>3 DEF Following, Sending
  <2> QED
    BY <2>1, <2>4 DEF Claims
<1>3. CASE ~(Reading(t) /\ command \in {"play", "provider"})
  <2>1. /\ Failed(t) \in Rows /\ Failed(t).says = "unknown" /\ Failed(t).code = 1
    BY <1>1, <1>3, RowType DEF Failed, Said, Codes
  <2> QED
    BY <2>1 DEF Claims
<1> QED
  BY <1>2, <1>3
\* A call begins, or goes on to the next state of its wait; no row is written.
LEMMA GoesOn ==
    ASSUME IInv, NEW t \in Slots, pc[t] \in AtWork,
           UNCHANGED <<host, cancelled, future, outcome, room, box>>,
           NEW to \in {"call", "posting", "receipt"}, pc' = [pc EXCEPT ![t] = to],
           Typed', Sending(t)',
           \A u \in Slots \ {t} : step'[u] = step[u] /\ thread'[u] = thread[u]
    PROVE  IInv'
<1>1. UNCHANGED <<command, words, expanded, targets, main, next, tracked, reported, exit>>
  BY DEF host, asked
<1>2. Following(t) /\ future[t] = "running" /\ outcome[t] = None
  BY WorkingFacts
<1>3. pc'[t] = to /\ \A u \in Slots \ {t} : pc'[u] = pc[u]
  BY DEF IInv, Typed, TypeOK
<1>4. Running(t)'
  BY <1>2, <1>3 DEF Running, AtWork
<1>5. Claims(t, outcome[t])'
  <2>1. None.says = "none" /\ None.code = 0
    BY NoneIsNoRow
  <2> QED
    BY <1>2, <2>1 DEF Claims
<1>6. Telling(t)'
  BY <1>2, <1>3, <1>5 DEF Telling, AtWork
<1> QED
  BY <1>3, <1>4, <1>6, OnePlayer DEF Following

LEMMA PostStep ==
    ASSUME IInv, NEW t \in Slots, Post(t)
    PROVE  IInv'
<1>1. /\ pc[t] = "call" /\ pc[t] \in AtWork /\ pc' = [pc EXCEPT ![t] = "posting"]
      /\ thread' = [thread EXCEPT ![t][step[t]] = "started"]
      /\ UNCHANGED host /\ UNCHANGED <<cancelled, future, outcome, room, step, box>>
  BY DEF Post, AtWork
<1>2. UNCHANGED <<command, words, expanded, targets, main, next, tracked, reported, exit>>
  BY <1>1 DEF host, asked
<1>3. Following(t) /\ step[t] \in Calls
  BY <1>1, WorkingFacts
<1>4. Players' = Players
  BY <1>2 DEF Players
<1>5. Typed'
  BY <1>1, <1>2, <1>3, <1>4 DEF IInv, Typed, TypeOK
<1>6. /\ thread'[t][step[t]] = "started"
      /\ \A s \in Calls : s # step[t] => thread'[t][s] = thread[t][s]
      /\ \A u \in Slots \ {t} : thread'[u] = thread[u]
  BY <1>1, <1>3 DEF IInv, Typed
<1>7. box[t][step[t]] = "none"
  BY <1>1, <1>3 DEF Following, Sending
<1>8. pc'[t] = "posting"
  BY <1>1 DEF IInv, Typed, TypeOK
<1>9. Sending(t)'
  BY <1>1, <1>2, <1>3, <1>6, <1>7, <1>8 DEF Following, Sending, Calls
<1> QED
  BY <1>1, <1>5, <1>6, <1>9, GoesOn

LEMMA GiveUpStep ==
    ASSUME IInv, NEW t \in Slots, GiveUp(t)
    PROVE  IInv'
<1>1. /\ pc[t] \in AtWork /\ Finish(t, Failed(t)) /\ UNCHANGED <<host, step, thread, box>>
  BY DEF GiveUp, AtWork
<1> QED
  BY <1>1, FailedTrue, FinishStep

LEMMA ReceiveStep ==
    ASSUME IInv, NEW t \in Slots, Receive(t)
    PROVE  IInv'
<1>1. /\ pc[t] = "posting" /\ pc[t] \in AtWork /\ UNCHANGED <<host, step, thread, box>>
      /\ \/ /\ thread[t][step[t]] = "id" /\ pc' = [pc EXCEPT ![t] = "receipt"]
            /\ UNCHANGED <<cancelled, future, outcome, room>>
         \/ thread[t][step[t]] = "refused" /\ Finish(t, Row("refused", step[t], 1))
         \/ Finish(t, Failed(t))
  BY DEF Receive, IsRefusal, AtWork
<1>2. Following(t) /\ step[t] \in Calls
  BY <1>1, WorkingFacts
<1>3. CASE /\ thread[t][step[t]] = "id" /\ pc' = [pc EXCEPT ![t] = "receipt"]
           /\ UNCHANGED <<cancelled, future, outcome, room>>
  <2>1. UNCHANGED <<command, words, expanded, targets, main, next, tracked, reported, exit>>
    BY <1>1 DEF host, asked
  <2>2. Players' = Players
    BY <2>1 DEF Players
  <2>3. Typed'
    BY <1>1, <1>3, <2>1, <2>2 DEF IInv, Typed, TypeOK
  <2>4. pc'[t] = "receipt"
    BY <1>3 DEF IInv, Typed, TypeOK
  <2>5. Sending(t)'
    BY <1>1, <1>2, <1>3, <2>1, <2>4 DEF Following, Sending
  <2> QED
    BY <1>1, <1>3, <2>3, <2>5, GoesOn
<1>4. CASE thread[t][step[t]] = "refused" /\ Finish(t, Row("refused", step[t], 1))
  <2> DEFINE row == Row("refused", step[t], 1)
  <2>1. row \in Rows /\ row.says = "refused" /\ row.at = step[t] /\ row.code = 1
    BY <1>2, RowType DEF Said, Codes
  <2>2. ASSUME NEW s \in Calls, s >= step[t] PROVE thread[t][s] \in {"none", "refused"}
    <3>1. s > step[t] \/ s = step[t]
      BY <1>2, <2>2 DEF Calls
    <3> QED
      BY <1>2, <1>4, <3>1 DEF Following, Sending
  <2> HIDE DEF row
  <2>3. Claims(t, row)
    BY <1>2, <2>1, <2>2 DEF Claims
  <2>4. Finish(t, row)
    BY <1>4 DEF row
  <2> QED
    BY <1>1, <2>1, <2>3, <2>4, FinishStep
<1>5. CASE Finish(t, Failed(t))
  BY <1>1, <1>5, FailedTrue, FinishStep
<1> QED
  BY <1>1, <1>3, <1>4, <1>5

LEMMA PollStep ==
    ASSUME IInv, NEW t \in Slots, Poll(t)
    PROVE  IInv'
<1>1. /\ pc[t] = "receipt" /\ pc[t] \in AtWork /\ UNCHANGED <<host, thread, box>>
      /\ \/ box[t][step[t]] = "ok" /\ Accepted(t)
         \/ Finish(t, Failed(t)) /\ UNCHANGED step
         \/ /\ box[t][step[t]] = "rejected" /\ Finish(t, Row("rejected", step[t], 1))
            /\ UNCHANGED step
  BY DEF Poll, AtWork
<1>2. Following(t) /\ step[t] \in Calls /\ Len(Script(command)) \in Calls
  BY <1>1, WorkingFacts
<1>3. CASE box[t][step[t]] = "ok" /\ Accepted(t) /\ ~LastCall(t)
  <2>1. /\ step' = [step EXCEPT ![t] = step[t] + 1] /\ pc' = [pc EXCEPT ![t] = "call"]
        /\ UNCHANGED <<cancelled, future, outcome, room>>
    BY <1>3 DEF Accepted, IInv, Typed, TypeOK
  <2>2. UNCHANGED <<command, words, expanded, targets, main, next, tracked, reported, exit>>
    BY <1>1 DEF host, asked
  <2>3. Players' = Players
    BY <2>2 DEF Players
  <2>4. step[t] <= Len(Script(command)) /\ step[t] # Len(Script(command))
    BY <1>2, <1>3 DEF Following, Sending, LastCall
  <2>5. step[t] + 1 \in Calls /\ step[t] + 1 <= Len(Script(command))
    <3>1. \A n, last \in Calls : n <= last /\ n # last => n + 1 \in Calls /\ n + 1 <= last
      BY DEF Calls
    <3> QED
      BY <1>2, <2>4, <3>1
  <2>6. /\ step'[t] = step[t] + 1 /\ pc'[t] = "call"
        /\ \A u \in Slots \ {t} : step'[u] = step[u]
    BY <2>1 DEF IInv, Typed, TypeOK
  <2>7. Typed'
    BY <1>1, <2>1, <2>2, <2>3, <2>5 DEF IInv, Typed, TypeOK
  <2>8. \A s \in Calls : /\ s >= step'[t] => s > step[t]
                         /\ s < step'[t] => s < step[t] \/ s = step[t]
    BY <1>2, <2>6 DEF Calls
  <2>9. \A s \in Calls : s > step'[t] \/ s = step'[t] => s >= step'[t]
    BY <2>5, <2>6 DEF Calls
  <2>10. Sending(t)'
    <3>1. \A s \in Calls : s > step'[t] \/ s = step'[t] => thread[t][s] = "none"
      BY <1>2, <2>8, <2>9 DEF Following, Sending
    <3>2. \A s \in Calls : s < step'[t] => box[t][s] = "ok"
      BY <1>2, <1>3, <2>8 DEF Following, Sending
    <3>3. \A s \in Calls : box[t][s] # "none" => thread[t][s] \in {"id", "server_error", "lost"}
      BY <1>2 DEF Following, Sending
    <3> QED
      BY <1>1, <2>2, <2>5, <2>6, <3>1, <3>2, <3>3 DEF Sending
  <2> QED
    BY <1>1, <2>1, <2>6, <2>7, <2>10, GoesOn
<1>4. CASE box[t][step[t]] = "ok" /\ Accepted(t) /\ LastCall(t)
  <2>1. /\ UNCHANGED step
        /\ \/ Finish(t, Row("done", step[t], 0)) \/ Finish(t, Row("partial", step[t], 3))
    BY <1>4 DEF Accepted
  <2>2. \A s \in 1 .. Len(Script(command)) : box[t][s] = "ok"
    <3>1. ASSUME NEW s \in 1 .. step[t] PROVE box[t][s] = "ok"
      <4>1. s \in Calls /\ (s < step[t] \/ s = step[t])
        BY <1>2 DEF Calls
      <4> QED
        BY <1>2, <1>4, <4>1 DEF Following, Sending
    <3> QED
      BY <1>4, <3>1 DEF LastCall
  <2>3. ASSUME NEW row \in Rows, row.says \in {"done", "partial"},
               row.code = 0 => row.says = "done", Finish(t, row)
        PROVE  IInv'
    <3>1. Claims(t, row)
      BY <2>2, <2>3 DEF Claims
    <3> QED
      BY <1>1, <2>1, <2>3, <3>1, FinishStep
  <2>4. /\ Row("done", step[t], 0) \in Rows /\ Row("done", step[t], 0).says = "done"
        /\ Row("partial", step[t], 3) \in Rows /\ Row("partial", step[t], 3).says = "partial"
        /\ Row("partial", step[t], 3).code = 3
    BY <1>2, RowType DEF Said, Codes
  <2> QED
    BY <2>1, <2>3, <2>4
<1>5. CASE Finish(t, Failed(t)) /\ UNCHANGED step
  BY <1>1, <1>5, FailedTrue, FinishStep
<1>6. CASE /\ box[t][step[t]] = "rejected" /\ Finish(t, Row("rejected", step[t], 1))
           /\ UNCHANGED step
  <2> DEFINE row == Row("rejected", step[t], 1)
  <2>1. row \in Rows /\ row.says = "rejected" /\ row.at = step[t] /\ row.code = 1
    BY <1>2, RowType DEF Said, Codes
  <2>2. \A s \in Calls : s > step[t] => thread[t][s] = "none"
    BY <1>2 DEF Following, Sending
  <2> HIDE DEF row
  <2>3. Claims(t, row)
    BY <1>2, <1>6, <2>1, <2>2 DEF Claims
  <2>4. Finish(t, row)
    BY <1>6 DEF row
  <2> QED
    BY <1>1, <1>6, <2>1, <2>3, <2>4, FinishStep
<1> QED
  BY <1>1, <1>3, <1>4, <1>5, <1>6
-----------------------------------------------------------------------------
(* Posts on their way, and the player                                      *)

\* Whatever arrives late leaves what the rows claim true.
LEMMA Arriving ==
    ASSUME IInv, NEW t \in Slots, NEW s \in Calls,
           UNCHANGED <<host, cancelled, future, outcome, room, pc, step>>,
           NEW a \in {"none", "started", "open", "unsent"} \cup Answers,
           NEW b \in {"none", "queued", "ok", "rejected", "expired"},
           thread' = [thread EXCEPT ![t][s] = a], box' = [box EXCEPT ![t][s] = b],
           thread[t][s] = a \/ (thread[t][s] \in {"started", "open"} /\ a # "none"),
           box[t][s] = b \/ thread[t][s] = "open" \/ box[t][s] = "queued",
           b # "none" => a \in {"id", "server_error", "lost"}
    PROVE  IInv'
<1>1. UNCHANGED <<command, words, expanded, targets, main, next, tracked, reported, exit>>
  BY DEF host, asked
<1>2. Players' = Players
  BY <1>1 DEF Players
<1>3. Typed'
  BY <1>1, <1>2 DEF IInv, Typed, TypeOK
<1>4. /\ thread'[t][s] = a /\ box'[t][s] = b
      /\ \A r \in Calls : r # s => thread'[t][r] = thread[t][r] /\ box'[t][r] = box[t][r]
      /\ \A u \in Slots \ {t} : thread'[u] = thread[u] /\ box'[u] = box[u]
  BY DEF IInv, Typed
<1>5. Following(t) /\ outcome[t] \in Rows \cup {None}
  BY DEF IInv, Typed
<1>6. Claims(t, outcome[t])'
  <2>1. ASSUME NEW row \in Rows \cup {None}, Claims(t, row) PROVE Claims(t, row)'
    <3>1. \A r \in Calls :
            /\ thread[t][r] \notin {"started", "open"} => thread'[t][r] = thread[t][r]
            /\ box'[t][r] = box[t][r] \/ thread[t][r] = "open" \/ box[t][r] = "queued"
      BY <1>4
    <3> QED
      BY <1>1, <1>5, <2>1, <3>1, ClaimsLast DEF IInv, Following
  <2>2. \A row \in Rows \cup {None} : Claims(t, row) => Claims(t, row)'
    BY <2>1
  <2>3. Claims(t, outcome[t])
    BY <1>5 DEF Following, Telling
  <2> QED
    BY <1>5, <2>2, <2>3 DEF Claims
<1>7. Running(t)'
  BY <1>5 DEF Following, Running
<1>8. Telling(t)'
  BY <1>1, <1>5, <1>6 DEF Following, Telling
<1>9. Sending(t)'
  <2>1. step[t] \in Calls
    BY DEF IInv, Typed, TypeOK
  <2>2. \A r \in Calls : thread[t][r] = "none" => thread'[t][r] = "none"
    BY <1>4
  <2>3. \A r \in Calls : thread[t][r] = "id" => thread'[t][r] = "id"
    BY <1>4
  <2>4. \A r \in Calls : box[t][r] = "ok" => box'[t][r] = "ok"
    BY <1>4, <1>5 DEF Following, Sending
  <2>5. \A r \in Calls : box'[t][r] # "none" => thread'[t][r] \in {"id", "server_error", "lost"}
    BY <1>4, <1>5 DEF Following, Sending
  <2> QED
    BY <1>1, <1>5, <2>1, <2>2, <2>3, <2>4, <2>5 DEF Following, Sending
<1> QED
  BY <1>3, <1>4, <1>7, <1>8, <1>9, OnePlayer DEF Following

LEMMA BoxFacts ==
    ASSUME IInv, NEW t \in Slots, NEW s \in Calls
    PROVE  /\ box[t][s] \in {"none", "queued", "ok", "rejected", "expired"}
           /\ thread[t][s] \in {"none", "started", "open", "unsent"} \cup Answers
           /\ box[t][s] # "none" => thread[t][s] \in {"id", "server_error", "lost"}
           /\ \A b : b = box[t][s] => box = [box EXCEPT ![t][s] = b]
           /\ \A a : a = thread[t][s] => thread = [thread EXCEPT ![t][s] = a]
BY DEF IInv, Typed, Following, Sending

LEMMA OpenStep ==
    ASSUME IInv, NEW t \in Slots, NEW s \in Calls, Open(t, s)
    PROVE  IInv'
<1>1. PICK a \in {"unsent", "open"} : thread' = [thread EXCEPT ![t][s] = a]
  BY DEF Open
<1>2. /\ thread[t][s] = "started" /\ box' = box
      /\ UNCHANGED <<host, cancelled, future, outcome, room, pc, step>>
  BY DEF Open
<1>3. box[t][s] = "none"
  BY <1>2, BoxFacts
<1>4. box' = [box EXCEPT ![t][s] = "none"]
  BY <1>2, <1>3, BoxFacts
<1> QED
  BY <1>1, <1>2, <1>3, <1>4, Arriving

LEMMA ArriveStep ==
    ASSUME IInv, NEW t \in Slots, NEW s \in Calls, NEW queued \in BOOLEAN, NEW answer \in Answers,
           Arrive(t, s, queued, answer)
    PROVE  IInv'
<1>1. /\ thread[t][s] = "open" /\ (answer = "refused" => ~queued)
      /\ thread' = [thread EXCEPT ![t][s] = answer]
      /\ box' = IF queued THEN [box EXCEPT ![t][s] = "queued"] ELSE box
      /\ UNCHANGED <<host, cancelled, future, outcome, room, pc, step>>
  BY DEF Arrive
<1>2. answer \in {"id", "refused", "server_error", "lost"}
  BY DEF Answers
<1>3. box[t][s] = "none"
  BY <1>1, BoxFacts
<1>4. CASE queued
  BY <1>1, <1>2, <1>4, Arriving
<1>5. CASE ~queued
  <2>1. box' = [box EXCEPT ![t][s] = "none"]
    BY <1>1, <1>3, <1>5, BoxFacts
  <2> QED
    BY <1>1, <1>2, <1>3, <2>1, Arriving
<1> QED
  BY <1>4, <1>5

LEMMA PlayerStep ==
    ASSUME IInv, NEW t \in Slots, NEW s \in Calls, NEW result \in {"ok", "rejected", "expired"},
           Player(t, s, result)
    PROVE  IInv'
<1>1. /\ box[t][s] = "queued" /\ box' = [box EXCEPT ![t][s] = result] /\ thread' = thread
      /\ UNCHANGED <<host, cancelled, future, outcome, room, pc, step>>
  BY DEF Player
<1>2. ASSUME NEW a, a = thread[t][s] PROVE IInv'
  <2>1. /\ thread' = [thread EXCEPT ![t][s] = a]
        /\ a \in {"none", "started", "open", "unsent"} \cup Answers
        /\ a \in {"id", "server_error", "lost"}
    BY <1>1, <1>2, BoxFacts
  <2> QED
    BY <1>1, <1>2, <2>1, Arriving
<1> QED
  BY <1>2
-----------------------------------------------------------------------------
(* Theorems                                                                *)

LEMMA Initial ==
    ASSUME Init
    PROVE  IInv
<1>1. /\ MaxTargets \in Nat \ {0} /\ Room \in Nat /\ Selectors \subseteq Seq(Words)
  BY GroupAssumption
<1>2. /\ command \in Commands /\ words \in Selectors /\ expanded = <<>> /\ targets = <<>>
      /\ main = "resolve" /\ next = 1 /\ cancelled = FALSE /\ tracked = {} /\ reported = {}
      /\ future = [t \in Slots |-> "none"] /\ outcome = [t \in Slots |-> None]
      /\ exit = 0 /\ room = Room
      /\ pc = [t \in Slots |-> "idle"] /\ step = [t \in Slots |-> 1]
      /\ thread = [t \in Slots |-> [s \in Calls |-> "none"]]
      /\ box = [t \in Slots |-> [s \in Calls |-> "none"]]
  BY DEF Init
<1>3. Len(targets) = 0 /\ Len(expanded) = 0 /\ Players = {}
  BY <1>2 DEF Players
<1>4. 1 \in Calls
  BY DEF Calls
<1>5. Typed
  <2>1. words \in Seq(Words)
    BY <1>1, <1>2
  <2>2. \A S : <<>> \in Seq(S)
    OBVIOUS
  <2>3. expanded \in Seq(Words) /\ targets \in Seq({Device[x] : x \in Names})
    BY <1>2, <2>2
  <2>4. next \in 1 .. MaxTargets + 1 /\ Len(targets) <= MaxTargets /\ room \in 0 .. Room
    BY <1>1, <1>2, <1>3
  <2>5. TypeOK
    BY <1>2, <1>4, <2>1, <2>3, <2>4 DEF TypeOK, Codes
  <2>6. None \in Rows \cup {None}
    OBVIOUS
  <2> QED
    BY <1>2, <2>5, <2>6 DEF Typed
<1>6. Resolving
  BY <1>1, <1>2, <1>3 DEF Resolving
<1>7. Pool
  BY <1>2, <1>3 DEF Pool
<1>8. ASSUME NEW t \in Slots PROVE Following(t)
  <2>1. /\ pc[t] = "idle" /\ step[t] = 1 /\ future[t] = "none" /\ outcome[t] = None
        /\ \A s \in Calls : thread[t][s] = "none" /\ box[t][s] = "none"
    BY <1>2
  <2>2. Len(Script(command)) \in Calls
    BY <1>5, Scripts
  <2>3. Running(t)
    BY <2>1 DEF Running, AtWork
  <2>4. Sending(t)
    <3>1. \A n \in Calls : 1 <= n /\ ~(n < 1)
      BY DEF Calls
    <3> QED
      BY <2>1, <2>2, <3>1 DEF Sending
  <2>5. Claims(t, outcome[t])
    BY <2>1, NoRowClaims
  <2> QED
    BY <2>1, <2>3, <2>4, <2>5 DEF Following, Telling, AtWork
<1> QED
  BY <1>5, <1>6, <1>7, <1>8 DEF IInv

LEMMA Stuttering ==
    ASSUME IInv, UNCHANGED vars
    PROVE  IInv'
<1>1. /\ UNCHANGED <<command, words, expanded, targets, main, next, tracked, reported, exit>>
      /\ UNCHANGED <<cancelled, future, outcome, room, pc, step, thread, box>>
  BY DEF vars, host, asked
<1>2. Resolving'
  BY <1>1, ResolvingSame DEF IInv, asked
<1>3. Players' = Players
  BY <1>1 DEF Players
<1>4. Typed'
  BY <1>1, <1>3 DEF IInv, Typed, TypeOK
<1>5. Pool'
  BY <1>1, <1>3 DEF IInv, Pool
<1>6. \A u \in Slots : Following(u)'
  BY <1>1, OthersFollowed DEF IInv
<1> QED
  BY <1>2, <1>4, <1>5, <1>6 DEF IInv

LEMMA Inductive ==
    ASSUME IInv, [Next]_vars
    PROVE  IInv'
<1>1. CASE MainStep
  BY <1>1, MainSteps
<1>2. ASSUME NEW t \in Slots, Take(t) \/ Job(t) PROVE IInv'
  BY <1>2, TakeStep, BeginStep, InterruptStep, LateStep, PostStep, ReceiveStep, GiveUpStep,
     PollStep DEF Job
<1>3. ASSUME NEW t \in Slots, NEW s \in Calls, Network(t, s) PROVE IInv'
  BY <1>3, OpenStep, ArriveStep DEF Network
<1>4. ASSUME NEW t \in Slots, NEW s \in Calls, NEW result \in {"ok", "rejected", "expired"},
             Player(t, s, result)
      PROVE  IInv'
  BY <1>4, PlayerStep
<1>5. CASE UNCHANGED vars
  BY <1>5, Stuttering
<1> QED
  BY <1>1, <1>2, <1>3, <1>4, <1>5 DEF Next

LEMMA Invariant == Spec => []IInv
<1>1. Init => IInv
  BY Initial
<1>2. IInv /\ [Next]_vars => IInv'
  BY Inductive
<1> QED
  BY <1>1, <1>2, PTL DEF Spec

\* A claim about posts is one about the controller: nothing is at it that was
\* not sent.
LEMMA Told ==
    ASSUME IInv
    PROVE  HonestReport
<1>1. Players \subseteq Slots /\ Len(Script(command)) \in Calls
  BY PlayersAreSlots, Scripts DEF IInv, Typed
<1>2. ASSUME NEW t \in Slots, NEW s \in Calls, thread[t][s] \in {"none", "refused"}
      PROVE  Untouched(t, s)
  BY <1>2, BoxFacts DEF Untouched
<1>3. ASSUME NEW t \in Slots
      PROVE  /\ outcome[t].says = "not_started" => \A s \in Calls : Untouched(t, s)
             /\ outcome[t].says = "not_requested" => Untouched(t, Len(Script(command)))
             /\ outcome[t].says = "refused" =>
                  \A s \in Calls : s >= outcome[t].at => Untouched(t, s)
             /\ outcome[t].says = "rejected" =>
                  /\ box[t][outcome[t].at] = "rejected"
                  /\ \A s \in Calls : s > outcome[t].at => Untouched(t, s)
             /\ outcome[t].says \in {"done", "partial"} =>
                  \A s \in 1 .. Len(Script(command)) : box[t][s] = "ok"
  <2>1. Claims(t, outcome[t])
    BY DEF IInv, Following, Telling
  <2> QED
    BY <1>1, <1>2, <2>1 DEF Claims
<1>4. main = "reported" /\ exit = 0 => \A t \in Players : outcome[t].says = "done"
  BY DEF IInv, Pool
<1>5. \A t, u \in Players : targets[t] = targets[u] => t = u
  BY DEF IInv, Resolving
<1>6. TypeOK
  BY DEF IInv, Typed
<1> QED
  BY <1>1, <1>3, <1>4, <1>5, <1>6 DEF HonestReport

(***************************************************************************)
(* A row of the report stays true for as long as anything can still        *)
(* arrive, the process ends with 0 only when every row is done, and no     *)
(* player gets a call twice: for every configuration and selector, every   *)
(* number of players and workers, every output budget and any interrupts.  *)
(***************************************************************************)
THEOREM HonestReportCorrect == Spec => []HonestReport
<1>1. IInv => HonestReport
  BY Told
<1> QED
  BY <1>1, Invariant, PTL

-----------------------------------------------------------------------------
(* Commands bound to a runtime (cli/ott.py): the player's capabilities     *)
(* were read, one request is sent for that runtime, and the player may     *)
(* restart, change version or lose the request on the way.                 *)

\* The request is nowhere: not on its way, not executed, nor to be applied.
NotExecuted == did = <<>> /\ boundFlying = Bound!None /\ pending = Bound!None

BoundTyped ==
    /\ boundPlayer \in [runtime : Nat \ {0}, current : BOOLEAN]
    /\ boundKind \in BoundKinds
    /\ did = <<>> \/ did = <<did[1]>>
    /\ boundPc \in {"read", "confirm", "send", "wait", "end"}

\* The request is in one place.
OneBoundRequest ==
    /\ boundPc \in {"read", "confirm", "send"} => NotExecuted /\ boundReply = Bound!None
    /\ boundFlying # Bound!None =>
         /\ did = <<>> /\ pending = Bound!None /\ boundReply = Bound!None
         /\ boundFlying = [is |-> boundFlying.is, runtime |-> boundFlying.runtime,
                           version |-> boundFlying.version, needs |-> boundFlying.needs]
         /\ boundFlying.is \in {"posted", "queued"}
    /\ pending # Bound!None => did = <<>> /\ boundKind = "aspect"

\* What an answer says of the request is so.
TrueAnswerOfBound ==
    /\ boundReply.is \in {"rejected", "400"} => NotExecuted
    /\ boundReply.is = "ok" /\ boundKind # "aspect" =>
         did = <<[runtime |-> boundReply.runtime, effect |-> boundReply.effect]>>

\* What the command says of the request.
TrueOutcomeOfBound ==
    /\ boundPc # "end" => boundOutcome = "none"
    /\ boundOutcome \in {"unsent", "refused"} => NotExecuted /\ boundPc = "end"
    /\ boundOutcome = "accepted" /\ boundKind # "aspect" =>
         /\ did # <<>>
         /\ Bound!Wants.bound \/ boundKind = "detailed" => did[1].runtime = boundSeen.runtime

\* A temporary playback is asked only of a runtime that knows it.
Temporary ==
    boundKind = "session" =>
      /\ boundPc \in {"confirm", "send"} => boundSeen.runtime > 0
      /\ boundSeen.runtime \in Nat
      /\ boundSeen.runtime > 0 =>
           /\ boundSeen.runtime <= boundPlayer.runtime
           /\ boundSeen.runtime = boundPlayer.runtime => boundPlayer.current
      /\ boundFlying # Bound!None =>
           boundFlying.runtime = boundSeen.runtime /\ boundSeen.runtime > 0
      /\ did # <<>> => did[1].effect = "temporary"

BoundInv == BoundTyped /\ OneBoundRequest /\ TrueAnswerOfBound /\ TrueOutcomeOfBound /\ Temporary

\* A command begins with nothing asked.
LEMMA BoundInit ==
    ASSUME Bound!Init
    PROVE  BoundInv
BY DEF Bound!Init, BoundInv, BoundTyped, OneBoundRequest, TrueAnswerOfBound, TrueOutcomeOfBound,
   Temporary, NotExecuted,
   Bound!None, Bound!Unseen

\* What a temporary playback needs, only a current version offers.
LEMMA SessionWants ==
    ASSUME boundKind = "session"
    PROVE  /\ Bound!Wants.bound = TRUE /\ "local_media_session" \in Bound!Wants.needs
           /\ \A p : "local_media_session" \in Bound!Offers(p) => p.current
<1>0. boundKind \in Bound!Media /\ boundKind \notin Bound!Queue
  BY DEF Bound!Media, Bound!Queue
<1>1. Bound!Wants = Bound!LocalMedia
  BY <1>0 DEF Bound!Wants
<1>2. Bound!MediaProbe = {"local_media_session"}
  BY DEF Bound!MediaProbe
<1>3. /\ Bound!LocalMedia.bound = TRUE
      /\ Bound!LocalMedia.needs = {"local_media"} \cup {"local_media_session"}
  BY <1>2 DEF Bound!LocalMedia, Bound!Negotiates
<1>4. \A p : "local_media_session" \in Bound!Offers(p) => p.current
  BY DEF Bound!Offers, Bound!Basic, Bound!Newer
<1> QED BY <1>1, <1>3, <1>4

\* An accepted answer is of the runtime that the command relies on, unless its
\* request names none.
LEMMA EchoOfRuntime ==
    ASSUME Bound!BoundAssumption, boundKind \in BoundKinds, Bound!Confirmed,
           Bound!Wants.bound \/ boundKind = "detailed"
    PROVE  boundReply.runtime = boundSeen.runtime
<1>0. boundKind \in {"browse", "connect", "session", "handle", "servers", "library",
                     "queue", "queue2", "repeat", "aspect", "notify", "seek",
                     "profile", "screenshot", "detailed"}
  BY DEF Bound!BoundAssumption
<1>1. CASE boundKind \in Bound!Media
  <2>1. Bound!MediaConfirmed
    BY <1>1 DEF Bound!Confirmed, Bound!Media, Bound!Queue
  <2> QED BY <2>1 DEF Bound!MediaConfirmed, Bound!Echoes
<1>2. CASE boundKind \in Bound!Queue
  <2>1. Bound!QueueConfirmed
    BY <1>2 DEF Bound!Confirmed, Bound!Media, Bound!Queue
  <2> QED BY <2>1 DEF Bound!QueueConfirmed, Bound!Echoes
<1>3. CASE boundKind \in {"browse", "servers", "library", "aspect", "notify", "screenshot",
                          "detailed"}
  BY <1>3 DEF Bound!Echoes, Bound!Confirmed, Bound!Media, Bound!Queue, Bound!BrowseConfirmed,
     Bound!ServersConfirmed, Bound!LibraryConfirmed, Bound!AspectConfirmed,
     Bound!NotifyConfirmed, Bound!ScreenshotConfirmed, Bound!DetailedConfirmed
<1>4. CASE boundKind = "seek"
  <2>1. Bound!Wants = Bound!RelativeSeek
    BY <1>4 DEF Bound!Wants, Bound!Media, Bound!Queue
  <2>2. Bound!RelativeSeek.bound = FALSE
    BY DEF Bound!RelativeSeek, Bound!Negotiates
  <2> QED BY <1>4, <2>1, <2>2
<1>5. CASE boundKind = "profile"
  <2>1. Bound!Wants = Bound!OfflineProfile
    BY <1>5 DEF Bound!Wants, Bound!Media, Bound!Queue
  <2>2. Bound!OfflineProfile.bound = FALSE
    BY DEF Bound!OfflineProfile, Bound!Negotiates
  <2> QED BY <1>5, <2>1, <2>2
<1> QED BY <1>0, <1>1, <1>2, <1>3, <1>4, <1>5 DEF Bound!Media, Bound!Queue

\* What the player and the network do.
LEMMA BoundWorldStep ==
    ASSUME BoundInv, Bound!World
    PROVE  BoundInv'
<1> USE DEF Bound!cli
<1>0. BoundTyped /\ OneBoundRequest /\ TrueAnswerOfBound /\ TrueOutcomeOfBound /\ Temporary
  BY DEF BoundInv
<1>w. UNCHANGED boundKind => UNCHANGED Bound!Wants
  BY DEF Bound!Wants, Bound!Media, Bound!Queue, Bound!LocalMedia, Bound!PlexQueue,
     Bound!LocalBrowser, Bound!PlexServers, Bound!PlexLibrary, Bound!Aspect,
     Bound!Notifications, Bound!Screenshot, Bound!RelativeSeek, Bound!OfflineProfile,
     Bound!DetailedStatus, Bound!Negotiates, Bound!MediaProbe, Bound!QueueProbe
<1>1. CASE Bound!Restart
  <2>1. /\ boundPlayer' = [runtime |-> boundPlayer.runtime + 1, current |-> boundPlayer'.current]
        /\ boundPlayer'.current \in BOOLEAN /\ pending' = Bound!None
        /\ UNCHANGED <<boundFlying, boundReply, did, boundKind, boundPc, boundSeen, boundOutcome>>
    BY <1>1 DEF Bound!Restart
  <2>2. boundPlayer.runtime \in Nat /\ boundPlayer'.runtime = boundPlayer.runtime + 1
    BY <1>0, <2>1 DEF BoundTyped
  <2>3. BoundTyped' /\ OneBoundRequest' /\ TrueAnswerOfBound'
    BY <1>0, <2>1, <2>2 DEF BoundTyped, OneBoundRequest, TrueAnswerOfBound, NotExecuted,
       Bound!None
  <2>4. TrueOutcomeOfBound'
    BY <1>0, <1>w, <2>1 DEF TrueOutcomeOfBound, NotExecuted, Bound!None
  <2>5. Temporary'
    BY <1>0, <2>1, <2>2 DEF Temporary, Bound!None
  <2> QED BY <2>3, <2>4, <2>5 DEF BoundInv
<1>2. CASE Bound!Deploy \/ Bound!Late
  <2>1. UNCHANGED <<boundPlayer, boundFlying, boundReply, pending, did, boundKind, boundPc,
                    boundSeen, boundOutcome>>
    BY <1>2 DEF Bound!Deploy, Bound!Late, Bound!world
  <2>2. BoundTyped' /\ OneBoundRequest' /\ TrueAnswerOfBound'
    BY <1>0, <2>1 DEF BoundTyped, OneBoundRequest, TrueAnswerOfBound, NotExecuted, Bound!None
  <2>3. TrueOutcomeOfBound' /\ Temporary'
    BY <1>0, <1>w, <2>1 DEF TrueOutcomeOfBound, Temporary, NotExecuted, Bound!None
  <2> QED BY <2>2, <2>3 DEF BoundInv
<1>3. CASE Bound!Admit
  <2>1. /\ boundFlying # Bound!None
        /\ \/ boundFlying' = [boundFlying EXCEPT !.is = "queued"] /\ boundReply' = boundReply
           \/ boundFlying' = Bound!None /\ boundReply' = [is |-> "400"]
        /\ UNCHANGED <<boundPlayer, pending, did, boundKind, boundPc, boundSeen, boundOutcome>>
    BY <1>3 DEF Bound!Admit
  <2>2. \/ /\ boundFlying' = [is |-> "queued", runtime |-> boundFlying.runtime,
                              version |-> boundFlying.version, needs |-> boundFlying.needs]
           /\ boundReply' = boundReply
        \/ boundFlying' = Bound!None /\ boundReply' = [is |-> "400"]
    BY <1>0, <2>1 DEF OneBoundRequest
  <2>3. BoundTyped' /\ OneBoundRequest' /\ TrueAnswerOfBound'
    BY <1>0, <2>1, <2>2 DEF BoundTyped, OneBoundRequest, TrueAnswerOfBound, NotExecuted,
       Bound!None
  <2>4. TrueOutcomeOfBound' /\ Temporary'
    BY <1>0, <1>w, <2>1, <2>2 DEF TrueOutcomeOfBound, Temporary, NotExecuted, Bound!None
  <2> QED BY <2>3, <2>4 DEF BoundInv
<1>4. CASE Bound!Execute
  <2>1. /\ boundFlying # Bound!None /\ boundFlying.runtime \in {0, boundPlayer.runtime}
        /\ boundFlying' = Bound!None
        /\ boundReply' = [is |-> "ok", runtime |-> boundPlayer.runtime, effect |-> Bound!Effect,
                          version |-> boundFlying.version]
        /\ IF boundKind = "aspect"
           THEN pending' = [is |-> "aspect"] /\ did' = did
           ELSE /\ did' = Append(did, [runtime |-> boundPlayer.runtime, effect |-> Bound!Effect])
                /\ pending' = pending
        /\ UNCHANGED <<boundPlayer, boundKind, boundPc, boundSeen, boundOutcome>>
    BY <1>4 DEF Bound!Execute, Bound!Answer, Bound!Done
  <2>2. did = <<>> /\ pending = Bound!None
    BY <1>0, <2>1 DEF OneBoundRequest
  <2>3. boundKind # "aspect" =>
          did' = <<[runtime |-> boundPlayer.runtime, effect |-> Bound!Effect]>>
    BY <2>1, <2>2
  <2>4. BoundTyped' /\ OneBoundRequest' /\ TrueAnswerOfBound'
    BY <1>0, <2>1, <2>2, <2>3 DEF BoundTyped, OneBoundRequest, TrueAnswerOfBound, NotExecuted,
       Bound!None
  <2>5. TrueOutcomeOfBound'
    BY <1>0, <1>w, <2>1, <2>2, <2>3 DEF TrueOutcomeOfBound, OneBoundRequest, NotExecuted,
       Bound!None
  <2>6. boundKind = "session" => Bound!Effect = "temporary"
    <3>1. boundKind = "session" => boundPlayer.current
      BY <1>0, <2>1 DEF Temporary
    <3> QED BY <3>1 DEF Bound!Effect, Bound!Queue
  <2>7. Temporary'
    BY <1>0, <2>1, <2>3, <2>6 DEF Temporary, Bound!None
  <2> QED BY <2>4, <2>5, <2>7 DEF BoundInv
<1>5. CASE Bound!ApplyAspect
  <2>1. /\ pending # Bound!None /\ pending' = Bound!None
        /\ did' = Append(did, [runtime |-> boundPlayer.runtime, effect |-> "saved"])
        /\ UNCHANGED <<boundPlayer, boundFlying, boundReply, boundKind, boundPc, boundSeen,
                       boundOutcome>>
    BY <1>5 DEF Bound!ApplyAspect, Bound!Done
  <2>2. did = <<>> /\ boundKind = "aspect" /\ boundFlying = Bound!None
    BY <1>0, <2>1 DEF OneBoundRequest
  <2>3. did' = <<[runtime |-> boundPlayer.runtime, effect |-> "saved"]>>
    BY <2>1, <2>2
  <2>4. BoundTyped' /\ OneBoundRequest' /\ TrueAnswerOfBound'
    BY <1>0, <2>1, <2>2, <2>3 DEF BoundTyped, OneBoundRequest, TrueAnswerOfBound, NotExecuted,
       Bound!None
  <2>5. TrueOutcomeOfBound' /\ Temporary'
    BY <1>0, <1>w, <2>1, <2>2, <2>3 DEF TrueOutcomeOfBound, Temporary, NotExecuted, Bound!None
  <2> QED BY <2>4, <2>5 DEF BoundInv
<1>6. CASE Bound!Reject
  <2>1. /\ boundFlying # Bound!None /\ boundFlying' = Bound!None
        /\ boundReply' = [is |-> "rejected", runtime |-> boundPlayer.runtime,
                          effect |-> Bound!Effect, version |-> boundFlying.version]
        /\ UNCHANGED <<boundPlayer, pending, did, boundKind, boundPc, boundSeen, boundOutcome>>
    BY <1>6 DEF Bound!Reject, Bound!Answer
  <2>2. BoundTyped' /\ OneBoundRequest' /\ TrueAnswerOfBound'
    BY <1>0, <2>1 DEF BoundTyped, OneBoundRequest, TrueAnswerOfBound, NotExecuted, Bound!None
  <2>3. TrueOutcomeOfBound' /\ Temporary'
    BY <1>0, <1>w, <2>1 DEF TrueOutcomeOfBound, Temporary, NotExecuted, Bound!None
  <2> QED BY <2>2, <2>3 DEF BoundInv
<1>7. CASE Bound!Lose
  <2>1. /\ \/ boundFlying' = Bound!None /\ boundReply' = boundReply
           \/ boundReply' = Bound!None /\ boundFlying' = boundFlying
        /\ UNCHANGED <<boundPlayer, pending, did, boundKind, boundPc, boundSeen, boundOutcome>>
    BY <1>7 DEF Bound!Lose
  <2>2. BoundTyped' /\ OneBoundRequest' /\ TrueAnswerOfBound'
    BY <1>0, <2>1 DEF BoundTyped, OneBoundRequest, TrueAnswerOfBound, NotExecuted, Bound!None
  <2>3. TrueOutcomeOfBound' /\ Temporary'
    BY <1>0, <1>w, <2>1 DEF TrueOutcomeOfBound, Temporary, NotExecuted, Bound!None
  <2> QED BY <2>2, <2>3 DEF BoundInv
<1> QED BY <1>1, <1>2, <1>3, <1>4, <1>5, <1>6, <1>7 DEF Bound!World

\* The command alone: it reads, confirms, sends, accepts, refuses, gives up.
LEMMA BoundCommandStep ==
    ASSUME Bound!BoundAssumption, BoundInv, Bound!Command
    PROVE  BoundInv'
<1> USE DEF Bound!Ends, Bound!Goes, Bound!world
<1>0. BoundTyped /\ OneBoundRequest /\ TrueAnswerOfBound /\ TrueOutcomeOfBound /\ Temporary
  BY DEF BoundInv
<1>1. ASSUME NEW what \in {"unsent", "refused", "uncertain", "accepted"}, Bound!Ends(what),
             boundPc # "end", what \in {"unsent", "refused"} => NotExecuted,
             what = "accepted" /\ boundKind # "aspect" =>
               /\ did # <<>>
               /\ Bound!Wants.bound \/ boundKind = "detailed" =>
                    did[1].runtime = boundSeen.runtime
      PROVE  BoundInv'
  <2>1. /\ UNCHANGED <<boundPlayer, boundFlying, boundReply, pending, did, boundKind, boundSeen>>
        /\ boundPc' = "end" /\ boundOutcome' = what
    BY <1>1
  <2>2. BoundTyped' /\ OneBoundRequest' /\ TrueAnswerOfBound' /\ Temporary'
    BY <1>0, <2>1 DEF BoundTyped, OneBoundRequest, TrueAnswerOfBound, Temporary, NotExecuted,
       Bound!None
  <2>3. UNCHANGED Bound!Wants
    BY <2>1 DEF Bound!Wants, Bound!Media, Bound!Queue, Bound!LocalMedia, Bound!PlexQueue,
       Bound!LocalBrowser, Bound!PlexServers, Bound!PlexLibrary, Bound!Aspect,
       Bound!Notifications, Bound!Screenshot, Bound!RelativeSeek, Bound!OfflineProfile,
       Bound!DetailedStatus, Bound!Negotiates, Bound!MediaProbe, Bound!QueueProbe
  <2>4. TrueOutcomeOfBound'
    BY <1>1, <2>1, <2>3 DEF TrueOutcomeOfBound, NotExecuted, Bound!None
  <2> QED BY <2>2, <2>4 DEF BoundInv
<1>2. ASSUME NEW to \in {"confirm", "send"}, NEW capabilities, Bound!Goes(to, capabilities),
             boundPc \in {"read", "confirm"},
             boundKind = "session" =>
               /\ capabilities.runtime \in Nat /\ capabilities.runtime > 0
               /\ capabilities.runtime <= boundPlayer.runtime
               /\ capabilities.runtime = boundPlayer.runtime => boundPlayer.current
      PROVE  BoundInv'
  <2>1. /\ UNCHANGED <<boundPlayer, boundFlying, boundReply, pending, did, boundKind,
                       boundOutcome>>
        /\ boundPc' = to /\ boundSeen' = capabilities
    BY <1>2
  <2>2. NotExecuted /\ boundOutcome = "none"
    BY <1>0, <1>2 DEF OneBoundRequest, TrueOutcomeOfBound
  <2>3. BoundTyped' /\ OneBoundRequest' /\ TrueAnswerOfBound' /\ TrueOutcomeOfBound'
    BY <1>0, <1>2, <2>1, <2>2 DEF BoundTyped, OneBoundRequest, TrueAnswerOfBound,
       TrueOutcomeOfBound, NotExecuted,
       Bound!None
  <2>4. Temporary'
    BY <1>2, <2>1, <2>2 DEF Temporary, NotExecuted, Bound!None
  <2> QED BY <2>3, <2>4 DEF BoundInv
<1>3. CASE Bound!Fail
  BY <1>0, <1>1, <1>3 DEF Bound!Fail, OneBoundRequest
<1>4. CASE Bound!Read
  <2>1. CASE Bound!Ends("unsent")
    BY <1>0, <1>1, <1>4, <2>1 DEF Bound!Read, OneBoundRequest
  <2>2. ASSUME NEW to \in {"confirm", "send"}, Bound!Goes(to, Bound!Capabilities),
               Bound!Wants.needs \subseteq Bound!Offers(boundPlayer), boundPc = "read"
        PROVE  BoundInv'
    <3>1. Bound!Capabilities.runtime = boundPlayer.runtime
      BY DEF Bound!Capabilities
    <3>2. boundKind = "session" => boundPlayer.current
      BY <2>2, SessionWants
    <3>3. boundPlayer.runtime \in Nat /\ boundPlayer.runtime > 0
      BY <1>0 DEF BoundTyped
    <3> QED BY <1>2, <2>2, <3>1, <3>2, <3>3
  <2> QED BY <1>4, <2>1, <2>2 DEF Bound!Read
<1>5. CASE Bound!Confirm
  <2>1. CASE Bound!Ends("unsent")
    BY <1>0, <1>1, <1>5, <2>1 DEF Bound!Confirm, OneBoundRequest
  <2>2. CASE Bound!Goes("send", boundSeen)
    BY <1>0, <1>2, <1>5, <2>2 DEF Bound!Confirm, Temporary
  <2> QED BY <1>5, <2>1, <2>2 DEF Bound!Confirm
<1>6. CASE Bound!Send
  <2>1. /\ boundPc = "send" /\ boundPc' = "wait" /\ boundFlying' = Bound!Request
        /\ UNCHANGED <<boundPlayer, boundReply, pending, did, boundKind, boundSeen, boundOutcome>>
    BY <1>6 DEF Bound!Send
  <2>2. NotExecuted /\ boundReply = Bound!None /\ boundOutcome = "none"
    BY <1>0, <2>1 DEF OneBoundRequest, TrueOutcomeOfBound
  <2>3. /\ boundFlying' = [is |-> boundFlying'.is, runtime |-> boundFlying'.runtime,
                           version |-> boundFlying'.version, needs |-> boundFlying'.needs]
        /\ boundFlying'.is = "posted"
        /\ boundFlying'.runtime = (IF Bound!Wants.bound THEN boundSeen.runtime ELSE 0)
    BY <2>1 DEF Bound!Request
  <2>4. BoundTyped' /\ OneBoundRequest' /\ TrueAnswerOfBound' /\ TrueOutcomeOfBound'
    BY <1>0, <2>1, <2>2, <2>3 DEF BoundTyped, OneBoundRequest, TrueAnswerOfBound,
       TrueOutcomeOfBound, NotExecuted,
       Bound!None
  <2>5. boundKind = "session" => boundFlying'.runtime = boundSeen.runtime
    BY <2>3, SessionWants
  <2>6. Temporary'
    BY <1>0, <2>1, <2>2, <2>5 DEF Temporary, NotExecuted, Bound!None
  <2> QED BY <2>4, <2>6 DEF BoundInv
<1>7. CASE Bound!Accept
  <2>1. CASE Bound!Ends("uncertain")
    BY <1>1, <1>7, <2>1 DEF Bound!Accept
  <2>2. CASE Bound!Confirmed /\ Bound!Ends("accepted")
    <3>1. boundKind # "aspect" =>
            did = <<[runtime |-> boundReply.runtime, effect |-> boundReply.effect]>>
      BY <1>0, <1>7 DEF Bound!Accept, TrueAnswerOfBound
    <3>2. boundKind # "aspect" => did # <<>> /\ did[1].runtime = boundReply.runtime
      BY <3>1
    <3>3. Bound!Wants.bound \/ boundKind = "detailed" => boundReply.runtime = boundSeen.runtime
      BY <1>0, <2>2, EchoOfRuntime DEF BoundTyped
    <3>4. boundPc # "end"
      BY <1>7 DEF Bound!Accept
    <3> QED BY <1>1, <2>2, <3>2, <3>3, <3>4
  <2> QED BY <1>7, <2>1, <2>2 DEF Bound!Accept
<1>8. CASE Bound!Refused
  BY <1>0, <1>1, <1>8 DEF Bound!Refused, TrueAnswerOfBound
<1>9. CASE Bound!GiveUp
  BY <1>1, <1>9 DEF Bound!GiveUp
<1> QED BY <1>3, <1>4, <1>5, <1>6, <1>7, <1>8, <1>9 DEF Bound!Command

\* Every step of a bound command keeps the invariant.
LEMMA BoundStep ==
    ASSUME Bound!BoundAssumption, BoundInv, [Bound!Next]_BoundVars
    PROVE  BoundInv'
<1>1. CASE UNCHANGED BoundVars
  <2>1. UNCHANGED Bound!Wants
    BY <1>1 DEF BoundVars, Bound!Wants, Bound!Media, Bound!Queue, Bound!LocalMedia,
       Bound!PlexQueue, Bound!LocalBrowser, Bound!PlexServers, Bound!PlexLibrary, Bound!Aspect,
       Bound!Notifications, Bound!Screenshot, Bound!RelativeSeek, Bound!OfflineProfile,
       Bound!DetailedStatus, Bound!Negotiates, Bound!MediaProbe, Bound!QueueProbe
  <2> QED BY <1>1, <2>1 DEF BoundVars, BoundInv, BoundTyped, OneBoundRequest, TrueAnswerOfBound,
             TrueOutcomeOfBound,
             Temporary, NotExecuted, Bound!None
<1> QED BY <1>1, BoundWorldStep, BoundCommandStep DEF Bound!Next

\* A bound command that says nothing was sent, or was refused, has caused nothing
\* and will not; one accepted was executed once and by the runtime it relied on;
\* a temporary playback never changes the saved source (BoundCommand of
\* cli/ott.py).
LEMMA BoundCommandSafe ==
    ASSUME Bound!BoundAssumption
    PROVE  Bound!Spec => []Bound!SafeCommand
<1>1. Bound!Init => BoundInv
  BY BoundInit
<1>2. BoundInv /\ [Bound!Next]_Bound!vars => BoundInv'
  BY BoundStep DEF Bound!vars, Bound!world, Bound!cli, BoundVars
<1>3. BoundInv => Bound!SafeCommand
  <2> SUFFICES ASSUME BoundInv PROVE Bound!SafeCommand
    OBVIOUS
  <2>1. Len(did) <= 1 /\ (did # <<>> => Len(did) = 1)
    <3> DEFINE first == did[1]
    <3>1. did = <<>> \/ did = <<first>>
      BY DEF BoundInv, BoundTyped
    <3> HIDE DEF first
    <3>2. Len(<<first>>) = 1
      OBVIOUS
    <3>3. CASE did = <<>>
      BY <3>3
    <3>4. CASE did = <<first>>
      BY <3>2, <3>4
    <3> QED BY <3>1, <3>3, <3>4
  <2>2. Bound!HonestOutcome
    BY <2>1 DEF BoundInv, TrueOutcomeOfBound, NotExecuted, Bound!HonestOutcome
  <2>3. Bound!TemporaryOnly
    <3> SUFFICES ASSUME boundKind = "session", NEW i \in 1..Len(did)
                 PROVE  did[i].effect = "temporary"
      BY DEF Bound!TemporaryOnly
    <3>1. i = 1 /\ did # <<>>
      BY <2>1
    <3> QED BY <3>1 DEF BoundInv, Temporary
  <2> QED BY <2>2, <2>3 DEF Bound!SafeCommand
<1> QED BY <1>1, <1>2, <1>3, PTL DEF Bound!Spec

-----------------------------------------------------------------------------
(* Channels and media (cli/ott.py): a provider is changed, the player      *)
(* woken, a row looked up and played, each by one request at most.         *)

\* A change of the provider, a wake, or what is to be played.
Sort(op) == IF op \in {"none", "provider", "wake"} THEN op ELSE "play"
Untold(sort) == \A i \in 1..Len(began) : Sort(began[i].op) # sort

SelectionShape ==
    /\ mediaPlayer = [provider |-> mediaPlayer.provider, lineup |-> mediaPlayer.lineup,
                      revision |-> mediaPlayer.revision, ready |-> mediaPlayer.ready,
                      loading |-> mediaPlayer.loading, standby |-> mediaPlayer.standby]
    /\ mediaPlayer.revision \in Nat /\ token \in Nat /\ token <= mediaPlayer.revision

\* Each change is made once, and what is on its way was not made before.
ChangesOnce ==
    /\ \A i \in 1..Len(began) : began[i].op # "none"
    /\ \A i, j \in 1..Len(began) : Sort(began[i].op) = Sort(began[j].op) => i = j
    /\ mediaFlying # Selection!Nothing =>
         /\ mediaFlying.op \in {"provider", "wake", "select", "item", "any", "number"}
         /\ Untold(Sort(mediaFlying.op))
    /\ mediaReply.status # "none" => mediaFlying = Selection!Nothing

\* What cannot have been made, nor asked for, yet.
NotYetSent ==
    /\ mediaPc \notin {"switching", "waking", "playing", "end"} => mediaFlying = Selection!Nothing
    /\ mediaPc = "playing" => Sort(mediaFlying.op) \in {"none", "play"}
    /\ mediaPc \in {"start", "switch"} => Untold("provider")
    /\ ~awake => Untold("wake") /\ mediaFlying.op # "wake"
    /\ mediaPc \notin {"playing", "end"} \/ mediaSays.is = "no" =>
         Untold("play") /\ Sort(mediaFlying.op) # "play"

\* The catalogue that a provider command plays from is the provider's.
ProviderBound ==
    /\ mediaPc = "bind" => mediaCommand # "provider"
    /\ mediaCommand = "provider" /\ Sort(mediaFlying.op) = "play" =>
         mediaFlying.op \in {"any", "item"} /\ mediaFlying.token = token
    /\ mediaCommand = "provider" /\ (mediaPc = "play" \/ Sort(mediaFlying.op) = "play") =>
         (token = mediaPlayer.revision => mediaPlayer.provider = Destination)

\* The command looks for channels that match.
Wants ==
    /\ \A r \in mediaRows : r.channel \in Wanted
    /\ mediaChosen # Selection!NoRow => mediaChosen.channel \in Wanted

\* Somewhere the player began to show this row.
Began(row) ==
    \E i \in 1..Len(began) :
      /\ Sort(began[i].op) = "play" /\ began[i].row = row
      /\ mediaCommand = "provider" => began[i].provider = Destination

\* What the command says of what plays.
TrueReports ==
    /\ mediaPc = "playing" =>
         /\ mediaReply.status = "rejected" => Untold("play")
         /\ mediaReply.status \notin {"none", "rejected"} => Began(mediaReply.row)
    /\ mediaPc # "end" => mediaSays.is = "none"
    /\ mediaSays.is = "yes" =>
         /\ Began(mediaSays.row)
         /\ mediaCommand \in {"play", "exact", "provider"} => mediaSays.row.channel \in Wanted

SelectionParts == SelectionShape /\ ChangesOnce /\ NotYetSent /\ ProviderBound /\ Wants
     /\ TrueReports
SelectionInv == (\E S : began \in Seq(S)) /\ SelectionParts

\* A sequence stays one when something is appended to it.
LEMMA AppendAny ==
    ASSUME NEW b, \E S : b \in Seq(S), NEW e
    PROVE  /\ \E S : Append(b, e) \in Seq(S)
           /\ Len(b) \in Nat /\ Len(Append(b, e)) = Len(b) + 1
           /\ \A i \in 1..Len(b) : Append(b, e)[i] = b[i]
           /\ Append(b, e)[Len(b) + 1] = e
<1>1. PICK S : b \in Seq(S)
  OBVIOUS
<1>2. b \in Seq(S \cup {e})
  BY <1>1
<1>3. Append(b, e) \in Seq(S \cup {e})
  BY <1>2
<1> QED BY <1>1, <1>2, <1>3

\* A command begins with nothing changed and nothing looked up.
LEMMA SelectionInit ==
    ASSUME Selection!SelectionAssumption, Selection!Init
    PROVE  SelectionInv
<1>1. PICK p \in DOMAIN Lineups, ready \in BOOLEAN, standby \in BOOLEAN :
        \E l \in Lineups[p] :
          mediaPlayer = [provider |-> p, lineup |-> l, revision |-> 1,
                         ready |-> ready, loading |-> ~ready, standby |-> standby]
  BY DEF Selection!Init
<1>2. SelectionShape
  BY <1>1 DEF Selection!Init, SelectionShape
<1>3. began = <<>> /\ began \in Seq({}) /\ Len(began) = 0
  BY DEF Selection!Init
<1>4. mediaFlying.op = "none" /\ mediaReply.status = "none" /\ mediaSays.is = "none"
  BY DEF Selection!Init, Selection!Nothing, Selection!NoReply, Selection!Unsaid
<1>5. ChangesOnce /\ NotYetSent /\ ProviderBound /\ Wants /\ TrueReports
  BY <1>3, <1>4 DEF Selection!Init, Selection!Nothing, Selection!NoReply, ChangesOnce,
     NotYetSent, ProviderBound, Wants, TrueReports, Untold, Sort
<1> QED BY <1>2, <1>3, <1>5 DEF SelectionInv, SelectionParts

\* A step that ends the command.
LEMMA SelectionEnds ==
    ASSUME SelectionInv, NEW what, NEW row, Selection!Ends(what, row), UNCHANGED Selection!world,
           what = "no" => Untold("play") /\ Sort(mediaFlying.op) # "play",
           what = "yes" =>
             /\ Began(row)
             /\ mediaCommand \in {"play", "exact", "provider"} => row.channel \in Wanted
    PROVE  SelectionInv'
<1>1. /\ mediaSays' = [is |-> what, row |-> row] /\ mediaPc' = "end"
      /\ UNCHANGED <<mediaPlayer, mediaFlying, mediaReply, began, mediaCommand, token, mediaRows,
                     restarted, awake, mediaChosen>>
  BY DEF Selection!Ends, Selection!world, Selection!lookup
<1>2. mediaSays'.is = what /\ mediaSays'.row = row
  BY <1>1
<1>3. SelectionShape' /\ ChangesOnce' /\ Wants'
  BY <1>1 DEF SelectionInv, SelectionParts, SelectionShape, ChangesOnce, Wants, Untold, Sort,
     Selection!Nothing, Selection!NoRow
<1>4. NotYetSent' /\ ProviderBound'
  BY <1>1, <1>2 DEF SelectionInv, SelectionParts, NotYetSent, ProviderBound, Untold, Sort,
     Selection!Nothing
<1>5. TrueReports'
  BY <1>1, <1>2 DEF TrueReports, Began
<1> QED BY <1>1, <1>3, <1>4, <1>5 DEF SelectionInv, SelectionParts

\* A step of the lookup: nothing is on its way.
LEMMA SelectionLooks ==
    ASSUME SelectionInv, mediaFlying = Selection!Nothing, mediaPc \notin {"playing", "end"},
           UNCHANGED <<mediaPlayer, mediaFlying, mediaReply, began, mediaCommand, awake, mediaSays>>,
           mediaPc' \in {"switch", "ready", "catalogue", "rows", "select", "bind", "recheck",
                         "play"},
           mediaPc' = "switch" => mediaPc = "start",
           mediaPc' = "bind" => mediaCommand # "provider",
           mediaPc' = "play" /\ mediaCommand = "provider" =>
             mediaPlayer.provider = Destination,
           token' \in {token, mediaPlayer.revision},
           \A r \in mediaRows' : r.channel \in Wanted,
           mediaChosen' # Selection!NoRow => mediaChosen'.channel \in Wanted
    PROVE  SelectionInv'
<1>0. mediaFlying.op = "none" /\ Sort(mediaFlying.op) = "none"
  BY DEF Selection!Nothing, Sort
<1>1. SelectionShape' /\ ChangesOnce' /\ Wants'
  BY DEF SelectionInv, SelectionParts, SelectionShape, ChangesOnce, Wants, Untold, Sort,
     Selection!Nothing, Selection!NoRow
<1>2. NotYetSent'
  BY <1>0 DEF SelectionInv, SelectionParts, NotYetSent, Untold, Sort, Selection!Nothing
<1>3. ProviderBound' /\ TrueReports'
  BY <1>0 DEF SelectionInv, SelectionParts, ProviderBound, TrueReports, Sort, Began
<1> QED BY <1>1, <1>2, <1>3 DEF SelectionInv, SelectionParts

\* A step that sends a change not made before.
LEMMA SelectionSends ==
    ASSUME SelectionInv, mediaFlying = Selection!Nothing, NEW request, NEW after,
           Selection!Send(request, after), UNCHANGED <<mediaCommand, Selection!lookup, mediaSays>>,
           mediaPc # "end",
           request.op \in {"provider", "wake", "select", "item", "any", "number"},
           \/ mediaPc = "switch" /\ request.op = "provider" /\ after = "switching"
                /\ awake' = awake
           \/ mediaPc = "ready" /\ request.op = "wake" /\ after = "waking" /\ ~awake /\ awake'
           \/ /\ mediaPc = "play" /\ Sort(request.op) = "play" /\ after = "playing"
              /\ awake' = awake
              /\ mediaCommand = "provider" =>
                   request.op \in {"any", "item"} /\ request.token = token
    PROVE  SelectionInv'
<1>1. /\ mediaFlying' = request /\ mediaReply' = Selection!NoReply /\ mediaPc' = after
      /\ UNCHANGED <<mediaPlayer, began, mediaCommand, token, mediaRows, mediaChosen, mediaSays>>
      /\ mediaReply'.status = "none"
  BY DEF Selection!Send, Selection!lookup, Selection!NoReply
<1>2. /\ Sort(request.op) # "none" /\ request.op # "none" /\ Untold(Sort(request.op))
      /\ Sort("provider") = "provider" /\ Sort("wake") = "wake"
      /\ mediaSays.is = "none"
  BY DEF SelectionInv, SelectionParts, NotYetSent, TrueReports, Sort
<1>3. SelectionShape' /\ ChangesOnce' /\ Wants'
  BY <1>1, <1>2 DEF SelectionInv, SelectionParts, SelectionShape, ChangesOnce, Wants, Untold,
     Sort,
     Selection!Nothing, Selection!NoRow
<1>4. NotYetSent'
  BY <1>1, <1>2 DEF SelectionInv, SelectionParts, NotYetSent, Untold, Sort, Selection!Nothing
<1>5. ProviderBound' /\ TrueReports'
  BY <1>1, <1>2 DEF SelectionInv, SelectionParts, ProviderBound, TrueReports, Sort, Began
<1> QED BY <1>1, <1>3, <1>4, <1>5 DEF SelectionInv, SelectionParts

\* What happens to the player without the command.
LEMMA SelectionViewer ==
    ASSUME SelectionInv,
           UNCHANGED <<mediaFlying, mediaReply, began, mediaCommand, mediaPc, token, mediaRows, awake,
                       mediaChosen, mediaSays>>,
           mediaPlayer' = [provider |-> mediaPlayer'.provider, lineup |-> mediaPlayer'.lineup,
                      revision |-> mediaPlayer'.revision, ready |-> mediaPlayer'.ready,
                      loading |-> mediaPlayer'.loading, standby |-> mediaPlayer'.standby],
           \/ mediaPlayer'.revision = mediaPlayer.revision + 1
           \/ /\ mediaPlayer'.revision = mediaPlayer.revision
              /\ mediaPlayer'.provider = mediaPlayer.provider
    PROVE  SelectionInv'
<1>1. SelectionShape'
  BY DEF SelectionInv, SelectionParts, SelectionShape
<1>2. ProviderBound'
  <2>1. /\ mediaPlayer.revision \in Nat /\ token \in Nat /\ token <= mediaPlayer.revision
        /\ ProviderBound
    BY DEF SelectionInv, SelectionParts, SelectionShape
  <2>2. token' = mediaPlayer'.revision =>
          token = mediaPlayer.revision /\ mediaPlayer'.provider = mediaPlayer.provider
    BY <2>1
  <2> QED BY <2>1, <2>2 DEF ProviderBound, Sort
<1>3. ChangesOnce' /\ Wants' /\ NotYetSent' /\ TrueReports'
  BY DEF SelectionInv, SelectionParts, ChangesOnce, Wants, NotYetSent, TrueReports, Untold, Sort,
     Began, Selection!Nothing, Selection!NoRow
<1> QED BY <1>1, <1>2, <1>3 DEF SelectionInv, SelectionParts

\* The player takes a change.
LEMMA SelectionExecute ==
    ASSUME Selection!SelectionAssumption, SelectionInv, Selection!Execute
    PROVE  SelectionInv'
<1> DEFINE op == mediaFlying.op
<1>0. /\ op # "none" /\ mediaFlying' = Selection!Nothing /\ mediaFlying # Selection!Nothing
      /\ UNCHANGED <<mediaCommand, mediaPc, token, mediaRows, awake, mediaChosen, mediaSays>>
      /\ Selection!Carry
  BY DEF Selection!Execute, Selection!cli, Selection!lookup, Selection!Nothing
<1>1. /\ SelectionShape /\ ChangesOnce /\ NotYetSent /\ ProviderBound /\ Wants /\ TrueReports
      /\ \E S : began \in Seq(S)
  BY DEF SelectionInv, SelectionParts
<1>2. PICK row : /\ began' = Selection!Did(row)
                 /\ mediaReply' = [status |-> "ok", row |-> row]
                 /\ \/ mediaPlayer' = mediaPlayer
                    \/ op = "wake" /\ mediaPlayer' = [mediaPlayer EXCEPT !.standby = FALSE]
                    \/ \E p, l : op = "provider" /\ mediaPlayer' = Selection!Loaded(p, l)
                 /\ op \in {"any", "item"} => mediaFlying.token = mediaPlayer.revision
  <2>1. CASE op = "provider"
    <3>1. /\ \/ mediaPlayer' = mediaPlayer
             \/ mediaPlayer' = Selection!Loaded(Destination,
                                                CHOOSE l \in Lineups[Destination] : TRUE)
          /\ mediaReply' = [status |-> "ok", row |-> Selection!NoRow]
          /\ began' = Selection!Did(Selection!NoRow)
      BY <1>0, <2>1 DEF Selection!Carry
    <3> QED BY <2>1, <3>1
  <2>2. CASE op = "wake"
    <3>1. /\ mediaPlayer' = [mediaPlayer EXCEPT !.standby = FALSE]
          /\ mediaReply' = [status |-> "ok", row |-> Selection!NoRow]
          /\ began' = Selection!Did(Selection!NoRow)
      BY <1>0, <2>2 DEF Selection!Carry
    <3> QED BY <2>2, <3>1
  <2>3. CASE op \in {"select", "item", "any", "number"}
    <3>1. /\ \E row : Selection!Shows(row)
          /\ op \in {"any", "item"} => mediaFlying.token = mediaPlayer.revision
      <4>1. CASE op = "select"
        BY <1>0, <4>1 DEF Selection!Carry
      <4>2. CASE op = "item"
        BY <1>0, <4>2 DEF Selection!Carry
      <4>3. CASE op = "any"
        <5>1. mediaFlying.token = mediaPlayer.revision /\ \E row : Selection!Shows(row)
          BY <1>0, <4>3 DEF Selection!Carry
        <5> QED BY <5>1
      <4>4. CASE op = "number"
        <5>1. \E row : Selection!Shows(row)
          BY <1>0, <4>4 DEF Selection!Carry
        <5> QED BY <4>4, <5>1
      <4> QED BY <2>3, <4>1, <4>2, <4>3, <4>4
    <3> QED BY <3>1 DEF Selection!Shows
  <2> QED BY <1>0, <1>1, <2>1, <2>2, <2>3 DEF ChangesOnce
<1> DEFINE n == Len(began) + 1
           new == [op |-> op, row |-> row, provider |-> mediaPlayer.provider]
<1>3. /\ \E S : began' \in Seq(S)
      /\ Len(began) \in Nat /\ Len(began') = n /\ began'[n] = new
      /\ \A i \in 1..Len(began) : began'[i] = began[i]
  <2>1. began' = Append(began, new) /\ \E S : began \in Seq(S)
    BY <1>1, <1>2 DEF Selection!Did
  <2> HIDE DEF new
  <2>2. /\ \E S : Append(began, new) \in Seq(S)
        /\ Len(began) \in Nat /\ Len(Append(began, new)) = Len(began) + 1
        /\ \A i \in 1..Len(began) : Append(began, new)[i] = began[i]
        /\ Append(began, new)[Len(began) + 1] = new
    BY <2>1, AppendAny
  <2> QED BY <2>1, <2>2
<1>4. /\ n \in 1..n /\ \A i \in 1..n : i \in 1..Len(began) \/ i = n
      /\ \A i \in 1..Len(began) : i \in 1..n
  <2>1. Len(began) \in Nat
    BY <1>3
  <2> QED BY <2>1
<1>5. /\ new.op = op /\ new.row = row /\ new.provider = mediaPlayer.provider
      /\ mediaReply'.status = "ok" /\ mediaReply'.row = row
      /\ mediaFlying'.op = "none" /\ Sort("none") = "none"
  BY <1>0, <1>2 DEF Selection!Nothing, Sort
<1> HIDE DEF n, new
<1>6. mediaPc \notin {"start", "ready", "catalogue", "rows", "select", "bind", "recheck",
                     "switch", "play"}
  BY <1>0, <1>1 DEF NotYetSent
<1>7. SelectionShape'
  <2>1. CASE mediaPlayer' = mediaPlayer
    BY <1>0, <1>1, <2>1 DEF SelectionShape
  <2>2. CASE mediaPlayer' = [mediaPlayer EXCEPT !.standby = FALSE]
    <3>1. /\ mediaPlayer' = [provider |-> mediaPlayer.provider, lineup |-> mediaPlayer.lineup,
                             revision |-> mediaPlayer.revision, ready |-> mediaPlayer.ready,
                             loading |-> mediaPlayer.loading, standby |-> FALSE]
      BY <1>1, <2>2 DEF SelectionShape
    <3> QED BY <1>0, <1>1, <3>1 DEF SelectionShape
  <2>3. ASSUME NEW p, NEW l, mediaPlayer' = Selection!Loaded(p, l) PROVE SelectionShape'
    <3>1. /\ mediaPlayer' = [provider |-> p, lineup |-> l,
                             revision |-> mediaPlayer.revision + 1, ready |-> FALSE,
                             loading |-> TRUE, standby |-> mediaPlayer.standby]
      BY <1>1, <2>3 DEF SelectionShape, Selection!Loaded
    <3> QED BY <1>0, <1>1, <3>1 DEF SelectionShape
  <2> QED BY <1>2, <2>1, <2>2, <2>3
<1>8. ASSUME NEW sort, Untold(sort), Sort(op) # sort PROVE Untold(sort)'
  BY <1>3, <1>4, <1>5, <1>8 DEF Untold, Sort
<1>9. ChangesOnce'
  <2>1. Untold(Sort(op))
    BY <1>0, <1>1 DEF ChangesOnce
  <2>2. \A i, j \in 1..n : Sort(began'[i].op) = Sort(began'[j].op) => i = j
    BY <1>1, <1>3, <1>4, <1>5, <2>1 DEF ChangesOnce, Untold
  <2>3. \A i \in 1..n : began'[i].op # "none"
    BY <1>0, <1>1, <1>3, <1>4, <1>5 DEF ChangesOnce
  <2> QED BY <1>0, <1>3, <2>2, <2>3 DEF ChangesOnce, Sort
<1>10. NotYetSent'
  <2>1. mediaPc \notin {"playing", "end"} \/ mediaSays.is = "no" => Untold("play")'
    BY <1>1, <1>8 DEF NotYetSent
  <2>2. ~awake => Untold("wake")'
    <3>1. ~awake => Sort(op) # "wake"
      BY <1>1 DEF NotYetSent, Sort
    <3> QED BY <1>1, <1>8, <3>1 DEF NotYetSent
  <2> QED BY <1>0, <1>5, <1>6, <2>1, <2>2 DEF NotYetSent
<1>11. ProviderBound' /\ Wants'
  BY <1>0, <1>1, <1>5, <1>6 DEF ProviderBound, Wants, Selection!NoRow
<1>12. \A r : Began(r) => Began(r)'
  BY <1>0, <1>3, <1>4 DEF Began, Sort
<1>13. mediaPc = "playing" => Began(row)'
  <2> SUFFICES ASSUME mediaPc = "playing" PROVE Began(row)'
    OBVIOUS
  <2>1. Sort(op) = "play"
    BY <1>0, <1>1 DEF NotYetSent, Sort, ChangesOnce
  <2>2. mediaCommand = "provider" => mediaPlayer.provider = Destination
    BY <1>1, <1>2, <2>1 DEF ProviderBound
  <2> QED BY <1>0, <1>3, <1>4, <1>5, <2>1, <2>2 DEF Began, Sort
<1>14. TrueReports'
  BY <1>0, <1>1, <1>5, <1>12, <1>13 DEF TrueReports
<1> QED BY <1>3, <1>7, <1>9, <1>10, <1>11, <1>14 DEF SelectionInv, SelectionParts

\* Every step of the selection keeps the invariant.
LEMMA SelectionStep ==
    ASSUME Selection!SelectionAssumption, SelectionInv, [Selection!Next]_SelectionVars
    PROVE  SelectionInv'
<1> USE DEF Selection!cli, Selection!lookup, Selection!world, Selection!Goes
<1>0. /\ SelectionShape /\ ChangesOnce /\ NotYetSent /\ ProviderBound /\ Wants /\ TrueReports
  BY DEF SelectionInv, SelectionParts
<1>a. /\ mediaFlying.op # "none" => mediaFlying # Selection!Nothing
      /\ Selection!Nothing.op = "none" /\ Sort("none") = "none"
  BY DEF Selection!Nothing, Sort
<1>b. \A r \in Selection!Matching(Selection!Current) : r.channel \in Wanted
  BY DEF Selection!Matching
<1>1. CASE UNCHANGED SelectionVars
  BY <1>0, <1>1, SelectionViewer DEF SelectionVars, SelectionShape
<1>2. ASSUME NEW p, NEW l, Selection!Reload(p, l) PROVE SelectionInv'
  <2>1. mediaPlayer' = [provider |-> p, lineup |-> l,
                        revision |-> mediaPlayer.revision + 1, ready |-> FALSE,
                        loading |-> TRUE, standby |-> mediaPlayer.standby]
    BY <1>0, <1>2 DEF Selection!Reload, Selection!Loaded, SelectionShape
  <2> QED BY <1>2, <2>1, SelectionViewer DEF Selection!Reload
<1>3. CASE Selection!Ready \/ Selection!Standby
  <2>1. \/ mediaPlayer' = [mediaPlayer EXCEPT !.loading = FALSE]
        \/ mediaPlayer' = [mediaPlayer EXCEPT !.ready = TRUE]
        \/ mediaPlayer' = [mediaPlayer EXCEPT !.standby = TRUE]
    BY <1>3 DEF Selection!Ready, Selection!Standby
  <2>2. mediaPlayer' = [provider |-> mediaPlayer.provider, lineup |-> mediaPlayer.lineup,
                        revision |-> mediaPlayer.revision, ready |-> mediaPlayer'.ready,
                        loading |-> mediaPlayer'.loading, standby |-> mediaPlayer'.standby]
    BY <1>0, <2>1 DEF SelectionShape
  <2> QED BY <1>3, <2>2, SelectionViewer DEF Selection!Ready, Selection!Standby
<1>4. CASE Selection!RejectChange \/ Selection!Expire
  <2>1. /\ mediaFlying # Selection!Nothing /\ mediaFlying' = Selection!Nothing
        /\ mediaReply' = mediaReply \/ mediaReply' = [status |-> "rejected"]
        /\ UNCHANGED <<mediaPlayer, began, mediaCommand, mediaPc, token, mediaRows, awake,
                       mediaChosen, mediaSays>>
    BY <1>4, <1>a DEF Selection!RejectChange, Selection!Expire
  <2>2. mediaPc = "playing" => Untold("play")
    BY <1>0, <1>a, <2>1 DEF NotYetSent, ChangesOnce, Sort
  <2>3. SelectionShape' /\ ChangesOnce' /\ Wants'
    BY <1>0, <2>1 DEF SelectionShape, ChangesOnce, Wants, Untold, Sort, Selection!Nothing,
       Selection!NoRow
  <2>4. NotYetSent' /\ ProviderBound'
    BY <1>0, <1>a, <2>1 DEF NotYetSent, ProviderBound, Untold, Sort, Selection!Nothing
  <2>5. TrueReports'
    BY <1>0, <2>1, <2>2 DEF TrueReports, Untold, Began, Sort, ChangesOnce
  <2> QED BY <2>1, <2>3, <2>4, <2>5 DEF SelectionInv, SelectionParts
<1>5. CASE Selection!Fail
  BY <1>0, <1>a, <1>5, SelectionEnds DEF Selection!Fail, Selection!Searching, NotYetSent
<1>6. CASE Selection!Start
  <2>1. mediaPc = "start" /\ mediaPc' \in {"play", "switch", "catalogue"}
        /\ (mediaPc' = "play" => mediaCommand # "provider")
    BY <1>6 DEF Selection!Start
  <2> QED BY <1>0, <1>6, <2>1, SelectionLooks DEF Selection!Start, NotYetSent, Wants
<1>7. CASE Selection!Categories
  <2>1. mediaFlying = Selection!Nothing
    BY <1>0, <1>7 DEF Selection!Categories, NotYetSent
  <2> QED BY <1>0, <1>7, <2>1, SelectionLooks DEF Selection!Categories, Wants
<1>8. CASE Selection!Reread
  <2>1. /\ mediaFlying = Selection!Nothing /\ Untold("play") /\ Sort(mediaFlying.op) # "play"
        /\ mediaPc \in {"catalogue", "rows"}
    BY <1>0, <1>8 DEF Selection!Reread, NotYetSent
  <2>2. CASE Selection!Goes("catalogue")
    BY <1>0, <1>8, <2>1, <2>2, SelectionLooks DEF Selection!Reread, Wants
  <2>3. CASE Selection!Ends("no", Selection!NoRow)
    BY <1>8, <2>1, <2>3, SelectionEnds DEF Selection!Reread
  <2> QED BY <1>8, <2>2, <2>3 DEF Selection!Reread
<1>9. CASE Selection!Page
  <2>1. mediaFlying = Selection!Nothing /\ \A r \in mediaRows' : r.channel \in Wanted
    BY <1>0, <1>9, <1>b DEF Selection!Page, NotYetSent, Wants
  <2> QED BY <1>0, <1>9, <2>1, SelectionLooks DEF Selection!Page, Wants
<1>10. CASE Selection!Complete
  <2>1. mediaFlying = Selection!Nothing
    BY <1>0, <1>10 DEF Selection!Complete, NotYetSent
  <2> QED BY <1>0, <1>10, <2>1, SelectionLooks DEF Selection!Complete, Wants
<1>11. CASE Selection!Changed
  <2>1. /\ mediaFlying = Selection!Nothing /\ Untold("play") /\ Sort(mediaFlying.op) # "play"
        /\ mediaPc = "rows"
    BY <1>0, <1>11 DEF Selection!Changed, NotYetSent
  <2>2. CASE mediaPc' = "catalogue" /\ UNCHANGED <<mediaCommand, token, mediaRows, mediaChosen,
                                                   awake, mediaSays>>
    BY <1>0, <1>11, <2>1, <2>2, SelectionLooks DEF Selection!Changed, Wants
  <2>3. CASE Selection!Ends("no", Selection!NoRow)
    BY <1>11, <2>1, <2>3, SelectionEnds DEF Selection!Changed
  <2> QED BY <1>11, <2>2, <2>3 DEF Selection!Changed
<1>12. CASE Selection!WholeList
  <2>1. mediaFlying = Selection!Nothing /\ \A r \in mediaRows' : r.channel \in Wanted
    BY <1>0, <1>12, <1>b DEF Selection!WholeList, NotYetSent
  <2> QED BY <1>0, <1>12, <2>1, SelectionLooks DEF Selection!WholeList, Wants
<1>13. CASE Selection!Select
  <2>1. mediaFlying = Selection!Nothing /\ mediaPc = "select"
    BY <1>0, <1>13 DEF Selection!Select, NotYetSent
  <2>2. mediaChosen' # Selection!NoRow => mediaChosen'.channel \in Wanted
    BY <1>0, <1>13 DEF Selection!Select, Selection!ExactRows, Wants
  <2>3. /\ mediaPc' \in {"play", "bind", "recheck"}
        /\ mediaCommand = "provider" => mediaPc' = "recheck"
    BY <1>13 DEF Selection!Select
  <2> QED BY <1>0, <1>13, <2>1, <2>2, <2>3, SelectionLooks DEF Selection!Select, Wants
<1>14. CASE Selection!Bind
  <2>1. mediaFlying = Selection!Nothing /\ mediaCommand # "provider"
    BY <1>0, <1>14 DEF Selection!Bind, NotYetSent, ProviderBound
  <2> QED BY <1>0, <1>14, <2>1, SelectionLooks DEF Selection!Bind, Wants
<1>15. CASE Selection!Switch
  <2>1. mediaFlying = Selection!Nothing
    BY <1>0, <1>15 DEF Selection!Switch, NotYetSent
  <2> QED BY <1>15, <2>1, SelectionSends DEF Selection!Switch
<1>16. CASE Selection!Switched \/ Selection!Woken
  <2>1. mediaFlying = Selection!Nothing
    BY <1>0, <1>16 DEF Selection!Switched, Selection!Woken, ChangesOnce
  <2> QED BY <1>0, <1>16, <2>1, SelectionLooks DEF Selection!Switched, Selection!Woken, Wants
<1>17. CASE Selection!AwaitReady
  <2>1. mediaFlying = Selection!Nothing /\ mediaPc = "ready"
    BY <1>0, <1>17 DEF Selection!AwaitReady, NotYetSent
  <2>2. CASE /\ ~awake /\ awake' = TRUE /\ Selection!Send([op |-> "wake"], "waking")
             /\ UNCHANGED <<mediaCommand, Selection!lookup, mediaSays>>
    BY <2>1, <2>2, SelectionSends
  <2>3. CASE Selection!Goes("catalogue") /\ UNCHANGED Selection!world
    BY <1>0, <2>1, <2>3, SelectionLooks DEF Wants
  <2> QED BY <1>17, <2>2, <2>3 DEF Selection!AwaitReady
<1>18. CASE Selection!Unconfirmed
  BY <1>0, <1>a, <1>18, SelectionEnds DEF Selection!Unconfirmed, NotYetSent
<1>19. CASE Selection!Recheck
  <2>1. /\ mediaFlying = Selection!Nothing /\ Untold("play") /\ Sort(mediaFlying.op) # "play"
        /\ mediaPc = "recheck"
    BY <1>0, <1>19 DEF Selection!Recheck, NotYetSent
  <2>2. CASE Selection!Settled /\ Selection!Goes("play")
    BY <1>0, <1>19, <2>1, <2>2, SelectionLooks DEF Selection!Recheck, Selection!Settled, Wants
  <2>3. CASE Selection!Ends("no", Selection!NoRow)
    BY <1>19, <2>1, <2>3, SelectionEnds DEF Selection!Recheck
  <2> QED BY <1>19, <2>2, <2>3 DEF Selection!Recheck
<1>20. CASE Selection!Play
  <2>1. mediaFlying = Selection!Nothing /\ mediaPc = "play"
    BY <1>0, <1>20 DEF Selection!Play, NotYetSent
  <2>2. /\ Selection!Request.op \in {"select", "item", "any", "number"}
        /\ mediaCommand = "provider" =>
             Selection!Request.op \in {"any", "item"} /\ Selection!Request.token = token
    BY DEF Selection!Request
  <2>3. Sort(Selection!Request.op) = "play"
    BY <2>2 DEF Sort
  <2> QED BY <1>20, <2>1, <2>2, <2>3, SelectionSends DEF Selection!Play
<1>21. CASE Selection!NotPlayed
  <2>1. Untold("play") /\ Sort(mediaFlying.op) # "play"
    BY <1>0, <1>21 DEF Selection!NotPlayed, NotYetSent
  <2> QED BY <1>21, <2>1, SelectionEnds DEF Selection!NotPlayed
<1>22. CASE Selection!Receive
  <2>1. mediaFlying = Selection!Nothing /\ mediaPc = "playing" /\ Sort(mediaFlying.op) # "play"
    BY <1>0, <1>a, <1>22 DEF Selection!Receive, ChangesOnce
  <2>2. CASE mediaReply.status = "rejected" /\ Selection!Ends("no", Selection!NoRow)
    BY <1>0, <1>22, <2>1, <2>2, SelectionEnds DEF Selection!Receive, TrueReports
  <2>3. CASE /\ mediaReply.status \notin {"none", "rejected"}
       /\ Selection!Confirmed(mediaReply.row)
             /\ Selection!Ends("yes", mediaReply.row)
    <3>1. Began(mediaReply.row)
      BY <1>0, <2>1, <2>3 DEF TrueReports
    <3>2. mediaCommand \in {"play", "exact", "provider"} => mediaReply.row.channel \in Wanted
      BY <1>0, <2>3 DEF Selection!Confirmed, Selection!ExactRows, Wants
    <3> QED BY <1>22, <2>3, <3>1, <3>2, SelectionEnds DEF Selection!Receive
  <2>4. CASE Selection!Ends("unknown", Selection!NoRow)
    BY <1>22, <2>4, SelectionEnds DEF Selection!Receive
  <2> QED BY <1>22, <2>2, <2>3, <2>4 DEF Selection!Receive
<1>23. CASE Selection!GiveUp
  BY <1>23, SelectionEnds DEF Selection!GiveUp
<1>24. CASE Selection!Execute
  BY <1>24, SelectionExecute
<1> QED BY <1>1, <1>2, <1>3, <1>4, <1>5, <1>6, <1>7, <1>8, <1>9, <1>10, <1>11, <1>12, <1>13,
           <1>14, <1>15, <1>16, <1>17, <1>18, <1>19, <1>20, <1>21, <1>22, <1>23, <1>24
        DEF Selection!Next, Selection!Viewer, Selection!Answers, Selection!Lookup,
            Selection!Change

\* A set whose members are all the same has at most one.
LEMMA AtMostOne ==
    ASSUME NEW S, \A x, y \in S : x = y
    PROVE  Selection!Cardinality(S) <= 1
<1>1. Selection!Cardinality(S) = Cardinality(S)
  BY DEF Selection!Cardinality, Cardinality
<1>2. Cardinality({}) = 0
  BY FS_EmptySet
<1>3. Cardinality(S) <= 1
  <2>1. CASE S = {}
    BY <1>2, <2>1
  <2>2. CASE S # {}
    <3>1. PICK x : x \in S
      BY <2>2
    <3>2. S = {x}
      BY <3>1
    <3>3. Cardinality({x}) = 1
      BY FS_Singleton
    <3> QED BY <3>2, <3>3
  <2> QED BY <2>1, <2>2
<1> QED BY <1>1, <1>3

\* A selection changes the provider, wakes and plays at most once each; one that
\* says no has played nothing; one that says yes has played that row, of the
\* channels and the provider asked for (MediaSelection of cli/ott.py).
LEMMA SelectionHonest ==
    ASSUME Selection!SelectionAssumption
    PROVE  Selection!Spec => []Selection!HonestDispatch
<1>1. Selection!Init => SelectionInv
  BY SelectionInit
<1>2. SelectionInv /\ [Selection!Next]_Selection!vars => SelectionInv'
  BY SelectionStep DEF Selection!vars, Selection!lookup, SelectionVars
<1>3. SelectionInv => Selection!HonestDispatch
  <2> SUFFICES ASSUME SelectionInv PROVE Selection!HonestDispatch
    OBVIOUS
  <2>0. ChangesOnce /\ NotYetSent /\ TrueReports
    BY DEF SelectionInv, SelectionParts
  <2>1. \A i \in 1..Len(began) :
          i \in Selection!Plays <=> Sort(began[i].op) = "play"
    BY <2>0 DEF Selection!Plays, ChangesOnce, Sort
  <2>2. \A i, j \in 1..Len(began) : Sort(began[i].op) = Sort(began[j].op) => i = j
    BY <2>0 DEF ChangesOnce
  <2>3. Selection!Plays \subseteq 1..Len(began)
    BY DEF Selection!Plays
  <2>4. Selection!Cardinality(Selection!Plays) <= 1
    <3>1. \A x, y \in Selection!Plays : x = y
      BY <2>1, <2>2, <2>3
    <3> QED BY <3>1, AtMostOne
  <2>5. ASSUME NEW op \in {"provider", "wake"} PROVE Selection!Times(op) <= 1
    <3> DEFINE S == {i \in 1..Len(began) : began[i].op = op}
    <3>1. \A x, y \in S : x = y
      BY <2>2
    <3>2. Selection!Cardinality(S) <= 1
      <4> HIDE DEF S
      <4> QED BY <3>1, AtMostOne
    <3> QED BY <3>2 DEF Selection!Times
  <2>6. mediaSays.is = "no" => Selection!Plays = {}
    BY <2>0, <2>1, <2>3 DEF NotYetSent, Untold
  <2>7. mediaSays.is = "yes" =>
          \E i \in Selection!Plays :
            /\ began[i].row = mediaSays.row
            /\ mediaCommand = "provider" => began[i].provider = Destination
            /\ mediaCommand \in {"play", "exact", "provider"} => mediaSays.row.channel \in Wanted
    BY <2>0, <2>1 DEF TrueReports, Began
  <2> QED BY <2>4, <2>5, <2>6, <2>7 DEF Selection!HonestDispatch
<1> QED BY <1>1, <1>2, <1>3, PTL DEF Selection!Spec

\* What MediaSelection calls its types; the revision is within its bound, with one
\* more for the change of the provider.
SelectionTypes ==
    /\ Selection!TypeOK
    /\ Untold("provider") => mediaPlayer.revision <= MaxRevision

LEMMA SelectionTypesInit ==
    ASSUME Selection!SelectionAssumption, Selection!Init
    PROVE  SelectionTypes
<1>1. PICK p \in DOMAIN Lineups, ready \in BOOLEAN, standby \in BOOLEAN :
        \E l \in Lineups[p] :
          mediaPlayer = [provider |-> p, lineup |-> l, revision |-> 1,
                         ready |-> ready, loading |-> ~ready, standby |-> standby]
  BY DEF Selection!Init
<1>2. mediaPlayer.provider = p /\ mediaPlayer.revision = 1
  BY <1>1
<1>3. mediaPlayer.revision \in 1..MaxRevision + 1 /\ mediaPlayer.revision <= MaxRevision
  BY <1>2 DEF Selection!SelectionAssumption
<1>4. mediaPc \in Selection!Searching /\ mediaSays.is = "none"
  BY DEF Selection!Init, Selection!Searching, Selection!Unsaid
<1> QED BY <1>2, <1>3, <1>4 DEF SelectionTypes, Selection!TypeOK

\* The places of the command that are not its end.
SelectionPlaces == Selection!Searching \cup {"switch", "switching", "waking", "play", "playing"}

\* A step of the command that leaves the player alone.
LEMMA SelectionTypesKept ==
    ASSUME SelectionTypes, UNCHANGED <<mediaPlayer, began>>,
           \/ mediaPc' = mediaPc /\ mediaSays' = mediaSays
           \/ mediaPc' \in SelectionPlaces /\ mediaSays' = mediaSays
           \/ \E what \in {"no", "yes", "unknown"} : \E row : Selection!Ends(what, row)
    PROVE  SelectionTypes'
<1>1. mediaPc' \in SelectionPlaces \cup {"end"} /\ mediaSays'.is \in {"none", "no", "yes", "unknown"}
  BY DEF SelectionTypes, Selection!TypeOK, SelectionPlaces, Selection!Ends
<1>2. (mediaPlayer.provider)' = mediaPlayer.provider /\ (mediaPlayer.revision)' = mediaPlayer.revision
      /\ Untold("provider")' = Untold("provider")
  BY DEF Untold
<1> QED BY <1>1, <1>2 DEF SelectionTypes, Selection!TypeOK, SelectionPlaces

\* The player takes a change; only that of the provider may load a catalogue.
LEMMA SelectionTypesExecute ==
    ASSUME Selection!SelectionAssumption, SelectionInv, SelectionTypes, Selection!Execute
    PROVE  SelectionTypes'
<1>0. SelectionShape /\ ChangesOnce
  BY DEF SelectionInv, SelectionParts
<1>1. Selection!Carry /\ mediaPc' = mediaPc /\ mediaSays' = mediaSays
      /\ mediaFlying # Selection!Nothing
  BY DEF Selection!Execute, Selection!cli, Selection!Nothing
<1>2. PICK row : began' = Selection!Did(row)
  <2>1. /\ mediaFlying.op \in {"provider", "wake", "select", "item", "any", "number"}
    BY <1>0, <1>1 DEF ChangesOnce
  <2>2. \E row : began' = Selection!Did(row)
    <3>1. CASE mediaFlying.op \in {"provider", "wake"}
      BY <1>1, <3>1 DEF Selection!Carry
    <3>2. CASE mediaFlying.op = "select"
      BY <1>1, <3>2 DEF Selection!Carry, Selection!Shows
    <3>3. CASE mediaFlying.op = "item"
      BY <1>1, <3>3 DEF Selection!Carry, Selection!Shows
    <3>4. CASE mediaFlying.op = "any"
      BY <1>1, <3>4 DEF Selection!Carry, Selection!Shows
    <3>5. CASE mediaFlying.op = "number"
      BY <1>1, <3>5 DEF Selection!Carry, Selection!Shows
    <3> QED BY <2>1, <3>1, <3>2, <3>3, <3>4, <3>5
  <2> QED BY <2>2
<1> DEFINE new == [op |-> mediaFlying.op, row |-> row, provider |-> mediaPlayer.provider]
<1>3. /\ Len(began) \in Nat /\ Len(began') = Len(began) + 1
      /\ \A i \in 1..Len(began) : began'[i] = began[i]
      /\ began'[Len(began) + 1] = new
  <2>1. began' = Append(began, new)
    BY <1>2 DEF Selection!Did
  <2>2. PICK S : began \in Seq(S)
    BY DEF SelectionInv
  <2> HIDE DEF new
  <2> QED BY <2>1, <2>2, AppendAny
<1>4. new.op = mediaFlying.op
  OBVIOUS
<1> HIDE DEF new
<1>5. Untold("provider")' => Untold("provider") /\ mediaFlying.op # "provider"
  <2>1. ASSUME Untold("provider")' PROVE Untold("provider")
    BY <1>3, <2>1 DEF Untold
  <2>2. ASSUME Untold("provider")' PROVE mediaFlying.op # "provider"
    <3>1. Len(began) + 1 \in 1..Len(began')
      BY <1>3
    <3>2. Sort(new.op) # "provider"
      BY <1>3, <2>2, <3>1 DEF Untold
    <3> QED BY <1>4, <3>2 DEF Sort
  <2> QED BY <2>1, <2>2
<1>6. CASE mediaFlying.op = "provider"
  <2>1. Untold("provider") /\ mediaPlayer.revision <= MaxRevision
    BY <1>0, <1>1, <1>6 DEF ChangesOnce, Sort, SelectionTypes
  <2>2. \/ mediaPlayer' = mediaPlayer
        \/ \E l : mediaPlayer' = Selection!Loaded(Destination, l)
    BY <1>1, <1>6 DEF Selection!Carry
  <2>3. /\ mediaPlayer'.provider \in {mediaPlayer.provider, Destination}
        /\ mediaPlayer'.revision \in {mediaPlayer.revision, mediaPlayer.revision + 1}
    BY <1>0, <2>2 DEF Selection!Loaded, SelectionShape
  <2>4. mediaPlayer'.revision \in 1..MaxRevision + 1 /\ mediaPlayer'.provider \in DOMAIN Lineups
    BY <2>1, <2>3 DEF SelectionTypes, Selection!TypeOK, Selection!SelectionAssumption
  <2> QED BY <1>1, <1>5, <1>6, <2>4 DEF SelectionTypes, Selection!TypeOK
<1>7. CASE mediaFlying.op # "provider"
  <2>1. mediaPlayer' = mediaPlayer \/ mediaPlayer' = [mediaPlayer EXCEPT !.standby = FALSE]
    <3>1. /\ mediaFlying.op \in {"wake", "select", "item", "any", "number"}
      BY <1>0, <1>1, <1>7 DEF ChangesOnce
    <3>2. CASE mediaFlying.op = "wake"
      BY <1>1, <3>2 DEF Selection!Carry
    <3>3. CASE mediaFlying.op = "select"
      BY <1>1, <3>3 DEF Selection!Carry, Selection!Shows
    <3>4. CASE mediaFlying.op = "item"
      BY <1>1, <3>4 DEF Selection!Carry, Selection!Shows
    <3>5. CASE mediaFlying.op = "any"
      BY <1>1, <3>5 DEF Selection!Carry, Selection!Shows
    <3>6. CASE mediaFlying.op = "number"
      BY <1>1, <3>6 DEF Selection!Carry, Selection!Shows
    <3> QED BY <3>1, <3>2, <3>3, <3>4, <3>5, <3>6
  <2>2. mediaPlayer'.provider = mediaPlayer.provider /\ mediaPlayer'.revision = mediaPlayer.revision
    BY <1>0, <2>1 DEF SelectionShape
  <2> QED BY <1>1, <1>5, <2>2 DEF SelectionTypes, Selection!TypeOK
<1> QED BY <1>6, <1>7

LEMMA SelectionTypesStep ==
    ASSUME Selection!SelectionAssumption, SelectionInv, SelectionTypes,
           [Selection!Next]_SelectionVars
    PROVE  SelectionTypes'
<1> USE DEF Selection!cli, Selection!lookup, Selection!world
<1>0. SelectionShape
  BY DEF SelectionInv, SelectionParts
<1>1. CASE UNCHANGED SelectionVars
  BY <1>1, SelectionTypesKept DEF SelectionVars
<1>2. ASSUME NEW p \in DOMAIN Lineups, NEW l, Selection!Reload(p, l) PROVE SelectionTypes'
  <2>1. /\ mediaPlayer'.provider = p /\ mediaPlayer'.revision = mediaPlayer.revision + 1
        /\ mediaPlayer.revision < MaxRevision
        /\ UNCHANGED <<began, mediaPc, mediaSays>>
    BY <1>0, <1>2 DEF Selection!Reload, Selection!Loaded, SelectionShape
  <2>2. mediaPlayer'.revision \in 1..MaxRevision + 1 /\ mediaPlayer'.revision <= MaxRevision
    BY <1>0, <2>1 DEF SelectionShape, Selection!SelectionAssumption
  <2> QED BY <1>2, <2>1, <2>2 DEF SelectionTypes, Selection!TypeOK
<1>3. CASE Selection!Ready \/ Selection!Standby
  <2>1. /\ mediaPlayer'.provider = mediaPlayer.provider
        /\ mediaPlayer'.revision = mediaPlayer.revision
        /\ UNCHANGED <<began, mediaPc, mediaSays>>
    BY <1>0, <1>3 DEF Selection!Ready, Selection!Standby, SelectionShape
  <2> QED BY <2>1 DEF SelectionTypes, Selection!TypeOK, Untold
<1>4. CASE Selection!RejectChange \/ Selection!Expire
  BY <1>4, SelectionTypesKept DEF Selection!RejectChange, Selection!Expire
<1>5. CASE Selection!Fail \/ Selection!NotPlayed \/ Selection!GiveUp \/ Selection!Unconfirmed
  BY <1>5, SelectionTypesKept DEF Selection!Fail, Selection!NotPlayed, Selection!GiveUp,
     Selection!Unconfirmed
<1>6. CASE Selection!Receive
  BY <1>6, SelectionTypesKept DEF Selection!Receive
<1>7. CASE \/ Selection!Start \/ Selection!Switched \/ Selection!Woken \/ Selection!Complete
           \/ Selection!Bind \/ Selection!WholeList \/ Selection!Categories \/ Selection!Page
  BY <1>7, SelectionTypesKept DEF Selection!Start, Selection!Switched, Selection!Woken,
     Selection!Complete, Selection!Bind, Selection!WholeList, Selection!Categories, Selection!Page,
     Selection!Goes, SelectionPlaces, Selection!Searching
<1>8. CASE Selection!Select
  BY <1>8, SelectionTypesKept DEF Selection!Select, SelectionPlaces, Selection!Searching
<1>9. CASE Selection!Reread \/ Selection!Recheck
  BY <1>9, SelectionTypesKept DEF Selection!Reread, Selection!Recheck, Selection!Goes,
     SelectionPlaces, Selection!Searching
<1>10. CASE Selection!Changed
  BY <1>10, SelectionTypesKept DEF Selection!Changed, SelectionPlaces, Selection!Searching
<1>11. CASE Selection!Switch \/ Selection!Play \/ Selection!AwaitReady
  BY <1>11, SelectionTypesKept DEF Selection!Switch, Selection!Play, Selection!AwaitReady,
     Selection!Send, Selection!Goes, SelectionPlaces, Selection!Searching
<1>12. CASE Selection!Execute
  BY <1>12, SelectionTypesExecute
<1> QED
  BY <1>1, <1>2, <1>3, <1>4, <1>5, <1>6, <1>7, <1>8, <1>9, <1>10, <1>11, <1>12
     DEF Selection!Next, Selection!Viewer, Selection!Answers, Selection!Lookup, Selection!Change

LEMMA SelectionTyped ==
    ASSUME Selection!SelectionAssumption
    PROVE  Selection!Spec => []Selection!TypeOK
<1>1. Selection!Init => SelectionInv /\ SelectionTypes
  BY SelectionInit, SelectionTypesInit
<1>2. SelectionInv /\ SelectionTypes /\ [Selection!Next]_Selection!vars
        => (SelectionInv /\ SelectionTypes)'
  BY SelectionStep, SelectionTypesStep DEF Selection!vars, Selection!lookup, SelectionVars
<1>3. SelectionTypes => Selection!TypeOK
  BY DEF SelectionTypes
<1> QED BY <1>1, <1>2, <1>3, PTL DEF Selection!Spec

-----------------------------------------------------------------------------
(* The torrent indexer (cli/torrent_indexer.py): a command inspects the    *)
(* runtime, asks for its capabilities, and sends its one operation.        *)

Searching == {"search", "doctor"}

\* What has been sent by when.
SentByPlan ==
    /\ indexerAsked.op \in Indexer!Operations
    /\ indexerPc \in {"discover", "caps", "caps_wait", "operation", "wait", "done"}
    /\ indexerPc \in {"discover", "caps"} => attempted = {}
    /\ indexerPc \in {"caps", "caps_wait"} => indexerAsked.op \in Searching
    /\ indexerPc = "caps_wait" => attempted = {"caps"}
    /\ indexerPc = "operation" =>
         IF indexerAsked.op \in Searching THEN attempted = {"caps"} /\ Indexer!Took("caps")
                                       ELSE attempted = {}
    /\ indexerAsked.op \in Indexer!Mutations => attempted \subseteq {indexerAsked.op}
    /\ "search" \in attempted => Indexer!Took("caps") /\ indexerAsked.op \in Searching

\* A request waits at one place or has been executed, for the runtime that was
\* inspected.
SentOnce ==
    /\ queue \cap companion = {}
    /\ \A q \in queue \cup companion :
         /\ q.op \in attempted
         /\ q = [op |-> q.op, runtime |-> indexerSeen.runtime]
         /\ ~Indexer!Took(q.op)
    /\ \A e \in indexerEffects : e.op \in attempted /\ e.runtime = indexerSeen.runtime
    /\ \A e, f \in indexerEffects : e.op = f.op => e = f

\* What an answer or a report says is so.
AnsweredTruly ==
    /\ indexerAnswer.kind = "ok" =>
         \E e \in indexerEffects : e.op = indexerAnswer.op /\ e.runtime = indexerAnswer.runtime
    /\ indexerAnswer.kind = "refused" =>
         ~Indexer!Took(indexerAnswer.op) /\ \A q \in companion : q.op # indexerAnswer.op
    /\ indexerAnswer.kind \in Indexer!Refusals => \A q \in queue : q.op # indexerAnswer.op

\* What the command reports of its operation.
ReportedTruly ==
    /\ indexerPc # "done" => status = "none"
    /\ indexerAsked.op \in Indexer!Mutations =>
         /\ status = "ok" => \E e \in indexerEffects :
                               e.op = indexerAsked.op /\ e.runtime = indexerSeen.runtime
         /\ status = "failed" => queue = {}
         /\ status = "failed" /\ indexerReason # "unfinished" =>
              ~Indexer!Took(indexerAsked.op) /\ companion = {}

IndexerInv == SentByPlan /\ SentOnce /\ AnsweredTruly /\ ReportedTruly

\* A command begins with nothing asked.
LEMMA IndexerInit ==
    ASSUME Indexer!Init
    PROVE  IndexerInv
BY DEF Indexer!Init, Indexer!NoAnswer, IndexerInv, SentByPlan, SentOnce, AnsweredTruly,
   ReportedTruly, Indexer!Mutations, Indexer!Refusals

\* A mutation sends itself alone.
LEMMA MutationsAlone ==
    ASSUME IndexerInv, indexerAsked.op \in Indexer!Mutations
    PROVE  /\ indexerPc \notin {"caps", "caps_wait"}
           /\ \A q \in queue \cup companion : q.op = indexerAsked.op
           /\ Indexer!Due = indexerAsked.op
<1>1. indexerAsked.op \notin Searching
  BY DEF Indexer!Mutations, Searching
<1>2. indexerPc \notin {"caps", "caps_wait"}
  BY <1>1 DEF IndexerInv, SentByPlan
<1>3. \A q \in queue \cup companion : q.op = indexerAsked.op
  BY DEF IndexerInv, SentByPlan, SentOnce
<1> QED BY <1>1, <1>2, <1>3 DEF Indexer!Due, Searching

\* A step that ends the command.
LEMMA IndexerReports ==
    ASSUME IndexerInv, NEW what, NEW why, Indexer!Reports(what, why), indexerPc # "done",
           indexerAsked.op \in Indexer!Mutations =>
             /\ what = "ok" => \E e \in indexerEffects :
                                 e.op = indexerAsked.op /\ e.runtime = indexerSeen.runtime
             /\ what = "failed" => queue = {}
             /\ what = "failed" /\ why # "unfinished" =>
                  ~Indexer!Took(indexerAsked.op) /\ companion = {}
    PROVE  IndexerInv'
<1>1. /\ indexerPc' = "done" /\ status' = what /\ indexerReason' = why
      /\ UNCHANGED <<queue, companion, indexerAsked, indexerSeen, indexerAnswer, attempted, indexerEffects>>
  BY DEF Indexer!Reports
<1>2. SentByPlan' /\ SentOnce' /\ AnsweredTruly'
  BY <1>1 DEF IndexerInv, SentByPlan, SentOnce, AnsweredTruly, Indexer!Took, Indexer!Operations,
     Indexer!Mutations, Indexer!Refusals, Searching
<1>3. ReportedTruly'
  BY <1>1 DEF ReportedTruly, Indexer!Took, Indexer!Mutations
<1> QED BY <1>2, <1>3 DEF IndexerInv

\* The command takes the runtime that it found.
LEMMA IndexerDiscoverStep ==
    ASSUME IndexerInv, Indexer!Discover
    PROVE  IndexerInv'
<1>1. /\ indexerPc = "discover"
      /\ indexerPc' = (IF indexerAsked.op \in {"search", "doctor"} THEN "caps" ELSE "operation")
      /\ UNCHANGED <<queue, companion, indexerAsked, indexerAnswer, attempted, status,
                     indexerReason, indexerEffects>>
  BY DEF Indexer!Discover
<1>2. attempted = {} /\ queue = {} /\ companion = {} /\ indexerEffects = {} /\ status = "none"
  BY <1>1 DEF IndexerInv, SentByPlan, SentOnce, ReportedTruly
<1>3. SentByPlan'
  BY <1>1, <1>2 DEF IndexerInv, SentByPlan, Searching, Indexer!Operations, Indexer!Mutations,
     Indexer!Took
<1>4. SentOnce' /\ AnsweredTruly' /\ ReportedTruly'
  BY <1>1, <1>2 DEF IndexerInv, SentOnce, AnsweredTruly, ReportedTruly, Indexer!Took,
     Indexer!Mutations, Indexer!Refusals
<1> QED BY <1>3, <1>4 DEF IndexerInv

\* The command sends a request that it has not sent before.
LEMMA IndexerSendStep ==
    ASSUME IndexerInv, Indexer!Send
    PROVE  IndexerInv'
<1> DEFINE new == [op |-> Indexer!Due, runtime |-> indexerSeen.runtime]
<1>1. /\ indexerPc \in {"caps", "operation"}
      /\ queue' = queue \cup {new} /\ attempted' = attempted \cup {Indexer!Due}
      /\ indexerAnswer' = Indexer!NoAnswer
      /\ indexerPc' = (IF indexerPc = "caps" THEN "caps_wait" ELSE "wait")
      /\ UNCHANGED <<companion, indexerAsked, indexerSeen, status, indexerReason, indexerEffects>>
  BY DEF Indexer!Send
<1>2. new.op = Indexer!Due /\ new = [op |-> new.op, runtime |-> indexerSeen.runtime]
  OBVIOUS
<1>3. /\ Indexer!Due \notin attempted
      /\ indexerPc = "caps" => Indexer!Due = "caps" /\ attempted = {}
      /\ Indexer!Due = "search" => indexerAsked.op \in Searching /\ Indexer!Took("caps")
      /\ indexerAsked.op \in Indexer!Mutations => Indexer!Due = indexerAsked.op
  <2>1. CASE indexerPc = "caps"
    BY <2>1 DEF IndexerInv, SentByPlan, Indexer!Due, Searching, Indexer!Mutations
  <2>2. CASE indexerPc = "operation" /\ indexerAsked.op \in Searching
    BY <2>2 DEF IndexerInv, SentByPlan, Indexer!Due, Searching, Indexer!Mutations
  <2>3. CASE indexerPc = "operation" /\ indexerAsked.op \notin Searching
    BY <2>3 DEF IndexerInv, SentByPlan, Indexer!Due, Searching, Indexer!Mutations
  <2> QED BY <1>1, <2>1, <2>2, <2>3
<1>4. ~Indexer!Took(Indexer!Due)
  BY <1>3 DEF IndexerInv, SentOnce, Indexer!Took
<1> HIDE DEF new
<1>5. SentByPlan'
  BY <1>1, <1>3 DEF IndexerInv, SentByPlan, Searching, Indexer!Operations, Indexer!Mutations,
     Indexer!Took
<1>6. SentOnce'
  <2>1. new \notin companion
    BY <1>2, <1>3 DEF IndexerInv, SentOnce
  <2>2. (queue \cap companion = {})'
    BY <1>1, <2>1 DEF IndexerInv, SentOnce
  <2>3. (\A q \in queue \cup companion :
           /\ q.op \in attempted
           /\ q = [op |-> q.op, runtime |-> indexerSeen.runtime]
           /\ ~Indexer!Took(q.op))'
    BY <1>1, <1>2, <1>4 DEF IndexerInv, SentOnce, Indexer!Took
  <2> QED BY <1>1, <2>2, <2>3 DEF IndexerInv, SentOnce
<1>7. AnsweredTruly'
  BY <1>1 DEF AnsweredTruly, Indexer!NoAnswer, Indexer!Refusals
<1>8. ReportedTruly'
  BY <1>1 DEF IndexerInv, ReportedTruly, Indexer!Took, Indexer!Mutations
<1> QED BY <1>5, <1>6, <1>7, <1>8 DEF IndexerInv

\* The answer that a command accepts is to what it has asked last.
LEMMA IndexerCheckedStep ==
    ASSUME IndexerInv, Indexer!Checked
    PROVE  IndexerInv'
<1>1. indexerPc = "caps_wait" /\ indexerAnswer.kind = "ok" /\ indexerAnswer.op = "caps"
  BY DEF Indexer!Checked, Indexer!Valid, Indexer!Due
<1>2. indexerAsked.op \in Searching /\ attempted = {"caps"} /\ Indexer!Took("caps")
  BY <1>1 DEF IndexerInv, SentByPlan, AnsweredTruly, Indexer!Took
<1>3. indexerAsked.op \notin Indexer!Mutations
  BY <1>2 DEF Indexer!Mutations, Searching
<1>4. CASE Indexer!Goes("operation")
  <2>1. /\ indexerPc' = "operation"
        /\ UNCHANGED <<queue, companion, indexerAsked, indexerSeen, indexerAnswer, attempted, status,
                       indexerReason, indexerEffects>>
    BY <1>4 DEF Indexer!Goes
  <2>2. SentByPlan'
    BY <1>2, <1>3, <2>1 DEF IndexerInv, SentByPlan, Searching, Indexer!Operations,
       Indexer!Mutations, Indexer!Took
  <2>3. SentOnce' /\ AnsweredTruly' /\ ReportedTruly'
    BY <1>1, <2>1 DEF IndexerInv, SentOnce, AnsweredTruly, ReportedTruly, Indexer!Took,
       Indexer!Mutations, Indexer!Refusals
  <2> QED BY <2>2, <2>3 DEF IndexerInv
<1>5. ASSUME NEW what, NEW why, Indexer!Reports(what, why) PROVE IndexerInv'
  BY <1>1, <1>3, <1>5, IndexerReports
<1> QED BY <1>4, <1>5 DEF Indexer!Checked

\* The companion carries out a request that is nowhere else.
LEMMA IndexerCarried ==
    ASSUME IndexerInv, NEW q \in queue \cup companion, Indexer!Carried(q),
           queue' = queue \ {q}, companion' = companion \ {q},
           UNCHANGED <<indexerAsked, indexerPc, indexerSeen, attempted, status, indexerReason>>
    PROVE  /\ SentByPlan' /\ SentOnce' /\ ReportedTruly'
           /\ q.op \in attempted /\ q.runtime = indexerSeen.runtime
           /\ \A p \in queue' \cup companion' : p.op # q.op
           /\ \E e \in indexerEffects' : e.op = q.op /\ e.runtime = q.runtime
           /\ indexerEffects \subseteq indexerEffects'
           /\ \A e \in indexerEffects' : e \in indexerEffects \/ e.op = q.op
<1> DEFINE new == [op |-> q.op, runtime |-> q.runtime, generation |-> indexerSource.generation]
<1>1. indexerEffects' = indexerEffects \cup {new}
  BY DEF Indexer!Carried
<1>2. /\ q.op \in attempted /\ ~Indexer!Took(q.op)
      /\ q = [op |-> q.op, runtime |-> indexerSeen.runtime]
  BY DEF IndexerInv, SentOnce
<1>3. \A p \in queue' \cup companion' : p.op # q.op
  BY <1>2 DEF IndexerInv, SentOnce
<1>4. new.op = q.op /\ new.runtime = q.runtime /\ new.runtime = indexerSeen.runtime
  BY <1>2
<1> HIDE DEF new
<1>5. SentByPlan'
  BY <1>1 DEF IndexerInv, SentByPlan, Searching, Indexer!Operations, Indexer!Mutations, Indexer!Took
<1>6. SentOnce'
  BY <1>1, <1>2, <1>3, <1>4 DEF IndexerInv, SentOnce, Indexer!Took
<1>7. ReportedTruly'
  <2>1. ASSUME indexerAsked.op \in Indexer!Mutations, status = "failed",
               indexerReason # "unfinished"
        PROVE  FALSE
    BY <2>1 DEF IndexerInv, ReportedTruly
  <2> QED BY <1>1, <2>1 DEF IndexerInv, ReportedTruly, Indexer!Took, Indexer!Mutations
<1> QED BY <1>1, <1>2, <1>3, <1>4, <1>5, <1>6, <1>7

\* The player takes a request: it is carried out, refused, or left to the companion.
LEMMA IndexerExecuteStep ==
    ASSUME IndexerInv, NEW q \in queue, Indexer!Execute(q)
    PROVE  IndexerInv'
<1>1. /\ queue' = queue \ {q} /\ q \notin companion
      /\ UNCHANGED <<indexerRuntime, indexerAsked, indexerPc, indexerSeen, attempted, status,
                     indexerReason>>
  BY DEF Indexer!Execute, IndexerInv, SentOnce
<1>2. /\ q.op \in attempted /\ ~Indexer!Took(q.op)
      /\ q = [op |-> q.op, runtime |-> indexerSeen.runtime]
      /\ \A p \in queue' \cup companion : p.op # q.op
  BY <1>1 DEF IndexerInv, SentOnce
<1>3. CASE q.runtime = indexerRuntime /\ Indexer!Carried(q) /\ Indexer!Reply(q, "ok")
           /\ UNCHANGED companion
  <2>1. \/ indexerAnswer' = indexerAnswer
        \/ indexerAnswer'.kind = "ok" /\ indexerAnswer'.op = q.op
           /\ indexerAnswer'.runtime = q.runtime
    BY <1>3 DEF Indexer!Reply
  <2>2. companion' = companion \ {q}
    BY <1>1, <1>3
  <2>3. /\ SentByPlan' /\ SentOnce' /\ ReportedTruly'
        /\ \E e \in indexerEffects' : e.op = q.op /\ e.runtime = q.runtime
        /\ indexerEffects \subseteq indexerEffects'
        /\ \A e \in indexerEffects' : e \in indexerEffects \/ e.op = q.op
    BY <1>1, <1>3, <2>2, IndexerCarried
  <2>4. AnsweredTruly'
    <3>1. CASE indexerAnswer' = indexerAnswer
      BY <1>1, <1>3, <2>3, <3>1 DEF IndexerInv, AnsweredTruly, Indexer!Took, Indexer!Refusals
    <3>2. CASE indexerAnswer'.kind = "ok" /\ indexerAnswer'.op = q.op
               /\ indexerAnswer'.runtime = q.runtime
      BY <2>3, <3>2 DEF AnsweredTruly, Indexer!Refusals
    <3> QED BY <2>1, <3>1, <3>2
  <2> QED BY <2>3, <2>4 DEF IndexerInv
<1>4. CASE \/ Indexer!Reply(q, "refused") /\ UNCHANGED <<companion, indexerEffects>>
           \/ Indexer!Reply(q, "unfinished") /\ companion' = companion \cup {q}
              /\ UNCHANGED indexerEffects
  <2>1. \/ indexerAnswer' = indexerAnswer
        \/ indexerAnswer'.kind = "refused" /\ indexerAnswer'.op = q.op /\ UNCHANGED companion
        \/ indexerAnswer'.kind = "unfinished" /\ indexerAnswer'.op = q.op
    BY <1>4 DEF Indexer!Reply
  <2>2. UNCHANGED indexerEffects /\ companion' \subseteq companion \cup {q}
    BY <1>4
  <2>3. SentByPlan'
    BY <1>1, <2>2 DEF IndexerInv, SentByPlan, Searching, Indexer!Operations, Indexer!Mutations,
       Indexer!Took
  <2>4. SentOnce'
    BY <1>1, <1>2, <2>2 DEF IndexerInv, SentOnce, Indexer!Took
  <2>5. AnsweredTruly'
    <3>1. CASE indexerAnswer' = indexerAnswer
      BY <1>1, <2>2, <3>1 DEF IndexerInv, AnsweredTruly, Indexer!Took, Indexer!Refusals
    <3>2. CASE indexerAnswer'.kind = "refused" /\ indexerAnswer'.op = q.op /\ UNCHANGED companion
      BY <1>1, <1>2, <2>2, <3>2 DEF AnsweredTruly, Indexer!Took, Indexer!Refusals
    <3>3. CASE indexerAnswer'.kind = "unfinished" /\ indexerAnswer'.op = q.op
      BY <1>1, <1>2, <3>3 DEF AnsweredTruly, Indexer!Refusals
    <3> QED BY <2>1, <3>1, <3>2, <3>3
  <2>6. ReportedTruly'
    <3>1. indexerAsked.op \in Indexer!Mutations => status # "failed"
      BY DEF IndexerInv, ReportedTruly
    <3> QED BY <1>1, <2>2, <3>1 DEF IndexerInv, ReportedTruly, Indexer!Took, Indexer!Mutations
  <2> QED BY <2>3, <2>4, <2>5, <2>6 DEF IndexerInv
<1> QED BY <1>3, <1>4 DEF Indexer!Execute

\* The companion carries out what the player gave up.
LEMMA IndexerActStep ==
    ASSUME IndexerInv, NEW q \in companion, Indexer!Act(q)
    PROVE  IndexerInv'
<1>1. /\ companion' = companion \ {q} /\ Indexer!Carried(q)
      /\ UNCHANGED <<queue, indexerAsked, indexerPc, indexerSeen, indexerAnswer, attempted, status,
                     indexerReason>>
  BY DEF Indexer!Act
<1>2. queue' = queue \ {q}
  BY <1>1 DEF IndexerInv, SentOnce
<1>3. /\ SentByPlan' /\ SentOnce' /\ ReportedTruly'
      /\ indexerEffects \subseteq indexerEffects'
      /\ \A e \in indexerEffects' : e \in indexerEffects \/ e.op = q.op
  BY <1>1, <1>2, IndexerCarried
<1>4. AnsweredTruly'
  BY <1>1, <1>3 DEF IndexerInv, AnsweredTruly, Indexer!Took, Indexer!Refusals
<1> QED BY <1>3, <1>4 DEF IndexerInv

\* Every step of the indexer keeps the invariant.
LEMMA IndexerStep ==
    ASSUME IndexerInv, [Indexer!Next]_IndexerVars
    PROVE  IndexerInv'
<1>1. CASE \/ UNCHANGED IndexerVars \/ Indexer!Restart \/ Indexer!Others
           \/ \E q \in queue : Indexer!Drop(q)
           \/ \E q \in companion : Indexer!Abandon(q)
  <2>1. /\ queue' \subseteq queue /\ companion' \subseteq companion
        /\ UNCHANGED <<indexerAsked, indexerPc, indexerSeen, indexerAnswer, attempted, status,
                       indexerReason, indexerEffects>>
    BY <1>1, ZenonT(60) DEF IndexerVars, Indexer!Restart, Indexer!Others, Indexer!Drop,
       Indexer!Abandon
  <2>2. SentByPlan' /\ SentOnce' /\ AnsweredTruly' /\ ReportedTruly'
    BY <2>1 DEF IndexerInv, SentByPlan, SentOnce, AnsweredTruly, ReportedTruly, Searching,
       Indexer!Operations, Indexer!Mutations, Indexer!Refusals, Indexer!Took
  <2> QED BY <2>2 DEF IndexerInv
<1>2. CASE Indexer!Answered
  <2>1. /\ indexerPc = "wait" /\ indexerAnswer.kind = "ok"
        /\ Indexer!Reports("ok", "none")
        /\ indexerAnswer.op = Indexer!Due /\ indexerAnswer.runtime = indexerSeen.runtime
    BY <1>2 DEF Indexer!Answered, Indexer!Valid
  <2>2. \E e \in indexerEffects : e.op = Indexer!Due /\ e.runtime = indexerSeen.runtime
    BY <2>1 DEF IndexerInv, AnsweredTruly
  <2> QED BY <2>1, <2>2, MutationsAlone, IndexerReports
<1>3. CASE Indexer!Refused
  <2>1. /\ indexerPc # "done" /\ indexerAnswer.kind \in Indexer!Refusals
        /\ Indexer!Reports("failed", indexerAnswer.kind) /\ indexerAnswer.op = Indexer!Due
    BY <1>3 DEF Indexer!Refused, Indexer!Valid
  <2>2. /\ \A q \in queue : q.op # Indexer!Due
        /\ indexerAnswer.kind # "unfinished" =>
             ~Indexer!Took(Indexer!Due) /\ \A q \in companion : q.op # Indexer!Due
    BY <2>1 DEF IndexerInv, AnsweredTruly, Indexer!Refusals
  <2>3. indexerAsked.op \in Indexer!Mutations =>
          /\ queue = {}
          /\ indexerAnswer.kind # "unfinished" => ~Indexer!Took(indexerAsked.op) /\ companion = {}
    BY <2>2, MutationsAlone
  <2> QED BY <2>1, <2>3, IndexerReports
<1>4. CASE Indexer!Fail
  <2> DEFINE what == IF attempted # {} /\ indexerAsked.op \in Indexer!Mutations
                     THEN "unknown" ELSE "failed"
  <2>1. indexerPc # "done" /\ Indexer!Reports(what, "local")
    BY <1>4 DEF Indexer!Fail
  <2>2. attempted = {} => queue = {} /\ companion = {} /\ ~Indexer!Took(indexerAsked.op)
    BY DEF IndexerInv, SentOnce, Indexer!Took
  <2>3. indexerAsked.op \in Indexer!Mutations =>
          what # "ok" /\ (what = "failed" => attempted = {})
    OBVIOUS
  <2> HIDE DEF what
  <2> QED BY <2>1, <2>2, <2>3, IndexerReports
<1>5. CASE Indexer!Interrupted
  <2>1. indexerPc # "done" /\ Indexer!Reports("unknown", "none")
    BY <1>5 DEF Indexer!Interrupted
  <2> QED BY <2>1, IndexerReports
<1> QED BY <1>1, <1>2, <1>3, <1>4, <1>5, IndexerDiscoverStep, IndexerSendStep,
           IndexerCheckedStep, IndexerExecuteStep, IndexerActStep
        DEF Indexer!Next

\* A mutation reported done took effect on the runtime that was inspected; one
\* reported failed did not and will not, unless the reason is that the companion did
\* not answer; nothing takes effect twice, and a search is sent only after a look at
\* the source (cli/torrent_indexer.py).
LEMMA IndexerHonest == Indexer!Spec => []Indexer!HonestIndexer
<1>1. Indexer!Init => IndexerInv
  BY IndexerInit
<1>2. IndexerInv /\ [Indexer!Next]_Indexer!vars => IndexerInv'
  BY IndexerStep DEF Indexer!vars, Indexer!world, IndexerVars
<1>3. IndexerInv => Indexer!HonestIndexer
  BY DEF IndexerInv, SentByPlan, SentOnce, ReportedTruly, Indexer!HonestIndexer, Searching
<1> QED BY <1>1, <1>2, <1>3, PTL DEF Indexer!Spec

-----------------------------------------------------------------------------
(* Power (cli/device_power.py): the dialog is opened and its button        *)
(* activated over a connection that may drop and come back as another      *)
(* device's.                                                               *)

PowerTyped ==
    /\ connection.transport \in Nat /\ transport \in Nat
    /\ transport <= connection.transport
    /\ touched \in BOOLEAN /\ focused \in BOOLEAN /\ firmware.touch \in BOOLEAN

\* The connection whose identity was read is the bound device's for as long as it
\* lasts.
SameDevice ==
    powerPc \notin {"list", "verify", "done"} /\ transport = connection.transport
    => connection.device = "bound"

\* The request is due once.
RequestedOnce ==
    /\ requested \in {0, 1}
    /\ service = "none" <=> requested = 0
    /\ powerPc = "request" => service = "none"

\* What has been sent so far.
SentSoFar ==
    /\ \A s \in powerSent : s.device = "bound"
    /\ powerSent = {} => service = "none" /\ pressed = 0
    /\ powerPc # "done" /\ service = "none" => \A s \in powerSent : s.what = "touch"

\* A touch that will activate the button has not given it the focus; a button
\* that was seen focused after the touch shows that there is none.
TouchKnown ==
    /\ touched => ~focused
    /\ powerPc \in {"again", "present"} => button.window # 0
    /\ pressed = 0 \/ button.focused => ~touched

\* What the command says of the shutdown.
PowerReported ==
    /\ powerOutcome = "accepted" => powerSent # {}
    /\ powerOutcome = "error" /\ service # "denied" =>
         ~touched /\ \A s \in powerSent : s.what = "touch"
    /\ powerPc # "done" => powerOutcome = "none"

PowerInv ==
    /\ PowerTyped /\ SameDevice /\ RequestedOnce /\ SentSoFar /\ TouchKnown /\ PowerReported

\* A command begins with nothing sent.
LEMMA PowerInit == Power!Init => PowerInv
<1> SUFFICES ASSUME Power!Init PROVE PowerInv
  OBVIOUS
<1> USE DEF Power!Init, Power!None
<1>1. PowerTyped
  <2>1. connection \in [device : {"bound", "other"}, transport : {1}]
    OBVIOUS
  <2>2. firmware \in [asks : BOOLEAN, touch : BOOLEAN]
    OBVIOUS
  <2>3. touched \in BOOLEAN /\ focused \in BOOLEAN /\ transport = 0
    OBVIOUS
  <2> HIDE DEF Power!Init
  <2> QED BY <2>1, <2>2, <2>3 DEF PowerTyped
<1>2. SameDevice /\ RequestedOnce /\ SentSoFar /\ TouchKnown /\ PowerReported
  BY DEF SameDevice, RequestedOnce, SentSoFar, TouchKnown, PowerReported
<1> QED BY <1>1, <1>2 DEF PowerInv

\* Every step of a power command keeps the invariant.
LEMMA PowerStep == PowerInv /\ [Power!Next]_PowerVars => PowerInv'
<1> SUFFICES ASSUME PowerInv, [Power!Next]_PowerVars PROVE PowerInv'
  OBVIOUS
<1> USE DEF Power!device, Power!command, Power!history, Power!Reaches, Power!Done, Power!Sends,
            Power!None, Power!Ready, Power!Activate, Power!InDoubt
<1>0. PowerTyped /\ SameDevice /\ RequestedOnce /\ SentSoFar /\ TouchKnown /\ PowerReported
  BY DEF PowerInv
<1>1. CASE UNCHANGED PowerVars
  <2> USE <1>0, <1>1 DEF PowerVars
  <2>1. PowerTyped'
    BY DEF PowerTyped
  <2>2. SameDevice'
    BY DEF SameDevice, PowerTyped
  <2>3. RequestedOnce'
    BY DEF RequestedOnce
  <2>4. SentSoFar'
    BY DEF SentSoFar, RequestedOnce, SameDevice
  <2>5. TouchKnown'
    BY DEF TouchKnown, PowerTyped
  <2>6. PowerReported'
    BY DEF PowerReported, SentSoFar, RequestedOnce, TouchKnown
  <2> QED BY <2>1, <2>2, <2>3, <2>4, <2>5, <2>6 DEF PowerInv
<1>2. CASE Power!List
  <2> USE <1>0, <1>2 DEF Power!List
  <2>1. PowerTyped'
    BY DEF PowerTyped
  <2>2. SameDevice'
    BY DEF SameDevice, PowerTyped
  <2>3. RequestedOnce'
    BY DEF RequestedOnce
  <2>4. SentSoFar'
    BY DEF SentSoFar, RequestedOnce, SameDevice
  <2>5. TouchKnown'
    BY DEF TouchKnown, PowerTyped
  <2>6. PowerReported'
    BY DEF PowerReported, SentSoFar, RequestedOnce, TouchKnown
  <2> QED BY <2>1, <2>2, <2>3, <2>4, <2>5, <2>6 DEF PowerInv
<1>3. CASE Power!Verify
  <2> USE <1>0, <1>3 DEF Power!Verify
  <2>1. PowerTyped'
    BY DEF PowerTyped
  <2>2. SameDevice'
    BY DEF SameDevice, PowerTyped
  <2>3. RequestedOnce'
    BY DEF RequestedOnce
  <2>4. SentSoFar'
    BY DEF SentSoFar, RequestedOnce, SameDevice
  <2>5. TouchKnown'
    BY DEF TouchKnown, PowerTyped
  <2>6. PowerReported'
    BY DEF PowerReported, SentSoFar, RequestedOnce, TouchKnown
  <2> QED BY <2>1, <2>2, <2>3, <2>4, <2>5, <2>6 DEF PowerInv
<1>4. CASE Power!Look
  <2> USE <1>0, <1>4 DEF Power!Look
  <2>1. PowerTyped'
    BY DEF PowerTyped
  <2>2. SameDevice'
    BY DEF SameDevice, PowerTyped
  <2>3. RequestedOnce'
    BY DEF RequestedOnce
  <2>4. SentSoFar'
    BY DEF SentSoFar, RequestedOnce, SameDevice
  <2>5. TouchKnown'
    BY DEF TouchKnown, PowerTyped
  <2>6. PowerReported'
    BY DEF PowerReported, SentSoFar, RequestedOnce, TouchKnown
  <2> QED BY <2>1, <2>2, <2>3, <2>4, <2>5, <2>6 DEF PowerInv
<1>5. CASE Power!Dump
  <2> USE <1>0, <1>5 DEF Power!Dump
  <2>1. PowerTyped'
    BY DEF PowerTyped
  <2>2. SameDevice'
    BY DEF SameDevice, PowerTyped
  <2>3. RequestedOnce'
    BY DEF RequestedOnce
  <2>4. SentSoFar'
    BY DEF SentSoFar, RequestedOnce, SameDevice
  <2>5. TouchKnown'
    BY DEF TouchKnown, PowerTyped
  <2>6. PowerReported'
    BY DEF PowerReported, SentSoFar, RequestedOnce, TouchKnown
  <2> QED BY <2>1, <2>2, <2>3, <2>4, <2>5, <2>6 DEF PowerInv
<1>6. CASE Power!LookAgain
  <2> USE <1>0, <1>6 DEF Power!LookAgain
  <2>1. PowerTyped'
    BY DEF PowerTyped
  <2>2. SameDevice'
    BY DEF SameDevice, PowerTyped
  <2>3. RequestedOnce'
    BY DEF RequestedOnce
  <2>4. SentSoFar'
    BY DEF SentSoFar, RequestedOnce, SameDevice
  <2>5. TouchKnown'
    BY DEF TouchKnown, PowerTyped
  <2>6. PowerReported'
    BY DEF PowerReported, SentSoFar, RequestedOnce, TouchKnown
  <2> QED BY <2>1, <2>2, <2>3, <2>4, <2>5, <2>6 DEF PowerInv
<1>7. CASE Power!Absent
  <2> USE <1>0, <1>7 DEF Power!Absent
  <2>1. PowerTyped'
    BY DEF PowerTyped
  <2>2. SameDevice'
    BY DEF SameDevice, PowerTyped
  <2>3. RequestedOnce'
    BY DEF RequestedOnce
  <2>4. SentSoFar'
    BY DEF SentSoFar, RequestedOnce, SameDevice
  <2>5. TouchKnown'
    BY DEF TouchKnown, PowerTyped
  <2>6. PowerReported'
    BY DEF PowerReported, SentSoFar, RequestedOnce, TouchKnown
  <2> QED BY <2>1, <2>2, <2>3, <2>4, <2>5, <2>6 DEF PowerInv
<1>8. CASE Power!Touch
  <2> USE <1>0, <1>8 DEF Power!Touch
  <2>1. PowerTyped'
    BY DEF PowerTyped
  <2>2. SameDevice'
    BY DEF SameDevice, PowerTyped
  <2>3. RequestedOnce'
    BY DEF RequestedOnce
  <2>4. SentSoFar'
    <3>1. powerSent' = powerSent \cup {[what |-> "touch", device |-> "bound"]}
      BY DEF SameDevice
    <3>2. powerSent' # {}
      BY <3>1
    <3>3. \A s \in powerSent' : s.device = "bound"
      BY <3>1 DEF SentSoFar
    <3>4. powerPc # "done" /\ service' = "none" => \A s \in powerSent' : s.what = "touch"
      BY <3>1 DEF SentSoFar
    <3>5. powerPc # "done"
      OBVIOUS
    <3> QED BY <3>2, <3>3, <3>4, <3>5 DEF SentSoFar
  <2>5. TouchKnown'
    BY DEF TouchKnown, PowerTyped
  <2>6. PowerReported'
    BY DEF PowerReported, SentSoFar, RequestedOnce, TouchKnown
  <2> QED BY <2>1, <2>2, <2>3, <2>4, <2>5, <2>6 DEF PowerInv
<1>9. CASE Power!Key
  <2> USE <1>0, <1>9 DEF Power!Key
  <2>1. PowerTyped'
    BY DEF PowerTyped
  <2>2. SameDevice'
    BY DEF SameDevice, PowerTyped
  <2>3. RequestedOnce'
    BY DEF RequestedOnce
  <2>4. SentSoFar'
    BY DEF SentSoFar, RequestedOnce, SameDevice
  <2>5. TouchKnown'
    BY DEF TouchKnown, PowerTyped
  <2>6. PowerReported'
    BY DEF PowerReported, SentSoFar, RequestedOnce, TouchKnown
  <2> QED BY <2>1, <2>2, <2>3, <2>4, <2>5, <2>6 DEF PowerInv
<1>10. CASE Power!Unfocused
  <2> USE <1>0, <1>10 DEF Power!Unfocused
  <2>1. PowerTyped'
    BY DEF PowerTyped
  <2>2. SameDevice'
    BY DEF SameDevice, PowerTyped
  <2>3. RequestedOnce'
    BY DEF RequestedOnce
  <2>4. SentSoFar'
    BY DEF SentSoFar, RequestedOnce, SameDevice
  <2>5. TouchKnown'
    BY DEF TouchKnown, PowerTyped
  <2>6. PowerReported'
    BY DEF PowerReported, SentSoFar, RequestedOnce, TouchKnown
  <2> QED BY <2>1, <2>2, <2>3, <2>4, <2>5, <2>6 DEF PowerInv
<1>11. CASE Power!Request
  <2> USE <1>0, <1>11 DEF Power!Request
  <2>1. PowerTyped'
    BY DEF PowerTyped
  <2>2. SameDevice'
    BY DEF SameDevice, PowerTyped
  <2>3. RequestedOnce'
    BY DEF RequestedOnce
  <2>4. SentSoFar'
    <3>1. powerSent' = powerSent \cup {[what |-> "svc", device |-> "bound"]}
      BY DEF SameDevice
    <3>2. powerSent' # {}
      BY <3>1
    <3>3. \A s \in powerSent' : s.device = "bound"
      BY <3>1 DEF SentSoFar
    <3>4. powerPc # "done" /\ service' = "none" => \A s \in powerSent' : s.what = "touch"
      BY <3>1 DEF SentSoFar
    <3>5. powerPc # "done"
      OBVIOUS
    <3> QED BY <3>2, <3>3, <3>4, <3>5 DEF SentSoFar
  <2>5. TouchKnown'
    BY DEF TouchKnown, PowerTyped
  <2>6. PowerReported'
    BY DEF PowerReported, SentSoFar, RequestedOnce, TouchKnown
  <2> QED BY <2>1, <2>2, <2>3, <2>4, <2>5, <2>6 DEF PowerInv
<1>12. CASE Power!Returned
  <2> USE <1>0, <1>12 DEF Power!Returned
  <2>1. PowerTyped'
    BY DEF PowerTyped
  <2>2. SameDevice'
    BY DEF SameDevice, PowerTyped
  <2>3. RequestedOnce'
    BY DEF RequestedOnce
  <2>4. SentSoFar'
    BY DEF SentSoFar, RequestedOnce, SameDevice
  <2>5. TouchKnown'
    BY DEF TouchKnown, PowerTyped
  <2>6. PowerReported'
    BY DEF PowerReported, SentSoFar, RequestedOnce, TouchKnown
  <2> QED BY <2>1, <2>2, <2>3, <2>4, <2>5, <2>6 DEF PowerInv
<1>13. CASE Power!Denied
  <2> USE <1>0, <1>13 DEF Power!Denied
  <2>1. PowerTyped'
    BY DEF PowerTyped
  <2>2. SameDevice'
    BY DEF SameDevice, PowerTyped
  <2>3. RequestedOnce'
    BY DEF RequestedOnce
  <2>4. SentSoFar'
    BY DEF SentSoFar, RequestedOnce, SameDevice
  <2>5. TouchKnown'
    BY DEF TouchKnown, PowerTyped
  <2>6. PowerReported'
    BY DEF PowerReported, SentSoFar, RequestedOnce, TouchKnown
  <2> QED BY <2>1, <2>2, <2>3, <2>4, <2>5, <2>6 DEF PowerInv
<1>14. CASE Power!Fail
  <2> USE <1>0, <1>14 DEF Power!Fail
  <2>1. PowerTyped'
    BY DEF PowerTyped
  <2>2. SameDevice'
    BY DEF SameDevice, PowerTyped
  <2>3. RequestedOnce'
    BY DEF RequestedOnce
  <2>4. SentSoFar'
    BY DEF SentSoFar, RequestedOnce, SameDevice
  <2>5. TouchKnown'
    BY DEF TouchKnown, PowerTyped
  <2>6. PowerReported'
    BY DEF PowerReported, SentSoFar, RequestedOnce, TouchKnown
  <2> QED BY <2>1, <2>2, <2>3, <2>4, <2>5, <2>6 DEF PowerInv
<1>15. CASE Power!FailSending
  <2> USE <1>0, <1>15 DEF Power!FailSending
  <2>1. PowerTyped'
    BY DEF PowerTyped
  <2>2. SameDevice'
    BY DEF SameDevice, PowerTyped
  <2>3. RequestedOnce'
    BY DEF RequestedOnce
  <2>4. SentSoFar'
    BY DEF SentSoFar, RequestedOnce, SameDevice
  <2>5. TouchKnown'
    BY DEF TouchKnown, PowerTyped
  <2>6. PowerReported'
    BY DEF PowerReported, SentSoFar, RequestedOnce, TouchKnown
  <2> QED BY <2>1, <2>2, <2>3, <2>4, <2>5, <2>6 DEF PowerInv
<1>16. CASE Power!Show
  <2> USE <1>0, <1>16 DEF Power!Show
  <2>1. PowerTyped'
    BY DEF PowerTyped
  <2>2. SameDevice'
    BY DEF SameDevice, PowerTyped
  <2>3. RequestedOnce'
    BY DEF RequestedOnce
  <2>4. SentSoFar'
    BY DEF SentSoFar, RequestedOnce, SameDevice
  <2>5. TouchKnown'
    BY DEF TouchKnown, PowerTyped
  <2>6. PowerReported'
    BY DEF PowerReported, SentSoFar, RequestedOnce, TouchKnown
  <2> QED BY <2>1, <2>2, <2>3, <2>4, <2>5, <2>6 DEF PowerInv
<1>17. CASE Power!Answer
  <2> USE <1>0, <1>17 DEF Power!Answer
  <2>1. PowerTyped'
    BY DEF PowerTyped
  <2>2. SameDevice'
    BY DEF SameDevice, PowerTyped
  <2>3. RequestedOnce'
    BY DEF RequestedOnce
  <2>4. SentSoFar'
    BY DEF SentSoFar, RequestedOnce, SameDevice
  <2>5. TouchKnown'
    BY DEF TouchKnown, PowerTyped
  <2>6. PowerReported'
    BY DEF PowerReported, SentSoFar, RequestedOnce, TouchKnown
  <2> QED BY <2>1, <2>2, <2>3, <2>4, <2>5, <2>6 DEF PowerInv
<1>18. CASE Power!ServiceReturns
  <2> USE <1>0, <1>18 DEF Power!ServiceReturns
  <2>1. PowerTyped'
    BY DEF PowerTyped
  <2>2. SameDevice'
    BY DEF SameDevice, PowerTyped
  <2>3. RequestedOnce'
    BY DEF RequestedOnce
  <2>4. SentSoFar'
    BY DEF SentSoFar, RequestedOnce, SameDevice
  <2>5. TouchKnown'
    BY DEF TouchKnown, PowerTyped
  <2>6. PowerReported'
    BY DEF PowerReported, SentSoFar, RequestedOnce, TouchKnown
  <2> QED BY <2>1, <2>2, <2>3, <2>4, <2>5, <2>6 DEF PowerInv
<1>19. CASE Power!Reconnect
  <2> USE <1>0, <1>19 DEF Power!Reconnect
  <2>1. PowerTyped'
    BY DEF PowerTyped
  <2>2. SameDevice'
    BY DEF SameDevice, PowerTyped
  <2>3. RequestedOnce'
    BY DEF RequestedOnce
  <2>4. SentSoFar'
    BY DEF SentSoFar, RequestedOnce, SameDevice
  <2>5. TouchKnown'
    BY DEF TouchKnown, PowerTyped
  <2>6. PowerReported'
    BY DEF PowerReported, SentSoFar, RequestedOnce, TouchKnown
  <2> QED BY <2>1, <2>2, <2>3, <2>4, <2>5, <2>6 DEF PowerInv
<1> QED
  BY <1>1, <1>2, <1>3, <1>4, <1>5, <1>6, <1>7, <1>8, <1>9, <1>10, <1>11, <1>12, <1>13,
     <1>14, <1>15, <1>16, <1>17, <1>18, <1>19 DEF Power!Next

\* Only the bound device is ever sent anything, and the shutdown is requested at
\* most once; unless the service denied it, an error is reported only while
\* nothing but a touch was sent and none is left to act (cli/device_power.py).
LEMMA ShutdownSafe == Power!Spec => []Power!SafeShutdown
<1>1. PowerInv /\ [Power!Next]_Power!vars => PowerInv'
  BY PowerStep DEF Power!vars, Power!device, Power!command, Power!history, PowerVars
<1>2. PowerInv => Power!SafeShutdown
  BY DEF PowerInv, SentSoFar, RequestedOnce, PowerReported, Power!SafeShutdown
<1> QED BY <1>1, <1>2, PowerInit, PTL DEF Power!Spec

-----------------------------------------------------------------------------
(* Updates of the application (cli/app_update.py): a release is verified,  *)
(* prepared and installed; other invocations do the same meanwhile.        *)

UpdateTyped ==
    /\ updatePlayer \in [installed : Apks, staged : Apks \cup {Update!None},
                         phase : {"idle", "failed"} \cup Update!Busy]
    /\ updatePlayer.phase # "idle" => updatePlayer.staged \in Apks
    /\ updateChosen \in [Invocations -> DOMAIN Releases]
    /\ updatePc = [i \in Invocations |-> updatePc[i]]
    /\ report = [i \in Invocations |-> report[i]]

\* Who has begun has verified the release, and who installs has found the version
\* that the release names in its file.
CheckedRelease(i) ==
    /\ updatePc[i] \notin {"status", "done"} => Update!Verified(updateChosen[i])
    /\ updatePc[i] = "install" => CodeOf[Update!Sha(i)] = Update!Code(i)

\* Every request ever made is of the release of its invocation.
OfItsRelease(q) ==
    /\ q.by \in Invocations /\ q.sha = Update!Sha(q.by)
    /\ q.operation = "install" =>
         CodeOf[q.sha] = Update!Code(q.by) /\ Update!Verified(updateChosen[q.by])

UpdateRequests == acted \cup updateFlight

\* What an invocation cannot have asked for yet.
NotYetAsked(i) ==
    /\ updatePc[i] \in {"status", "prepare"} => \A q \in UpdateRequests : q.by # i
    /\ updatePc[i] \in {"prepared", "poll", "install"} =>
         \A q \in UpdateRequests : q.by = i => q.operation # "install"

\* Reports are made at the end and stay true.
ReportedOfRelease(i) ==
    /\ updatePc[i] # "done" => report[i] = "none"
    /\ report[i] = "not_requested" => \A q \in UpdateRequests : q.by # i
    /\ report[i] \in {"not_installed", "pending"} =>
         \A q \in UpdateRequests : q.by = i => q.operation # "install"
    /\ report[i] \in {"verified", "superseded"} =>
         CodeOf[updatePlayer.installed] >= Update!Code(i)

UpdateInv ==
    /\ UpdateTyped
    /\ \A q \in UpdateRequests : OfItsRelease(q)
    /\ \A i \in Invocations : CheckedRelease(i) /\ NotYetAsked(i) /\ ReportedOfRelease(i)

\* Updates begin with nothing prepared.
LEMMA UpdateInit ==
    ASSUME Update!UpdateAssumption, Update!Init
    PROVE  UpdateInv
<1> USE DEF Update!Init, Update!None
<1>1. updatePlayer.installed \in Apks /\ updatePlayer.phase = "idle"
  OBVIOUS
<1>2. UpdateTyped
  BY DEF UpdateTyped
<1>3. UpdateRequests = {}
  BY DEF UpdateRequests
<1>4. ASSUME NEW i \in Invocations PROVE CheckedRelease(i) /\ NotYetAsked(i)
     /\ ReportedOfRelease(i)
  BY <1>3 DEF CheckedRelease, NotYetAsked, ReportedOfRelease
<1> QED BY <1>2, <1>3, <1>4 DEF UpdateInv

\* Releases and files have version codes.
LEMMA CodeNumbers ==
    ASSUME Update!UpdateAssumption, UpdateTyped
    PROVE  /\ \A a \in Apks : CodeOf[a] \in Nat
           /\ \A i \in Invocations : Update!Sha(i) \in Apks /\ Update!Code(i) \in Nat
BY DEF Update!UpdateAssumption, UpdateTyped, Update!Sha, Update!Code, Update!Release

\* What a request asks for stays what its invocation chose.
LEMMA ReleaseKept ==
    ASSUME UNCHANGED updateChosen, NEW q, OfItsRelease(q)
    PROVE  OfItsRelease(q)'
<1>1. /\ q.by \in Invocations
      /\ Update!Sha(q.by)' = Update!Sha(q.by) /\ Update!Code(q.by)' = Update!Code(q.by)
      /\ Update!Verified(updateChosen[q.by])' = Update!Verified(updateChosen[q.by])
  BY DEF OfItsRelease, Update!Sha, Update!Code, Update!Release, Update!Verified
<1> QED BY <1>1 DEF OfItsRelease

\* A step of one invocation that makes no request.
LEMMA QuietUpdate ==
    ASSUME UpdateInv, NEW i \in Invocations, UNCHANGED <<updateChosen, updatePlayer,
           updateFlight, acted>>,
           NEW to, updatePc' = [updatePc EXCEPT ![i] = to],
           NEW what, report' = [report EXCEPT ![i] = what],
           to \notin {"status", "done"} => Update!Verified(updateChosen[i]),
           to = "install" => CodeOf[Update!Sha(i)] = Update!Code(i),
           to \in {"status", "prepare"} => \A q \in UpdateRequests : q.by # i,
           to \in {"prepared", "poll", "install"} =>
               \A q \in UpdateRequests : q.by = i => q.operation # "install",
           to # "done" => what = "none",
           what = "not_requested" => \A q \in UpdateRequests : q.by # i,
           what \in {"not_installed", "pending"} =>
               \A q \in UpdateRequests : q.by = i => q.operation # "install",
           what \in {"verified", "superseded"} =>
               CodeOf[updatePlayer.installed] >= Update!Code(i)
    PROVE  UpdateInv'
<1>1. UpdateTyped'
  BY DEF UpdateInv, UpdateTyped, Update!Busy, Update!Staging
<1>2. UpdateRequests' = UpdateRequests /\ \A q \in UpdateRequests : OfItsRelease(q)'
  BY ReleaseKept DEF UpdateInv, UpdateRequests
<1>3. ASSUME NEW j \in Invocations PROVE (CheckedRelease(j) /\ NotYetAsked(j)
     /\ ReportedOfRelease(j))'
  <2>1. updatePc'[i] = to /\ report'[i] = what
    BY DEF UpdateInv, UpdateTyped
  <2>2. CASE j = i
    BY <1>2, <2>1, <2>2 DEF CheckedRelease, NotYetAsked, ReportedOfRelease,
       Update!Sha, Update!Code, Update!Release, Update!Verified
  <2>3. CASE j # i
    <3>1. updatePc'[j] = updatePc[j] /\ report'[j] = report[j]
      BY <2>3 DEF UpdateInv, UpdateTyped
    <3> QED BY <1>2, <3>1, SMTT(30) DEF UpdateInv, CheckedRelease, NotYetAsked, ReportedOfRelease,
               Update!Sha, Update!Code, Update!Release, Update!Verified
  <2> QED BY <2>2, <2>3
<1> QED BY <1>1, <1>2, <1>3 DEF UpdateInv

\* The same for a step that goes on: it reports nothing.
LEMMA MovingUpdate ==
    ASSUME UpdateInv, NEW i \in Invocations, UNCHANGED <<updateChosen, updatePlayer,
           updateFlight, acted>>,
           updatePc[i] # "done", Update!Verified(updateChosen[i]),
           NEW to \in {"prepare", "poll", "install", "after"},
           updatePc' = [updatePc EXCEPT ![i] = to], report' = report,
           to = "install" => CodeOf[Update!Sha(i)] = Update!Code(i),
           to = "prepare" => \A q \in UpdateRequests : q.by # i,
           to \in {"poll", "install"} => \A q \in UpdateRequests : q.by = i
                => q.operation # "install"
    PROVE  UpdateInv'
<1> DEFINE what == "none"
<1>1. report' = [report EXCEPT ![i] = what]
  BY DEF UpdateInv, UpdateTyped, ReportedOfRelease
<1>2. /\ what # "not_requested" /\ what \notin {"not_installed", "pending"}
      /\ what \notin {"verified", "superseded"}
  OBVIOUS
<1>3. to \in {"status", "prepare"} => \A q \in UpdateRequests : q.by # i
  OBVIOUS
<1>4. to \in {"prepared", "poll", "install"} =>
        \A q \in UpdateRequests : q.by = i => q.operation # "install"
  OBVIOUS
<1>5. to # "done" => what = "none"
  OBVIOUS
<1> HIDE DEF what
<1> QED BY <1>1, <1>2, <1>3, <1>4, <1>5, QuietUpdate

\* A step of one invocation that makes a request.
LEMMA AskingUpdate ==
    ASSUME UpdateInv, NEW i \in Invocations, UNCHANGED <<updateChosen, updatePlayer, acted>>,
           NEW operation, Update!Asks(i, operation),
           NEW to, updatePc' = [updatePc EXCEPT ![i] = to], report' = report,
           updatePc[i] # "done",
           \/ operation = "prepare" /\ updatePc[i] = "prepare" /\ to = "prepared"
           \/ operation = "install" /\ updatePc[i] = "install" /\ to = "requested"
    PROVE  UpdateInv'
<1>0. UpdateTyped /\ CheckedRelease(i) /\ NotYetAsked(i) /\ ReportedOfRelease(i)
  BY DEF UpdateInv
<1>1. UpdateTyped'
  BY <1>0 DEF UpdateTyped, Update!Busy, Update!Staging
<1> DEFINE n == [by |-> i, operation |-> operation, sha |-> Update!Sha(i)]
<1>2. UpdateRequests' = UpdateRequests \cup {n}
  BY DEF UpdateRequests, Update!Asks
<1>3. ASSUME NEW q \in UpdateRequests' PROVE OfItsRelease(q)'
  <2>1. CASE q \in UpdateRequests
    BY <2>1, ReleaseKept DEF UpdateInv
  <2>2. CASE q = n
    <3>1. /\ operation = "install" => CodeOf[Update!Sha(i)] = Update!Code(i)
          /\ operation = "install" => Update!Verified(updateChosen[i])
      BY <1>0 DEF CheckedRelease
    <3> QED BY <2>2, <3>1 DEF OfItsRelease, Update!Sha, Update!Code, Update!Release,
               Update!Verified
  <2> QED BY <1>2, <2>1, <2>2
<1>4. ASSUME NEW j \in Invocations PROVE (CheckedRelease(j) /\ NotYetAsked(j)
     /\ ReportedOfRelease(j))'
  <2>1. updatePc'[i] = to
    BY <1>0 DEF UpdateTyped
  <2>2. CASE j = i
    <3>1. report[i] = "none" /\ to \in {"prepared", "requested"}
      BY <1>0 DEF ReportedOfRelease
    <3>2. Update!Verified(updateChosen[i])
      BY <1>0 DEF CheckedRelease
    <3>3. to = "prepared" => \A q \in UpdateRequests' : q.by = i => q.operation # "install"
      BY <1>0, <1>2 DEF NotYetAsked
    <3> QED BY <2>1, <2>2, <3>1, <3>2, <3>3 DEF CheckedRelease, NotYetAsked, ReportedOfRelease,
               Update!Verified
  <2>3. CASE j # i
    <3>1. updatePc'[j] = updatePc[j] /\ CheckedRelease(j) /\ NotYetAsked(j)
         /\ ReportedOfRelease(j)
      BY <1>0, <2>3 DEF UpdateInv, UpdateTyped
    <3>2. \A q \in UpdateRequests' : q.by = j => q \in UpdateRequests
      BY <1>2, <2>3
    <3> QED BY <3>1, <3>2 DEF CheckedRelease, NotYetAsked, ReportedOfRelease, Update!Sha,
               Update!Code,
               Update!Release, Update!Verified
  <2> QED BY <2>2, <2>3
<1> QED BY <1>1, <1>3, <1>4 DEF UpdateInv

\* A step of the player or the network.
LEMMA WorldUpdate ==
    ASSUME Update!UpdateAssumption, UpdateInv, UNCHANGED <<updateChosen, updatePc, report>>,
           UpdateRequests' \subseteq UpdateRequests, UpdateTyped',
           CodeOf[updatePlayer'.installed] >= CodeOf[updatePlayer.installed]
    PROVE  UpdateInv'
<1>1. ASSUME NEW q \in UpdateRequests' PROVE OfItsRelease(q)'
  BY ReleaseKept DEF UpdateInv
<1>2. ASSUME NEW j \in Invocations PROVE (CheckedRelease(j) /\ NotYetAsked(j)
     /\ ReportedOfRelease(j))'
  <2>1. CheckedRelease(j) /\ NotYetAsked(j) /\ ReportedOfRelease(j) /\ UpdateTyped
    BY DEF UpdateInv
  <2>2. (CheckedRelease(j) /\ NotYetAsked(j))'
    BY <2>1 DEF CheckedRelease, NotYetAsked, Update!Sha, Update!Code, Update!Release,
       Update!Verified
  <2>3. Update!Code(j)' = Update!Code(j)
    BY DEF Update!Code, Update!Release
  <2>4. /\ CodeOf[updatePlayer.installed] \in Nat /\ CodeOf[updatePlayer'.installed] \in Nat
        /\ Update!Code(j) \in Nat
    BY <2>1, CodeNumbers DEF UpdateTyped
  <2>5. CodeOf[updatePlayer.installed] >= Update!Code(j)
        => CodeOf[updatePlayer'.installed] >= Update!Code(j)
    BY <2>4
  <2> QED BY <2>1, <2>2, <2>3, <2>5 DEF ReportedOfRelease
<1> QED BY <1>1, <1>2 DEF UpdateInv

\* Every step of an update keeps the invariant.
LEMMA UpdateStep ==
    ASSUME Update!UpdateAssumption, UpdateInv, [Update!Next]_UpdateVars
    PROVE  UpdateInv'
<1> USE DEF Update!Ends, Update!Steps, Update!Goes
<1>0. UpdateTyped /\ \A i \in Invocations : CheckedRelease(i) /\ NotYetAsked(i)
     /\ ReportedOfRelease(i)
  BY DEF UpdateInv
<1>a. \A i \in Invocations :
        updatePc[i] # "done" /\ UNCHANGED report => report' = [report EXCEPT ![i] = "none"]
  BY <1>0 DEF UpdateTyped, ReportedOfRelease
<1>b. CodeOf[updatePlayer.installed] >= CodeOf[updatePlayer.installed]
  BY <1>0, CodeNumbers DEF UpdateTyped
<1>1. CASE UNCHANGED UpdateVars
  <2>1. UpdateTyped' /\ UpdateRequests' = UpdateRequests
    BY <1>0, <1>1 DEF UpdateVars, UpdateTyped, UpdateRequests, Update!Busy, Update!Staging
  <2>2. UNCHANGED <<updateChosen, updatePc, report, updatePlayer>>
    BY <1>1 DEF UpdateVars
  <2> QED BY <1>b, <2>1, <2>2, WorldUpdate
<1>2. ASSUME NEW i \in Invocations, Update!Fail(i) PROVE UpdateInv'
  BY <1>0, <1>2, QuietUpdate, ZenonT(60) DEF Update!Fail, NotYetAsked
<1>3. ASSUME NEW i \in Invocations, Update!Start(i) PROVE UpdateInv'
  <2>1. \A q \in UpdateRequests : q.by # i
    BY <1>0, <1>3 DEF Update!Start, NotYetAsked
  <2>2. CASE Update!Ends(i, "not_requested")
    BY <1>3, <2>1, <2>2, QuietUpdate DEF Update!Start
  <2>3. CASE \E to \in {"poll", "prepare"} :
                Update!Verified(updateChosen[i]) /\ Update!Steps(i, to)
    BY <1>a, <1>3, <2>1, <2>3, QuietUpdate DEF Update!Start
  <2> QED BY <1>3, <2>2, <2>3 DEF Update!Start
<1>4. ASSUME NEW i \in Invocations, Update!Prepare(i) PROVE UpdateInv'
  BY <1>4, AskingUpdate DEF Update!Prepare
<1>5. ASSUME NEW i \in Invocations, Update!Prepared(i) PROVE UpdateInv'
  <2>1. CASE Update!Steps(i, "poll")
    <3>1. UNCHANGED <<updateChosen, updatePlayer, updateFlight, acted>>
         /\ updatePc[i] = "prepared"
          /\ updatePc' = [updatePc EXCEPT ![i] = "poll"] /\ report' = report
      BY <1>5, <2>1 DEF Update!Prepared
    <3>3. Update!Verified(updateChosen[i])
      BY <1>0, <3>1 DEF CheckedRelease
    <3>4. \A q \in UpdateRequests : q.by = i => q.operation # "install"
      BY <1>0, <3>1 DEF NotYetAsked
    <3> QED BY <3>1, <3>3, <3>4, MovingUpdate
  <2>2. CASE Update!Ends(i, "error")
    BY <1>5, <2>2, QuietUpdate DEF Update!Prepared
  <2> QED BY <1>5, <2>1, <2>2 DEF Update!Prepared
<1>6. ASSUME NEW i \in Invocations, Update!Poll(i) PROVE UpdateInv'
  <2>1. ASSUME NEW what \in {"not_installed", "pending"}, Update!Ends(i, what) PROVE UpdateInv'
    BY <1>0, <1>6, <2>1, QuietUpdate DEF Update!Poll, NotYetAsked
  <2>2. CASE Update!Matches(i) /\ Update!Steps(i, "install")
    <3>1. UNCHANGED <<updateChosen, updatePlayer, updateFlight, acted>> /\ updatePc[i] = "poll"
          /\ updatePc' = [updatePc EXCEPT ![i] = "install"] /\ report' = report
      BY <1>6, <2>2 DEF Update!Poll
    <3>3. Update!Verified(updateChosen[i])
      BY <1>0, <3>1 DEF CheckedRelease
    <3>4. \A q \in UpdateRequests : q.by = i => q.operation # "install"
      BY <1>0, <3>1 DEF NotYetAsked
    <3>5. CodeOf[Update!Sha(i)] = Update!Code(i)
      BY <2>2 DEF Update!Matches
    <3> QED BY <3>1, <3>3, <3>4, <3>5, MovingUpdate
  <2> QED BY <1>6, <2>1, <2>2 DEF Update!Poll
<1>7. ASSUME NEW i \in Invocations, Update!Install(i) PROVE UpdateInv'
  BY <1>7, AskingUpdate DEF Update!Install
<1>8. ASSUME NEW i \in Invocations, Update!Requested(i) PROVE UpdateInv'
  <2>1. CASE Update!Steps(i, "after")
    <3>1. UNCHANGED <<updateChosen, updatePlayer, updateFlight, acted>>
         /\ updatePc[i] = "requested"
          /\ updatePc' = [updatePc EXCEPT ![i] = "after"] /\ report' = report
      BY <1>8, <2>1 DEF Update!Requested
    <3>3. Update!Verified(updateChosen[i])
      BY <1>0, <3>1 DEF CheckedRelease
    <3> QED BY <3>1, <3>3, MovingUpdate
  <2>2. CASE Update!Ends(i, "error")
    BY <1>8, <2>2, QuietUpdate DEF Update!Requested
  <2> QED BY <1>8, <2>1, <2>2 DEF Update!Requested
<1>9. ASSUME NEW i \in Invocations, Update!Follow(i) PROVE UpdateInv'
  <2>1. CodeOf[updatePlayer.installed] \in Nat /\ Update!Code(i) \in Nat
    BY <1>0, CodeNumbers DEF UpdateTyped
  <2>2. \E what \in {"superseded", "verified", "error", "confirm"} :
          /\ Update!Ends(i, what)
          /\ what \in {"verified", "superseded"} =>
               CodeOf[updatePlayer.installed] >= Update!Code(i)
    BY <1>9, <2>1 DEF Update!Follow
  <2> QED BY <1>9, <2>2, QuietUpdate, ZenonT(60) DEF Update!Follow
<1>10. ASSUME NEW q \in updateFlight, Update!Handle(q) PROVE UpdateInv'
  <2>1. UpdateRequests' \subseteq UpdateRequests
    BY <1>10 DEF Update!Handle, UpdateRequests
  <2>2. q.sha \in Apks
    <3>1. q.by \in Invocations /\ q.sha = Update!Sha(q.by)
      BY <1>10 DEF UpdateInv, UpdateRequests, OfItsRelease
    <3> QED BY <1>0, <3>1, CodeNumbers
  <2>3. \/ updatePlayer' = updatePlayer
        \/ updatePlayer' = [updatePlayer EXCEPT !.staged = q.sha, !.phase = "downloading"]
        \/ /\ updatePlayer.phase \in {"ready", "awaiting_permission"}
           /\ \E p \in {"awaiting_permission", "installing"} :
                updatePlayer' = [updatePlayer EXCEPT !.phase = p]
    BY <1>10 DEF Update!Handle
  <2>4. /\ updatePlayer' \in [installed : Apks, staged : Apks \cup {Update!None},
                              phase : {"idle", "failed"} \cup Update!Busy]
        /\ updatePlayer'.phase # "idle" => updatePlayer'.staged \in Apks
        /\ updatePlayer'.installed = updatePlayer.installed
    BY <1>0, <2>2, <2>3 DEF UpdateTyped, Update!Busy, Update!Staging
  <2>5. UNCHANGED <<updateChosen, updatePc, report>>
    BY <1>10 DEF Update!Handle
  <2>6. UpdateTyped'
    BY <1>0, <2>4, <2>5 DEF UpdateTyped, Update!Busy, Update!Staging
  <2> QED BY <1>b, <2>1, <2>4, <2>5, <2>6, WorldUpdate
<1>11. ASSUME NEW q \in updateFlight, Update!Lose(q) PROVE UpdateInv'
  <2>1. UpdateTyped' /\ UpdateRequests' \subseteq UpdateRequests
    BY <1>0, <1>11 DEF Update!Lose, UpdateTyped, UpdateRequests, Update!Busy, Update!Staging
  <2>2. UNCHANGED <<updateChosen, updatePc, report, updatePlayer>>
    BY <1>11 DEF Update!Lose
  <2> QED BY <1>b, <2>1, <2>2, WorldUpdate
<1>12. CASE Update!Proceed
  <2>1. UpdateRequests' \subseteq UpdateRequests /\ UNCHANGED <<updateChosen, updatePc, report>>
    BY <1>12 DEF Update!Proceed, UpdateRequests
  <2>2. \/ /\ updatePlayer.phase # "idle"
           /\ \E p \in {"ready", "failed", "awaiting_confirmation"} :
                updatePlayer' = [updatePlayer EXCEPT !.phase = p]
        \/ /\ updatePlayer.phase = "awaiting_confirmation"
           /\ CodeOf[updatePlayer.staged] > CodeOf[updatePlayer.installed]
           /\ updatePlayer' = [updatePlayer EXCEPT !.installed = updatePlayer.staged,
                                                   !.phase = "idle"]
    BY <1>12 DEF Update!Proceed
  <2>3. /\ updatePlayer' \in [installed : Apks, staged : Apks \cup {Update!None},
                              phase : {"idle", "failed"} \cup Update!Busy]
        /\ updatePlayer'.phase # "idle" => updatePlayer'.staged \in Apks
    BY <1>0, <2>2 DEF UpdateTyped, Update!Busy, Update!Staging
  <2>4. CodeOf[updatePlayer'.installed] >= CodeOf[updatePlayer.installed]
    <3>1. CASE updatePlayer'.installed = updatePlayer.installed
      BY <1>b, <3>1
    <3>2. CASE updatePlayer' = [updatePlayer EXCEPT !.installed = updatePlayer.staged,
                                                   !.phase = "idle"]
               /\ CodeOf[updatePlayer.staged] > CodeOf[updatePlayer.installed]
               /\ updatePlayer.phase = "awaiting_confirmation"
      <4>1. updatePlayer'.installed = updatePlayer.staged
        BY <1>0, <3>2 DEF UpdateTyped
      <4>2. CodeOf[updatePlayer.staged] \in Nat /\ CodeOf[updatePlayer.installed] \in Nat
        BY <1>0, <3>2, CodeNumbers DEF UpdateTyped
      <4>3. CodeOf[updatePlayer.staged] >= CodeOf[updatePlayer.installed]
        BY <3>2, <4>2
      <4> QED BY <4>1, <4>3
    <3> QED BY <1>0, <2>2, <3>1, <3>2 DEF UpdateTyped
  <2>5. UpdateTyped'
    BY <1>0, <2>1, <2>3 DEF UpdateTyped, Update!Busy, Update!Staging
  <2> QED BY <2>1, <2>4, <2>5, WorldUpdate
<1> QED
  BY <1>1, <1>2, <1>3, <1>4, <1>5, <1>6, <1>7, <1>8, <1>9, <1>10, <1>11, <1>12
     DEF Update!Next

\* An update installs only the file of its verified release, with that release's
\* version; who reports that nothing was requested, or installed, requested
\* nothing, or no installation (cli/app_update.py).
LEMMA UpdateSafe ==
    ASSUME Update!UpdateAssumption
    PROVE  Update!Spec => []Update!SafeUpdate
<1>1. Update!Init => UpdateInv
  BY UpdateInit
<1>2. UpdateInv /\ [Update!Next]_Update!vars => UpdateInv'
  BY UpdateStep DEF Update!vars, UpdateVars
<1>3. UpdateInv => Update!SafeUpdate
  BY DEF UpdateInv, UpdateRequests, OfItsRelease, ReportedOfRelease, Update!SafeUpdate,
     Update!Installs,
         Update!Requests
<1> QED BY <1>1, <1>2, <1>3, PTL DEF Update!Spec

-----------------------------------------------------------------------------
(* The registry's operator (cli/device_registry.py): an operation is       *)
(* checkpointed before it is sent, and its receipt outlives it by a window *)
(* of days.                                                                *)

RegistryTyped ==
    /\ registryRow \in [gen : Nat, state : {"active", "revoked", "absent"}]
    /\ receipts \in [Registry!Operations ->
                       [gen : Nat, state : {"active", "revoked", "none"}, on : Nat]]
    /\ registryEffects \in [Registry!Operations -> {0, 1}]
    /\ posts \in [Registry!Operations -> Nat]
    /\ settled \in [Registry!Operations -> {"open", "done", "refused", "forgotten"}]
    /\ day \in Nat /\ prepared \in 0..MaxOperations /\ unaliased \subseteq Nat

\* What can still be sent, or handled.
OnItsWay == {post.request : post \in registryFlight}
Live == OnItsWay \cup ({registryAt, checkpoint} \ {Registry!None})
Request == [op : 1..prepared, kind : Registry!Kinds, gen : Nat, on : Nat]

\* Requests of one operation are one request, and none outlives its window.
LiveSound ==
    /\ \A r \in Live : r \in Request
    /\ \A r, s \in Live : r.op = s.op => r = s
    /\ \A r \in OnItsWay : r.on = day
    /\ registryAt # Registry!None => registryAt.on = day

\* No access of this generation is left, nor comes back.
Ended(g) == registryRow.gen > g \/ (registryRow.gen = g /\ registryRow.state # "active")

\* There is a receipt of what took effect, as old as its request.
ReceiptsSound ==
    /\ \A o \in Registry!Operations :
         registryEffects[o] = 0 <=> receipts[o] = Registry!NoReceipt
    /\ \A o \in Registry!Operations : receipts[o] # Registry!NoReceipt => o <= prepared
    /\ \A r \in Live : receipts[r.op] # Registry!NoReceipt =>
         receipts[r.op].on = r.on /\ (r.kind = "remove" => Ended(r.gen))

\* The posts of an operation are numbered; only what was sent takes effect, and
\* what was sent once is on its way or took effect, not both.
PostsSound ==
    /\ \A post \in registryFlight :
         /\ post = [request |-> post.request, nth |-> post.nth]
         /\ post.nth \in 1..posts[post.request.op]
         /\ posts[post.request.op] = 1 => registryEffects[post.request.op] = 0
    /\ \A o \in Registry!Operations : registryEffects[o] > 0 => posts[o] > 0

\* What was sent is settled or in the checkpoint, and what is settled is in no
\* command's hands.
DoubtSound ==
    /\ registryPc = "idle" <=> registryAt = Registry!None
    /\ registryPc = "prepared" => checkpoint = Registry!None
    /\ registryPc \notin {"idle", "prepared"} => checkpoint = registryAt
    /\ \A o \in Registry!Operations : posts[o] > 0 /\ settled[o] = "open" => checkpoint.op = o
    /\ \A o \in Registry!Operations : settled[o] # "open" => o <= prepared
    /\ registryAt # Registry!None => settled[registryAt.op] = "open"
    /\ checkpoint # Registry!None => settled[checkpoint.op] = "open"

\* It took no effect, and will not.
NeverActs(o) ==
    registryEffects[o] = 0 /\ \A post \in registryFlight : post.request.op # o

\* Who goes on after an answer has a receipt; a refusal of what was sent once is one.
AnswerSound ==
    /\ registryPc = "sent" /\ registryReply = "receipt" =>
         receipts[registryAt.op] # Registry!NoReceipt
    /\ registryPc \in {"confirm", "confirmed", "settle"} =>
         receipts[registryAt.op] # Registry!NoReceipt
    /\ registryPc = "sent" /\ registryReply = "refused" /\ posts[registryAt.op] = 1 =>
         NeverActs(registryAt.op)
    /\ \A o \in Registry!Operations :
         /\ settled[o] = "done" => registryEffects[o] > 0
         /\ settled[o] = "refused" /\ posts[o] = 1 => NeverActs(o)
    /\ \A g \in unaliased : Ended(g)

RegistryInv ==
    RegistryTyped /\ LiveSound /\ ReceiptsSound /\ PostsSound /\ DoubtSound /\ AnswerSound

\* The registry begins with no receipt and nothing in doubt.
LEMMA RegistryInit ==
    ASSUME Registry!OperatorAssumption, Registry!Init
    PROVE  RegistryInv
<1> USE DEF Registry!Init, Registry!OperatorAssumption
<1>1. RegistryTyped
  BY DEF RegistryTyped, Registry!NoReceipt, Registry!Operations
<1>2. Live = {} /\ OnItsWay = {}
  BY DEF Live, OnItsWay
<1>3. LiveSound /\ ReceiptsSound /\ PostsSound
  BY <1>2 DEF LiveSound, ReceiptsSound, PostsSound, Registry!Operations
<1>4. DoubtSound /\ AnswerSound
  BY DEF DoubtSound, AnswerSound, Registry!Operations
<1> QED BY <1>1, <1>3, <1>4 DEF RegistryInv

\* What is live is a request of an operation prepared.
LEMMA LiveRequests ==
    ASSUME Registry!OperatorAssumption, RegistryInv, NEW r \in Live
    PROVE  /\ r.op \in Registry!Operations /\ r.op \in 1..prepared /\ r.op > 0
           /\ r.kind \in Registry!Kinds /\ r.gen \in Nat /\ r.on \in Nat
           /\ r # Registry!None
<1>1. r \in Request /\ prepared \in 0..MaxOperations /\ MaxOperations \in Nat
  BY DEF RegistryInv, RegistryTyped, LiveSound, Registry!OperatorAssumption
<1>2. r.op \in 1..prepared /\ r.kind \in Registry!Kinds /\ r.gen \in Nat /\ r.on \in Nat
  BY <1>1 DEF Request
<1>3. r.op \in 1..MaxOperations /\ r.op > 0
  BY <1>1, <1>2
<1>4. Registry!None.op = 0
  BY DEF Registry!None
<1> QED BY <1>2, <1>3, <1>4 DEF Registry!Operations

\* What is on its way, in the checkpoint or at hand is live.
LEMMA LiveParts ==
    /\ \A post \in registryFlight : post.request \in OnItsWay /\ post.request \in Live
    /\ registryAt # Registry!None => registryAt \in Live
    /\ checkpoint # Registry!None => checkpoint \in Live
BY DEF Live, OnItsWay

\* What leaves the network alone, or takes from it, adds nothing live.
LEMMA NothingSent ==
    ASSUME registryFlight' \subseteq registryFlight,
           registryAt' \in {registryAt, checkpoint, Registry!None},
           checkpoint' \in {registryAt, checkpoint, Registry!None}
    PROVE  Live' \subseteq Live /\ OnItsWay' \subseteq OnItsWay
<1>1. OnItsWay' \subseteq OnItsWay
  BY DEF OnItsWay
<1> QED BY <1>1 DEF Live, Registry!None

\* A step of the command, or of the network, that leaves the registry alone.
LEMMA QuietRegistry ==
    ASSUME RegistryInv, UNCHANGED <<registryRow, receipts, registryEffects, day, prepared, posts>>,
           registryFlight' \subseteq registryFlight,
           registryAt' \in {registryAt, checkpoint, Registry!None},
           checkpoint' \in {registryAt, checkpoint, Registry!None},
           unaliased' \subseteq Nat,
           settled' \in [Registry!Operations -> {"open", "done", "refused", "forgotten"}],
           registryAt' # Registry!None => registryAt'.on = day,
           DoubtSound', AnswerSound'
    PROVE  RegistryInv'
<1>1. RegistryTyped'
  BY DEF RegistryInv, RegistryTyped, Registry!Operations
<1>2. Request' = Request /\ Live' \subseteq Live /\ OnItsWay' \subseteq OnItsWay
  BY NothingSent DEF Request, Registry!Kinds
<1>3. LiveSound'
  <2>1. (\A r \in Live : r \in Request)'
    BY <1>2 DEF RegistryInv, LiveSound
  <2>2. (\A r, s \in Live : r.op = s.op => r = s)'
    BY <1>2 DEF RegistryInv, LiveSound
  <2>3. (\A r \in OnItsWay : r.on = day)'
    BY <1>2 DEF RegistryInv, LiveSound
  <2> QED BY <2>1, <2>2, <2>3 DEF LiveSound, Registry!None
<1>4. ReceiptsSound' /\ PostsSound'
  BY <1>2 DEF RegistryInv, ReceiptsSound, PostsSound, Ended, Registry!Operations,
     Registry!NoReceipt
<1> QED BY <1>1, <1>3, <1>4 DEF RegistryInv

\* Access that ended stays ended.
LEMMA StaysEnded ==
    ASSUME RegistryInv, NEW g \in Nat, Ended(g),
           registryRow' = registryRow \/ registryRow'.gen = registryRow.gen + 1
    PROVE  Ended(g)'
<1>1. CASE registryRow' = registryRow
  BY <1>1 DEF Ended
<1>2. CASE registryRow'.gen = registryRow.gen + 1
  <2>1. registryRow.gen \in Nat /\ registryRow.gen >= g
    BY DEF Ended, RegistryInv, RegistryTyped
  <2>2. registryRow'.gen > g
    BY <1>2, <2>1
  <2> QED BY <2>2 DEF Ended
<1> QED BY <1>1, <1>2

\* A new operation is prepared, of a number never used.
LEMMA RegistryPrepareStep ==
    ASSUME Registry!OperatorAssumption, RegistryInv, NEW kind \in Registry!Kinds,
           Registry!Prepare(kind)
    PROVE  RegistryInv'
<1> DEFINE new == [op |-> prepared + 1, kind |-> kind, gen |-> registryRow.gen, on |-> day]
<1>0. /\ registryPc = "idle" /\ checkpoint = Registry!None /\ prepared < MaxOperations
      /\ prepared' = prepared + 1 /\ registryAt' = new /\ registryPc' = "prepared"
      /\ UNCHANGED <<registryRow, receipts, registryEffects, registryChanges, day, registryFlight,
                     posts, registryReply, receipt, checkpoint, alias, settled, unaliased>>
  BY DEF Registry!Prepare, Registry!registry, Registry!network
<1>1. prepared \in Nat /\ MaxOperations \in Nat /\ prepared' \in 1..MaxOperations
  BY <1>0 DEF RegistryInv, RegistryTyped, Registry!OperatorAssumption
<1>2. RegistryTyped'
  BY <1>0, <1>1 DEF RegistryInv, RegistryTyped, Registry!Operations
<1>3. Live' = Live \cup {new}
  <2>1. new.op = prepared + 1 /\ Registry!None.op = 0
    BY DEF Registry!None
  <2>2. new # Registry!None
    BY <1>1, <2>1
  <2>3. registryAt = Registry!None
    BY <1>0 DEF RegistryInv, DoubtSound
  <2> QED BY <1>0, <2>2, <2>3 DEF Live, OnItsWay, Registry!None
<1>4. \A r \in Live : r.op # new.op /\ r \in Request'
  <2> SUFFICES ASSUME NEW r \in Live PROVE r.op # new.op /\ r \in Request'
    OBVIOUS
  <2>1. r \in Request /\ r.op \in 1..prepared
    BY LiveRequests DEF RegistryInv, LiveSound
  <2>2. r.op # prepared + 1 /\ r.op \in 1..prepared'
    BY <1>0, <1>1, <2>1
  <2> QED BY <2>1, <2>2 DEF Request, Registry!Kinds
<1>5. new \in Request' /\ registryRow.gen \in Nat /\ day \in Nat
  BY <1>0, <1>1 DEF RegistryInv, RegistryTyped, Request, Registry!Kinds
<1>6. LiveSound'
  <2>1. (\A r \in Live : r \in Request)'
    BY <1>3, <1>4, <1>5
  <2>2. (\A r, s \in Live : r.op = s.op => r = s)'
    BY <1>3, <1>4 DEF RegistryInv, LiveSound
  <2>3. (\A r \in OnItsWay : r.on = day)' /\ registryAt'.on = day'
    BY <1>0 DEF RegistryInv, LiveSound, OnItsWay
  <2> QED BY <2>1, <2>2, <2>3 DEF LiveSound
<1>7. receipts[new.op] = Registry!NoReceipt
  <2>1. new.op \in Registry!Operations /\ ~(new.op <= prepared)
    BY <1>0, <1>1 DEF Registry!Operations
  <2> QED BY <2>1 DEF RegistryInv, ReceiptsSound
<1>8. ReceiptsSound'
  <2>1. ASSUME NEW o \in Registry!Operations, receipts[o] # Registry!NoReceipt
        PROVE  o <= prepared'
    <3>1. o \in Nat /\ o <= prepared
      BY <2>1 DEF RegistryInv, ReceiptsSound, Registry!Operations
    <3> QED BY <1>0, <1>1, <3>1
  <2>2. ASSUME NEW r \in Live', receipts[r.op] # Registry!NoReceipt
        PROVE  receipts[r.op].on = r.on /\ (r.kind = "remove" => Ended(r.gen))
    BY <1>3, <1>7, <2>2 DEF RegistryInv, ReceiptsSound
  <2> QED BY <1>0, <2>1, <2>2 DEF RegistryInv, ReceiptsSound, Ended, Registry!Operations,
             Registry!NoReceipt
<1>9. PostsSound'
  BY <1>0 DEF RegistryInv, PostsSound, Registry!Operations
<1>10. DoubtSound'
  <2>1. registryAt' # Registry!None
    <3>1. new.op = prepared + 1 /\ Registry!None.op = 0
      BY DEF Registry!None
    <3> QED BY <1>0, <1>1, <3>1
  <2>2. settled[new.op] = "open"
    <3>1. new.op \in Registry!Operations /\ ~(new.op <= prepared)
      BY <1>0, <1>1 DEF Registry!Operations
    <3> QED BY <3>1 DEF RegistryInv, DoubtSound
  <2>3. \A o \in Registry!Operations : settled[o] # "open" => o <= prepared + 1
    BY <1>1 DEF RegistryInv, DoubtSound, Registry!Operations
  <2> QED BY <1>0, <2>1, <2>2, <2>3 DEF RegistryInv, DoubtSound, Registry!None,
             Registry!Operations
<1>11. AnswerSound'
  BY <1>0 DEF RegistryInv, AnswerSound, NeverActs, Ended, Registry!Operations
<1> QED BY <1>2, <1>6, <1>8, <1>9, <1>10, <1>11 DEF RegistryInv

\* The command alone: it saves, sends, resumes, reads, reports, stops.
LEMMA RegistryCommandStep ==
    ASSUME Registry!OperatorAssumption, RegistryInv,
           \/ Registry!Save \/ Registry!Resume \/ Registry!Lookup
           \/ Registry!HasReceipt \/ Registry!Refused \/ Registry!Confirm
           \/ Registry!SetAlias \/ Registry!Settle \/ Registry!Stop \/ Registry!Forget
           \/ Registry!Rename
    PROVE  RegistryInv'
<1> USE DEF Registry!registry, Registry!command, Registry!local, Registry!network
<1>0. /\ LiveSound /\ ReceiptsSound /\ PostsSound /\ DoubtSound /\ AnswerSound
      /\ unaliased \subseteq Nat
      /\ settled \in [Registry!Operations -> {"open", "done", "refused", "forgotten"}]
  BY DEF RegistryInv, RegistryTyped
<1>a. registryPc # "idle" => registryAt # Registry!None /\ registryAt \in Live /\ registryAt.on = day
  BY <1>0, LiveParts DEF DoubtSound, LiveSound
<1>b. registryPc # "idle" =>
        registryAt.op \in Registry!Operations /\ registryAt.op <= prepared
  BY <1>a, LiveRequests DEF RegistryInv, RegistryTyped
<1>1. CASE Registry!Save
  <2>1. checkpoint = Registry!None /\ checkpoint.op = 0
    BY <1>0, <1>1 DEF Registry!Save, DoubtSound, Registry!None
  <2>2. \A o \in Registry!Operations : ~(posts[o] > 0 /\ settled[o] = "open")
    BY <1>0, <2>1 DEF DoubtSound, Registry!Operations, Registry!OperatorAssumption
  <2>3. DoubtSound'
    BY <1>0, <1>1, <2>2 DEF Registry!Save, DoubtSound, Registry!None, Registry!Operations
  <2>4. AnswerSound'
    BY <1>0, <1>1 DEF Registry!Save, AnswerSound, NeverActs, Registry!NoReceipt, Ended
  <2> QED BY <1>0, <1>1, <2>3, <2>4, QuietRegistry DEF Registry!Save, LiveSound
<1>2. CASE Registry!Resume
  <2>1. DoubtSound'
    BY <1>0, <1>2 DEF Registry!Resume, DoubtSound, Registry!None, Registry!Operations
  <2>2. AnswerSound'
    BY <1>0, <1>2 DEF Registry!Resume, AnswerSound, NeverActs, Registry!NoReceipt, Ended
  <2> QED BY <1>0, <1>2, <2>1, <2>2, QuietRegistry DEF Registry!Resume, LiveSound,
             Registry!None
<1>3. CASE Registry!Lookup
  <2>1. DoubtSound'
    BY <1>0, <1>3 DEF Registry!Lookup, DoubtSound, Registry!None, Registry!Operations
  <2>2. AnswerSound'
    BY <1>0, <1>3 DEF Registry!Lookup, AnswerSound, NeverActs, Registry!NoReceipt, Ended,
       Registry!Kept
  <2> QED BY <1>0, <1>3, <2>1, <2>2, QuietRegistry DEF Registry!Lookup, LiveSound,
             Registry!None
<1>4. CASE Registry!HasReceipt
  <2>1. DoubtSound'
    BY <1>0, <1>4 DEF Registry!HasReceipt, DoubtSound, Registry!None, Registry!Operations
  <2>2. AnswerSound'
    BY <1>0, <1>4 DEF Registry!HasReceipt, AnswerSound, NeverActs, Registry!NoReceipt, Ended
  <2> QED BY <1>0, <1>4, <2>1, <2>2, QuietRegistry DEF Registry!HasReceipt, LiveSound,
             Registry!None
<1>5. CASE Registry!Refused \/ Registry!Settle
  <2> DEFINE how == IF registryPc = "sent" THEN "refused" ELSE "done"
  <2>1. /\ checkpoint' = Registry!None /\ settled' = [settled EXCEPT ![registryAt.op] = how]
        /\ registryPc' = "idle" /\ registryAt' = Registry!None /\ checkpoint = registryAt
        /\ registryPc # "idle"
        /\ UNCHANGED <<registryRow, receipts, registryEffects, day, registryFlight, posts,
                       prepared, unaliased>>
        /\ \/ registryPc = "sent" /\ registryReply = "refused" /\ how = "refused"
           \/ registryPc = "settle" /\ how = "done"
    BY <1>0, <1>5 DEF Registry!Refused, Registry!Settle, DoubtSound
  <2>2. how = "done" => registryEffects[registryAt.op] > 0
    <3>1. how = "done" => receipts[registryAt.op] # Registry!NoReceipt
      BY <1>0, <2>1 DEF AnswerSound
    <3> QED BY <1>0, <1>b, <2>1, <3>1 DEF ReceiptsSound, RegistryInv, RegistryTyped
  <2>3. how = "refused" /\ posts[registryAt.op] = 1 => NeverActs(registryAt.op)
    BY <1>0, <2>1 DEF AnswerSound
  <2>4. how \in {"done", "refused"}
    OBVIOUS
  <2> HIDE DEF how
  <2>5. \A o \in Registry!Operations :
          settled'[o] = (IF o = registryAt.op THEN how ELSE settled[o])
    BY <1>0, <2>1
  <2>6. DoubtSound'
    BY <1>0, <1>b, <2>1, <2>4, <2>5 DEF DoubtSound, Registry!None, Registry!Operations
  <2>7. AnswerSound'
    BY <1>0, <2>1, <2>2, <2>3, <2>4, <2>5
       DEF AnswerSound, NeverActs, Registry!NoReceipt, Ended
  <2>8. settled' \in [Registry!Operations -> {"open", "done", "refused", "forgotten"}]
    BY <1>0, <2>1, <2>4
  <2> QED BY <1>0, <2>1, <2>6, <2>7, <2>8, QuietRegistry
<1>6. CASE Registry!Confirm
  <2>1. DoubtSound'
    BY <1>0, <1>6 DEF Registry!Confirm, DoubtSound, Registry!None, Registry!Operations
  <2>2. AnswerSound'
    BY <1>0, <1>6 DEF Registry!Confirm, AnswerSound, NeverActs, Registry!NoReceipt, Ended
  <2> QED BY <1>0, <1>6, <2>1, <2>2, QuietRegistry DEF Registry!Confirm, LiveSound,
             Registry!None
<1>7. CASE Registry!SetAlias
  <2>1. DoubtSound'
    BY <1>0, <1>7 DEF Registry!SetAlias, DoubtSound, Registry!None, Registry!Operations
  <2>2. receipts[registryAt.op] # Registry!NoReceipt /\ registryPc # "idle"
    BY <1>0, <1>7 DEF Registry!SetAlias, AnswerSound
  <2>3. registryAt.gen \in Nat /\ (registryAt.kind = "remove" => Ended(registryAt.gen))
    BY <1>0, <1>a, <2>2, LiveRequests DEF ReceiptsSound
  <2>4. AnswerSound'
    BY <1>0, <1>7, <2>2, <2>3
       DEF Registry!SetAlias, AnswerSound, NeverActs, Registry!NoReceipt, Ended
  <2>5. unaliased' \subseteq Nat
    BY <1>0, <1>7, <2>3 DEF Registry!SetAlias
  <2> QED BY <1>0, <1>7, <2>1, <2>4, <2>5, QuietRegistry DEF Registry!SetAlias, LiveSound
<1>8. CASE Registry!Stop
  <2>1. DoubtSound'
    BY <1>0, <1>8 DEF Registry!Stop, DoubtSound, Registry!None, Registry!Operations
  <2>2. AnswerSound'
    BY <1>0, <1>8 DEF Registry!Stop, AnswerSound, NeverActs, Registry!NoReceipt, Ended
  <2> QED BY <1>0, <1>8, <2>1, <2>2, QuietRegistry DEF Registry!Stop, LiveSound,
             Registry!None
<1>9. CASE Registry!Forget
  <2>1. /\ registryPc = "idle" /\ registryAt = Registry!None /\ checkpoint \in Live
        /\ settled' = [settled EXCEPT ![checkpoint.op] = "forgotten"]
        /\ checkpoint' = Registry!None
    BY <1>0, <1>9, LiveParts DEF Registry!Forget, DoubtSound
  <2>2. checkpoint.op \in Registry!Operations /\ checkpoint.op <= prepared
    BY <2>1, LiveRequests DEF RegistryInv, RegistryTyped
  <2>3. \A o \in Registry!Operations :
          settled'[o] = (IF o = checkpoint.op THEN "forgotten" ELSE settled[o])
    BY <1>0, <2>1
  <2>4. DoubtSound'
    BY <1>0, <1>9, <2>1, <2>2, <2>3
       DEF Registry!Forget, DoubtSound, Registry!None, Registry!Operations
  <2>5. AnswerSound'
    BY <1>0, <1>9, <2>3 DEF Registry!Forget, AnswerSound, NeverActs, Registry!NoReceipt, Ended
  <2>6. settled' \in [Registry!Operations -> {"open", "done", "refused", "forgotten"}]
    BY <1>0, <2>1
  <2> QED BY <1>0, <1>9, <2>1, <2>4, <2>5, <2>6, QuietRegistry DEF Registry!Forget, LiveSound
<1>10. CASE Registry!Rename
  <2>1. DoubtSound'
    BY <1>0, <1>10 DEF Registry!Rename, DoubtSound, Registry!None, Registry!Operations
  <2>2. AnswerSound'
    BY <1>0, <1>10 DEF Registry!Rename, AnswerSound, NeverActs, Registry!NoReceipt, Ended
  <2> QED BY <1>0, <1>10, <2>1, <2>2, QuietRegistry DEF Registry!Rename, LiveSound,
             Registry!None
<1> QED BY <1>1, <1>2, <1>3, <1>4, <1>5, <1>6, <1>7, <1>8, <1>9, <1>10

\* A post of the request at hand; it is the next of its number.
LEMMA RegistrySendStep ==
    ASSUME Registry!OperatorAssumption, RegistryInv, Registry!Send
    PROVE  RegistryInv'
<1> DEFINE new == [request |-> registryAt, nth |-> posts[registryAt.op] + 1]
<1>0. RegistryTyped /\ LiveSound /\ ReceiptsSound /\ PostsSound /\ DoubtSound /\ AnswerSound
  BY DEF RegistryInv
<1>1. /\ registryPc = "send" /\ registryPc' = "sent" /\ registryReply' = "none"
      /\ posts' = [posts EXCEPT ![registryAt.op] = @ + 1]
      /\ registryFlight' = registryFlight \cup {new}
      /\ UNCHANGED <<registryRow, receipts, registryEffects, day, registryAt, receipt,
                     checkpoint, alias, prepared, settled, unaliased>>
  BY DEF Registry!Send, Registry!registry, Registry!local
<1>2. registryAt # Registry!None /\ registryAt \in Live /\ registryAt.on = day
  BY <1>0, <1>1, LiveParts DEF DoubtSound, LiveSound
<1>3. registryAt.op \in Registry!Operations
  BY <1>2, LiveRequests
<1>4. /\ new.request = registryAt /\ new.nth = posts[registryAt.op] + 1
      /\ new = [request |-> new.request, nth |-> new.nth]
  OBVIOUS
<1>5. posts[registryAt.op] \in Nat
  BY <1>0, <1>3 DEF RegistryTyped
<1> HIDE DEF new
<1>6. \A o \in Registry!Operations :
        posts'[o] = (IF o = registryAt.op THEN posts[o] + 1 ELSE posts[o]) /\ posts[o] \in Nat
  BY <1>0, <1>1, <1>3 DEF RegistryTyped
<1>7. RegistryTyped'
  BY <1>0, <1>1, <1>3 DEF RegistryTyped, Registry!Operations
<1>8. OnItsWay' = OnItsWay \cup {registryAt} /\ Live' = Live /\ Request' = Request
  <2>1. OnItsWay' = OnItsWay \cup {registryAt}
    BY <1>1, <1>4 DEF OnItsWay
  <2> QED BY <1>1, <1>2, <2>1 DEF Live, Registry!None, Request, Registry!Kinds
<1>9. LiveSound' /\ ReceiptsSound'
  BY <1>0, <1>1, <1>2, <1>8 DEF LiveSound, ReceiptsSound, Ended, Registry!NoReceipt,
     Registry!Operations, Registry!None
<1>10. PostsSound'
  <2>1. ASSUME NEW post \in registryFlight'
        PROVE  /\ post = [request |-> post.request, nth |-> post.nth]
               /\ post.nth \in 1..posts'[post.request.op]
               /\ posts'[post.request.op] = 1 => registryEffects[post.request.op] = 0
    <3>1. CASE post = new
      <4>1. posts[registryAt.op] = 0 => registryEffects[registryAt.op] = 0
        BY <1>0, <1>3 DEF PostsSound, RegistryTyped
      <4> QED BY <1>3, <1>4, <1>5, <1>6, <3>1, <4>1
    <3>2. CASE post \in registryFlight
      <4>1. post.request.op \in Registry!Operations
        BY <3>2, LiveParts, LiveRequests
      <4>2. /\ post = [request |-> post.request, nth |-> post.nth]
            /\ post.nth \in 1..posts[post.request.op]
            /\ posts[post.request.op] = 1 => registryEffects[post.request.op] = 0
        BY <1>0, <3>2 DEF PostsSound
      <4> QED BY <1>6, <4>1, <4>2
    <3> QED BY <1>1, <2>1, <3>1, <3>2
  <2>2. (\A o \in Registry!Operations : registryEffects[o] > 0 => posts[o] > 0)'
    BY <1>0, <1>1, <1>6 DEF PostsSound, Registry!Operations
  <2> QED BY <1>1, <2>1, <2>2 DEF PostsSound
<1>11. DoubtSound'
  <2>1. checkpoint.op = registryAt.op /\ settled[registryAt.op] = "open"
    BY <1>0, <1>1, <1>2 DEF DoubtSound
  <2> QED BY <1>0, <1>1, <1>6, <2>1 DEF DoubtSound, Registry!None, Registry!Operations
<1>12. AnswerSound'
  <2>1. settled[registryAt.op] = "open"
    BY <1>0, <1>2 DEF DoubtSound
  <2>2. ASSUME NEW o \in Registry!Operations, settled[o] = "refused", posts'[o] = 1
        PROVE  NeverActs(o)'
    <3>1. o # registryAt.op /\ posts[o] = 1 /\ NeverActs(o)
      BY <1>0, <1>6, <2>1, <2>2 DEF AnswerSound
    <3> QED BY <1>1, <1>4, <3>1 DEF NeverActs
  <2> QED BY <1>0, <1>1, <2>2 DEF AnswerSound, Ended, Registry!NoReceipt, Registry!Operations
<1> QED BY <1>7, <1>9, <1>10, <1>11, <1>12 DEF RegistryInv

\* The registry takes a request, and keeps its receipt.
LEMMA RegistryHandleStep ==
    ASSUME Registry!OperatorAssumption, RegistryInv, NEW post \in registryFlight,
           Registry!Handle(post)
    PROVE  RegistryInv'
<1> DEFINE r == post.request
<1> USE DEF Registry!command, Registry!local
<1>0. RegistryTyped /\ LiveSound /\ ReceiptsSound /\ PostsSound /\ DoubtSound /\ AnswerSound
  BY DEF RegistryInv
<1>1. /\ r \in Live /\ r.op \in Registry!Operations /\ r.op \in 1..prepared /\ r.on = day
      /\ r.gen \in Nat
  BY <1>0, LiveParts, LiveRequests DEF LiveSound
<1>2. /\ UNCHANGED <<day, posts, registryPc, registryAt, receipt, checkpoint, alias, prepared,
                     settled, unaliased>>
      /\ registryFlight' = registryFlight \ {post}
      /\ Live' \subseteq Live /\ OnItsWay' \subseteq OnItsWay
  <2>1. /\ UNCHANGED <<day, posts, registryPc, registryAt, receipt, checkpoint, alias, prepared,
                       settled, unaliased>>
        /\ registryFlight' = registryFlight \ {post}
    BY DEF Registry!Handle, Registry!Reply
  <2> QED BY <2>1, NothingSent
<1>3. registryReply' # registryReply =>
        registryPc = "sent" /\ registryAt = r /\ posts[registryAt.op] = post.nth
  BY DEF Registry!Handle, Registry!Reply
\* Of what was sent once nothing else is on its way.
<1>4. posts[r.op] = 1 => \A other \in registryFlight' : other.request.op # r.op
  <2> SUFFICES ASSUME posts[r.op] = 1, NEW other \in registryFlight', other.request.op = r.op
               PROVE  FALSE
    OBVIOUS
  <2>1. other \in registryFlight /\ other # post /\ other.request \in Live
    BY <1>2, LiveParts
  <2>2. other.request = r
    BY <1>0, <1>1, <2>1 DEF LiveSound
  <2>3. post.nth \in 1..1 /\ other.nth \in 1..1
    BY <1>0, <2>1, <2>2 DEF PostsSound
  <2>4. post.nth = other.nth
    BY <2>3
  <2> QED BY <1>0, <2>1, <2>2, <2>4 DEF PostsSound
<1>5. posts[r.op] \in Nat \ {0}
  BY <1>0, <1>1 DEF PostsSound, RegistryTyped
<1>6. CASE /\ UNCHANGED Registry!registry
           /\ \/ Registry!Kept(r.op) /\ Registry!Reply(post, "receipt")
              \/ Registry!Reply(post, "refused")
  <2>1. UNCHANGED <<registryRow, receipts, registryEffects>>
    BY <1>6 DEF Registry!registry
  <2>2. DoubtSound'
    BY <1>0, <1>2, <2>1 DEF DoubtSound, Registry!None, Registry!Operations
  <2>3. registryReply' = "receipt" /\ registryReply' # registryReply =>
          receipts[r.op] # Registry!NoReceipt
    BY <1>6 DEF Registry!Reply, Registry!Kept
  <2>4. posts[r.op] = 1 => NeverActs(r.op)'
    BY <1>0, <1>4, <2>1 DEF PostsSound, NeverActs
  <2>5. \A o \in Registry!Operations : NeverActs(o) => NeverActs(o)'
    BY <1>2, <2>1 DEF NeverActs
  <2>6. registryPc = "sent" /\ registryReply' = "refused" /\ posts[registryAt.op] = 1 =>
          NeverActs(registryAt.op)'
    BY <1>0, <1>2, <1>3, <2>1, <2>4 DEF AnswerSound, NeverActs
  <2>7. AnswerSound'
    BY <1>0, <1>2, <1>3, <2>1, <2>3, <2>5, <2>6 DEF AnswerSound, Registry!NoReceipt, Ended
  <2> QED BY <1>0, <1>2, <2>1, <2>2, <2>7, QuietRegistry DEF RegistryTyped, LiveSound
<1>7. CASE /\ ~Registry!Kept(r.op) /\ Registry!Fits(r)
           /\ registryRow' = Registry!After(r)
           /\ receipts' = [receipts EXCEPT ![r.op] =
                              [gen |-> registryRow'.gen, state |-> registryRow'.state, on |-> day]]
           /\ registryEffects' = [registryEffects EXCEPT ![r.op] = @ + 1]
           /\ Registry!Reply(post, "receipt")
  <2> DEFINE new == [gen |-> registryRow'.gen, state |-> registryRow'.state, on |-> day]
  <2>1. /\ registryRow \in [gen : Nat, state : {"active", "revoked", "absent"}] /\ day \in Nat
        /\ registryRow' \in [gen : Nat, state : {"active", "revoked"}]
        /\ registryRow' = registryRow \/ registryRow'.gen = registryRow.gen + 1
    <3>1. registryRow \in [gen : Nat, state : {"active", "revoked", "absent"}] /\ day \in Nat
      BY <1>0 DEF RegistryTyped
    <3>2. \/ registryRow' = Registry!NewRow("active")
          \/ registryRow' = registryRow /\ registryRow.state # "absent"
          \/ registryRow' = Registry!NewRow("revoked")
      BY <1>7 DEF Registry!After
    <3> QED BY <3>1, <3>2 DEF Registry!NewRow
  <2>2. registryRow' \in [gen : Nat, state : {"active", "revoked", "absent"}]
    BY <2>1
  <2>3. /\ new \in [gen : Nat, state : {"active", "revoked", "none"}, on : Nat]
        /\ new # Registry!NoReceipt /\ new.on = day
    BY <2>1 DEF Registry!NoReceipt
  <2>4. receipts[r.op] = Registry!NoReceipt /\ registryEffects[r.op] = 0
    BY <1>0, <1>1, <1>7 DEF Registry!Kept, ReceiptsSound
  <2>5. /\ receipts' = [receipts EXCEPT ![r.op] = new]
        /\ registryEffects' = [registryEffects EXCEPT ![r.op] = 1]
    BY <1>7, <2>4
  <2> HIDE DEF new
  <2>6. RegistryTyped'
    BY <1>0, <1>2, <2>2, <2>3, <2>5 DEF RegistryTyped, Registry!Operations
  <2>7. \A s \in Live : Ended(s.gen) => Ended(s.gen)'
    BY <2>1, LiveRequests, StaysEnded
  <2>8. r.kind = "remove" => Ended(r.gen)'
    <3>1. CASE r.kind = "remove"
      <4>1. registryRow.gen = r.gen /\ registryRow'.state = "revoked"
        BY <1>7, <3>1 DEF Registry!Fits, Registry!After, Registry!NewRow
      <4> QED BY <2>1, <4>1 DEF Ended
    <3> QED BY <3>1
  <2>9. LiveSound'
    <3>1. Request' = Request
      BY <1>2 DEF Request, Registry!Kinds
    <3> QED BY <1>0, <1>2, <3>1 DEF LiveSound, Registry!None
  <2>10. \A o \in Registry!Operations :
           receipts'[o] = (IF o = r.op THEN new ELSE receipts[o])
           /\ registryEffects'[o] = (IF o = r.op THEN 1 ELSE registryEffects[o])
    BY <1>0, <1>1, <2>5 DEF RegistryTyped
  <2>11. ReceiptsSound'
    <3>1. (\A o \in Registry!Operations :
             registryEffects[o] = 0 <=> receipts[o] = Registry!NoReceipt)'
      BY <1>0, <2>3, <2>10 DEF ReceiptsSound, Registry!Operations, Registry!NoReceipt
    <3>2. (\A o \in Registry!Operations : receipts[o] # Registry!NoReceipt => o <= prepared)'
      <4>1. r.op <= prepared
        BY <1>0, <1>1 DEF RegistryTyped
      <4> QED BY <1>0, <1>2, <2>10, <4>1 DEF ReceiptsSound, Registry!Operations,
                 Registry!NoReceipt
    <3>3. ASSUME NEW s \in Live', receipts'[s.op] # Registry!NoReceipt
          PROVE  receipts'[s.op].on = s.on /\ (s.kind = "remove" => Ended(s.gen)')
      <4>1. s \in Live /\ s.op \in Registry!Operations
        BY <1>2, LiveRequests
      <4>2. CASE s.op = r.op
        <5>1. s = r
          BY <1>0, <1>1, <4>1, <4>2 DEF LiveSound
        <5> QED BY <1>1, <2>3, <2>8, <2>10, <5>1
      <4>3. CASE s.op # r.op
        <5>1. receipts'[s.op] = receipts[s.op]
          BY <2>10, <4>1, <4>3
        <5>2. receipts[s.op].on = s.on /\ (s.kind = "remove" => Ended(s.gen))
          BY <1>0, <3>3, <4>1, <5>1 DEF ReceiptsSound
        <5> QED BY <2>7, <4>1, <5>1, <5>2
      <4> QED BY <4>2, <4>3
    <3> QED BY <3>1, <3>2, <3>3 DEF ReceiptsSound, Registry!NoReceipt, Ended
  <2>12. PostsSound'
    <3>1. ASSUME NEW other \in registryFlight'
          PROVE  /\ other = [request |-> other.request, nth |-> other.nth]
                 /\ other.nth \in 1..posts[other.request.op]
                 /\ posts[other.request.op] = 1 => registryEffects'[other.request.op] = 0
      <4>1. other \in registryFlight /\ other.request.op \in Registry!Operations
        BY <1>2, <3>1, LiveParts, LiveRequests
      <4> QED BY <1>0, <1>4, <2>10, <3>1, <4>1 DEF PostsSound
    <3>2. \A o \in Registry!Operations : registryEffects'[o] > 0 => posts[o] > 0
      BY <1>0, <1>5, <2>10 DEF PostsSound
    <3> QED BY <1>2, <3>1, <3>2 DEF PostsSound, Registry!Operations
  <2>13. DoubtSound'
    BY <1>0, <1>2 DEF DoubtSound, Registry!None, Registry!Operations
  <2>14. AnswerSound'
    <3>1. \A g \in unaliased : Ended(g)'
      BY <1>0, <2>1, StaysEnded DEF AnswerSound, RegistryTyped
    <3>2. registryPc # "idle" => registryAt \in Live /\ registryAt.op \in Registry!Operations
      BY <1>0, LiveParts, LiveRequests DEF DoubtSound
    <3>3. registryPc # "idle" /\ receipts[registryAt.op] # Registry!NoReceipt
            => receipts'[registryAt.op] # Registry!NoReceipt
      BY <2>3, <2>10, <3>2
    <3>4. registryPc # "idle" /\ registryAt.op = r.op => receipts'[registryAt.op] # Registry!NoReceipt
      BY <2>3, <2>10, <3>2
    <3>5. registryReply' # registryReply => registryReply' # "refused"
      BY <1>7 DEF Registry!Reply
    <3>6. \A o \in Registry!Operations : NeverActs(o) => NeverActs(o)'
      BY <1>2, <2>10 DEF NeverActs
    <3>7. \A o \in Registry!Operations : registryEffects[o] > 0 => registryEffects'[o] > 0
      BY <2>10
    <3> QED BY <1>0, <1>2, <1>3, <3>1, <3>2, <3>3, <3>4, <3>5, <3>6, <3>7
            DEF AnswerSound, Ended, Registry!NoReceipt, Registry!Operations
  <2> QED BY <2>6, <2>9, <2>11, <2>12, <2>13, <2>14 DEF RegistryInv
<1> QED BY <1>6, <1>7 DEF Registry!Handle

\* Somebody else changes the row.
LEMMA RegistryOthersStep ==
    ASSUME Registry!OperatorAssumption, RegistryInv, Registry!Others
    PROVE  RegistryInv'
<1>0. RegistryTyped /\ LiveSound /\ ReceiptsSound /\ PostsSound /\ DoubtSound /\ AnswerSound
  BY DEF RegistryInv
<1>1. /\ UNCHANGED <<receipts, registryEffects, day, registryFlight, posts, registryReply,
                     registryPc, registryAt, receipt, checkpoint, alias, prepared, settled, unaliased>>
      /\ registryRow' \in {Registry!NewRow("active"), Registry!NewRow("revoked")}
  BY DEF Registry!Others, Registry!command, Registry!local, Registry!network
<1>2. RegistryTyped'
  BY <1>0, <1>1 DEF RegistryTyped, Registry!NewRow, Registry!Operations
<1>3. Live' = Live /\ OnItsWay' = OnItsWay /\ Request' = Request
  BY <1>1 DEF Live, OnItsWay, Registry!None, Request, Registry!Kinds
<1>4. LiveSound' /\ PostsSound' /\ DoubtSound'
  BY <1>0, <1>1, <1>3 DEF LiveSound, PostsSound, DoubtSound, Registry!None, Registry!Operations
<1>5. \A g \in Nat : Ended(g) => Ended(g)'
  BY <1>1, StaysEnded DEF Registry!NewRow
<1>6. ReceiptsSound'
  <2>1. \A r \in Live : r.gen \in Nat
    BY LiveRequests
  <2> QED BY <1>0, <1>1, <1>3, <1>5, <2>1 DEF ReceiptsSound, Registry!NoReceipt,
             Registry!Operations
<1>7. AnswerSound'
  BY <1>0, <1>1, <1>5 DEF AnswerSound, NeverActs, Registry!NoReceipt, RegistryTyped,
     Registry!Operations
<1> QED BY <1>2, <1>4, <1>6, <1>7 DEF RegistryInv

\* A day passes: what was on its way is dropped, old receipts too.
LEMMA RegistryNextDayStep ==
    ASSUME Registry!OperatorAssumption, RegistryInv, Registry!NextDay
    PROVE  RegistryInv'
<1>0. RegistryTyped /\ LiveSound /\ ReceiptsSound /\ PostsSound /\ DoubtSound /\ AnswerSound
  BY DEF RegistryInv
<1>1. /\ UNCHANGED <<registryRow, receipts, registryEffects, registryFlight, posts, registryReply,
                     registryPc, registryAt, receipt, checkpoint, alias, prepared, settled, unaliased>>
      /\ day' = day + 1 /\ registryFlight = {} /\ registryPc = "idle"
  BY DEF Registry!NextDay, Registry!registry, Registry!command, Registry!local,
     Registry!network
<1>2. RegistryTyped'
  BY <1>0, <1>1 DEF RegistryTyped, Registry!Operations
<1>3. /\ Live' = Live /\ OnItsWay' = {} /\ Request' = Request
      /\ registryAt = Registry!None
  BY <1>0, <1>1 DEF Live, OnItsWay, Registry!None, Request, Registry!Kinds, DoubtSound
<1>4. LiveSound'
  BY <1>0, <1>1, <1>3 DEF LiveSound, Registry!None
<1>5. ReceiptsSound' /\ PostsSound' /\ DoubtSound' /\ AnswerSound'
  BY <1>0, <1>1, <1>3 DEF ReceiptsSound, PostsSound, DoubtSound, AnswerSound, NeverActs,
     Registry!NoReceipt, Ended,
     Registry!None, Registry!Operations
<1> QED BY <1>2, <1>4, <1>5 DEF RegistryInv

\* Every step of the operator keeps the invariant.
LEMMA RegistryStep ==
    ASSUME Registry!OperatorAssumption, RegistryInv, [Registry!Next]_RegistryVars
    PROVE  RegistryInv'
<1>1. CASE UNCHANGED RegistryVars
  <2>1. DoubtSound' /\ AnswerSound'
    BY <1>1 DEF RegistryInv, RegistryVars, DoubtSound, AnswerSound, NeverActs, Registry!None,
       Registry!NoReceipt, Registry!Operations, Ended
  <2> QED BY <1>1, <2>1, QuietRegistry
             DEF RegistryVars, RegistryInv, RegistryTyped, LiveSound
<1>2. ASSUME NEW post \in registryFlight, Registry!Lose(post) PROVE RegistryInv'
  <2>1. /\ UNCHANGED <<registryRow, receipts, registryEffects, day, posts, registryReply,
                       registryPc, registryAt, receipt, checkpoint, alias, prepared, settled,
                       unaliased>>
        /\ registryFlight' \subseteq registryFlight
    BY <1>2 DEF Registry!Lose, Registry!registry, Registry!command, Registry!local
  <2>2. DoubtSound' /\ AnswerSound'
    BY <2>1 DEF RegistryInv, DoubtSound, AnswerSound, NeverActs, Registry!None,
       Registry!NoReceipt, Registry!Operations, Ended
  <2> QED BY <2>1, <2>2, QuietRegistry DEF RegistryInv, RegistryTyped, LiveSound
<1>3. CASE \E kind \in Registry!Kinds : Registry!Prepare(kind)
  BY <1>3, RegistryPrepareStep
<1>4. CASE Registry!Others \/ Registry!NextDay
  BY <1>4, RegistryOthersStep, RegistryNextDayStep
<1>5. ASSUME NEW post \in registryFlight, Registry!Handle(post) PROVE RegistryInv'
  BY <1>5, RegistryHandleStep
<1> QED BY <1>1, <1>2, <1>3, <1>4, <1>5, RegistryCommandStep, RegistrySendStep
        DEF Registry!Next

\* However often the operator resumes, an operation takes effect at most once; one
\* that was sent stays in the checkpoint until it is settled; one reported done took
\* effect, and one refused that was sent once did not and will not; an alias is
\* removed only from a device whose access ended (cli/device_registry.py).
LEMMA OperatorSafe ==
    ASSUME Registry!OperatorAssumption
    PROVE  Registry!Spec => []Registry!SafeRecovery
<1>1. Registry!Init => RegistryInv
  BY RegistryInit
<1>2. RegistryInv /\ [Registry!Next]_Registry!vars => RegistryInv'
  <2>1. UNCHANGED Registry!vars => UNCHANGED RegistryVars
    BY DEF Registry!vars, RegistryVars, Registry!registry, Registry!command, Registry!local,
       Registry!network
  <2> QED BY <2>1, RegistryStep
<1>3. RegistryInv => Registry!SafeRecovery
  <2> SUFFICES ASSUME RegistryInv PROVE Registry!SafeRecovery
    OBVIOUS
  <2>1. Registry!EffectOnce
    BY DEF RegistryInv, RegistryTyped, Registry!EffectOnce
  <2>2. Registry!InDoubtKept
    BY DEF RegistryInv, DoubtSound, Registry!InDoubtKept
  <2>3. Registry!HonestRefusal
    BY DEF RegistryInv, AnswerSound, NeverActs, Registry!HonestRefusal
  <2>4. Registry!RemovedMeansRevoked
    BY DEF RegistryInv, RegistryTyped, AnswerSound, Ended, Registry!RemovedMeansRevoked
  <2> QED BY <2>1, <2>2, <2>3, <2>4 DEF Registry!SafeRecovery
<1> QED BY <1>1, <1>2, <1>3, PTL DEF Registry!Spec

-----------------------------------------------------------------------------
(* The torrent catalogue (cli/torrent_catalog.py): a command reads it,     *)
(* plans its content, uploads the document and commits it; a player may    *)
(* take any of these late, and others write too.                           *)

WriteOps == {"write_begin", "write_chunk", "write_commit"}
LoadingStates == {"pending", "ready", "failed", "cancelled"}
ReadingPhases == {"discover", "operate", "read", "fetch", "fetched", "known", "metadata",
                  "status", "contents", "loaded", "planned"}
WritingPhases == {"begin", "upload", "commit", "readback"}

\* What each phase asks.
PhaseAsks ==
    {<<"discover", "capabilities">>, <<"operate", "status">>, <<"operate", "cancel">>,
     <<"read", "read">>, <<"fetch", "read_chunk">>, <<"known", "status">>,
     <<"metadata", "metadata">>, <<"status", "status">>, <<"contents", "read_chunk">>,
     <<"begin", "write_begin">>, <<"upload", "write_chunk">>, <<"commit", "write_commit">>,
     <<"readback", "read_chunk">>, <<"play", "play">>}

CatalogTyped ==
    /\ catalog.rev \in Nat /\ before.rev \in Nat
    /\ uploads = [state |-> uploads.state, next |-> uploads.next, rev |-> uploads.rev,
                  mode |-> uploads.mode, doc |-> uploads.doc]
    /\ uploads.state \in {"none", "uploading", "committed", "failed", "cancelled", "forgotten"}
    /\ loading \in LoadingStates \cup {"none"}
    /\ phase \in ReadingPhases \cup WritingPhases \cup {"play", "favorites", "done"}
    /\ torrentsAsked \in BOOLEAN /\ played \in BOOLEAN /\ merged \in BOOLEAN

\* A catalogue that was read holds what the player held at its revision.
WasRead(read) ==
    /\ read.rev \in Nat /\ read.rev <= catalog.rev
    /\ read.rev = catalog.rev => read.doc = catalog.doc

\* There is one request or answer at most, and it belongs to the phase.
OneExchange ==
    /\ torrentsNetwork.op = "none" \/ torrentsAnswer.op = "none"
    /\ phase # "done" =>
         \A op \in {torrentsNetwork.op, torrentsAnswer.op} :
           op # "none" => torrentsAsked /\ <<phase, op>> \in PhaseAsks
    /\ phase = "operate" => torrentsCommand.op \in {"status", "cancel"}

\* What is on its way, or held by the player, is the plan.
Underway ==
    \/ phase \in WritingPhases \cup {"planned"}
    \/ torrentsNetwork.op \in WriteOps
    \/ uploads.state # "none"
Document == Torrents!Incoming(before.doc)
PlannedContent == Torrents!Merge(before.doc, Document, torrentsCommand.mode)
ExactlyPlanned ==
    /\ Underway => final = PlannedContent
    /\ torrentsNetwork.op = "write_begin" =>
         torrentsNetwork.body = [rev |-> before.rev, mode |-> torrentsCommand.mode,
                                 doc |-> Document]
    /\ uploads.state = "uploading" =>
         /\ uploads.rev = before.rev /\ uploads.mode = torrentsCommand.mode
         /\ uploads.doc = Document

\* The catalogue was changed at most once, and an answer tells the truth.
AppliedOnce ==
    /\ \/ torrentsApplied = {}
       \/ torrentsApplied = {[rev |-> before.rev, was |-> before.doc, now |-> final]}
    /\ uploads.state \in {"none", "uploading", "failed", "cancelled"} => torrentsApplied = {}
    /\ uploads.state = "committed" => torrentsApplied # {}
CatalogAnswers ==
    torrentsAnswer.op # "none" /\ torrentsAnswer.is = "ok" =>
      /\ torrentsAnswer.op = "read" => WasRead(torrentsAnswer.body)
      /\ torrentsAnswer.op \in {"status", "cancel"} => torrentsAnswer.body \in LoadingStates
      /\ torrentsAnswer.op = "write_commit" =>
           /\ torrentsAnswer.body.state = "committed" => torrentsApplied # {}
           /\ torrentsAnswer.body.state \in {"failed", "cancelled"} =>
                torrentsApplied = {} /\ uploads.state # "uploading"
      /\ torrentsAnswer.op = "play" => played

\* What a phase has sent, with its record on disk and its effect in doubt.
SentByPhase ==
    /\ phase \in ReadingPhases => uploads.state = "none" /\ ~played
    /\ phase \in WritingPhases => "write" \in durable /\ uncertain = "write" /\ ~played
    /\ phase = "play" => "play" \in durable /\ uncertain = "play" /\ uploads.state = "none"
    /\ phase = "readback" => torrentsApplied # {}
    /\ phase = "favorites" => torrentsApplied # {} \/ final = before.doc
    /\ torrentsNetwork.op \in WriteOps \/ uploads.state # "none" => "write" \in durable
    /\ torrentsNetwork.op = "play" \/ played => "play" \in durable

\* What the command reports.
NothingDone ==
    /\ torrentsApplied = {} /\ ~played
    /\ torrentsNetwork.op \notin WriteOps \cup {"play"}
CatalogReported ==
    /\ phase # "done" => torrentsOutcome = "none"
    /\ torrentsOutcome \in LoadingStates \cup {"unchanged", "planned"} => NothingDone
    /\ torrentsOutcome = "unchanged" => final = before.doc
    /\ torrentsOutcome = "committed" =>
         (torrentsApplied # {} \/ final = before.doc) /\ (torrentsCommand.with => merged)
    /\ torrentsOutcome = "partial" => torrentsApplied # {} \/ final = before.doc
    /\ torrentsOutcome = "accepted" => played

CatalogInv ==
    /\ CatalogTyped
    /\ WasRead(before)
    /\ OneExchange
    /\ ExactlyPlanned
    /\ AppliedOnce
    /\ CatalogAnswers
    /\ SentByPhase
    /\ CatalogReported

\* A plan that is left alone.
LEMMA SamePlan ==
    ASSUME UNCHANGED <<torrentsCommand, before>>
    PROVE  Document' = Document /\ PlannedContent' = PlannedContent
BY DEF Document, PlannedContent, Torrents!Incoming, Torrents!Merge

\* A command begins with nothing sent.
LEMMA CatalogInit ==
    ASSUME Torrents!Init
    PROVE  CatalogInv
<1>1. /\ phase = "discover" /\ torrentsAsked = FALSE /\ played = FALSE /\ merged = FALSE
      /\ torrentsNetwork.op = "none" /\ torrentsAnswer.op = "none"
      /\ uploads = Torrents!NoUpload /\ torrentsApplied = {} /\ torrentsOutcome = "none"
      /\ loading \in LoadingStates \cup {"none"}
      /\ catalog.rev = 1 /\ before.rev = 0
  BY DEF Torrents!Init, Torrents!None, LoadingStates
<1>2. uploads.state = "none"
  BY <1>1 DEF Torrents!NoUpload
<1>3. uploads = [state |-> uploads.state, next |-> uploads.next, rev |-> uploads.rev,
                 mode |-> uploads.mode, doc |-> uploads.doc]
  BY <1>1 DEF Torrents!NoUpload
<1>7. CatalogTyped
  <2>1. catalog.rev \in Nat /\ before.rev \in Nat
    BY <1>1
  <2>2. phase \in ReadingPhases
    BY <1>1 DEF ReadingPhases
  <2> QED BY <1>1, <1>2, <1>3, <2>1, <2>2 DEF CatalogTyped
<1>4. WasRead(before) /\ OneExchange /\ CatalogAnswers
  BY <1>1 DEF WasRead, OneExchange, CatalogAnswers
<1>5. ExactlyPlanned
  BY <1>1, <1>2 DEF ExactlyPlanned, Underway, WritingPhases, WriteOps
<1>6. AppliedOnce /\ SentByPhase /\ CatalogReported
  BY <1>1, <1>2 DEF AppliedOnce, SentByPhase, CatalogReported, LoadingStates, WritingPhases,
     WriteOps
<1> QED BY <1>4, <1>5, <1>6, <1>7 DEF CatalogInv

\* A phase sends what it asks.
LEMMA CatalogAsks ==
    ASSUME CatalogInv, NEW op, NEW body, Torrents!Ask(op, body), ~torrentsAsked, phase # "done",
           <<phase, op>> \in PhaseAsks,
           op = "write_begin" => body = [rev |-> before.rev, mode |-> torrentsCommand.mode,
                                         doc |-> Document]
    PROVE  CatalogInv'
<1>1. /\ torrentsNetwork'.op = op /\ torrentsNetwork'.body = body /\ torrentsAsked' = TRUE
      /\ UNCHANGED <<catalog, uploads, loading, torrentsApplied, played, merged, torrentsAnswer,
                     torrentsCommand, phase, before, final, durable, uncertain, torrentsOutcome>>
  BY DEF Torrents!Ask, Torrents!player, Torrents!plan
<1>2. torrentsAnswer.op = "none"
  BY DEF CatalogInv, OneExchange
<1>3. torrentsOutcome = "none"
  BY DEF CatalogInv, CatalogReported
<1>4. Document' = Document /\ PlannedContent' = PlannedContent
  BY <1>1, SamePlan
<1>5. /\ op \in WriteOps => phase \in WritingPhases
      /\ op = "play" => phase = "play"
      /\ op # "none"
  BY DEF PhaseAsks, WriteOps, WritingPhases
<1>6. CatalogTyped' /\ WasRead(before)'
  BY <1>1 DEF CatalogInv, CatalogTyped, WasRead
<1>7. OneExchange'
  BY <1>1, <1>2 DEF CatalogInv, OneExchange
<1>8. ExactlyPlanned'
  BY <1>1, <1>4, <1>5 DEF CatalogInv, ExactlyPlanned, Underway
<1>9. AppliedOnce' /\ CatalogAnswers'
  BY <1>1, <1>2 DEF CatalogInv, AppliedOnce, CatalogAnswers
<1>10. SentByPhase'
  BY <1>1, <1>5 DEF CatalogInv, SentByPhase
<1>11. CatalogReported'
  BY <1>1, <1>3 DEF CatalogInv, CatalogReported, LoadingStates
<1> QED BY <1>6, <1>7, <1>8, <1>9, <1>10, <1>11 DEF CatalogInv

\* A command that ends leaves everything where it is.
LEMMA CatalogEnds ==
    ASSUME CatalogInv, phase' = "done", torrentsAsked' = FALSE,
           UNCHANGED <<catalog, uploads, loading, torrentsApplied, played, merged,
                       torrentsNetwork, torrentsCommand, before, final, durable>>,
           torrentsAnswer' \in {torrentsAnswer, Torrents!None},
           torrentsOutcome' \in LoadingStates \cup {"unchanged", "planned"} => NothingDone,
           torrentsOutcome' = "unchanged" => final = before.doc,
           torrentsOutcome' = "committed" =>
             (torrentsApplied # {} \/ final = before.doc) /\ (torrentsCommand.with => merged),
           torrentsOutcome' = "partial" => torrentsApplied # {} \/ final = before.doc,
           torrentsOutcome' = "accepted" => played
    PROVE  CatalogInv'
<1>1. Document' = Document /\ PlannedContent' = PlannedContent
  BY SamePlan
<1>2. CatalogTyped' /\ WasRead(before)'
  BY DEF CatalogInv, CatalogTyped, WasRead
<1>3. OneExchange' /\ CatalogAnswers'
  BY DEF CatalogInv, OneExchange, CatalogAnswers, WasRead, Torrents!None
<1>4. ExactlyPlanned'
  BY <1>1 DEF CatalogInv, ExactlyPlanned, Underway, WritingPhases
<1>5. AppliedOnce'
  BY DEF CatalogInv, AppliedOnce
<1>6. SentByPhase'
  BY DEF CatalogInv, SentByPhase, ReadingPhases, WritingPhases
<1>7. CatalogReported'
  BY DEF CatalogReported, NothingDone
<1> QED BY <1>2, <1>3, <1>4, <1>5, <1>6, <1>7 DEF CatalogInv

\* A phase before any write or play has done nothing.
LEMMA ReadingDoesNothing ==
    ASSUME CatalogInv, phase \in ReadingPhases
    PROVE  NothingDone /\ uploads.state = "none" /\ torrentsOutcome = "none"
<1>1. phase # "done" /\ \A op \in WriteOps \cup {"play"} : <<phase, op>> \notin PhaseAsks
  BY DEF ReadingPhases, WriteOps, PhaseAsks
<1>2. torrentsNetwork.op \notin WriteOps \cup {"play"}
  BY <1>1 DEF CatalogInv, OneExchange, WriteOps
<1>3. uploads.state = "none" /\ ~played /\ torrentsApplied = {} /\ torrentsOutcome = "none"
  BY <1>1 DEF CatalogInv, SentByPhase, AppliedOnce, CatalogReported
<1> QED BY <1>2, <1>3 DEF NothingDone

\* An answer that is accepted leaves nothing on its way.
LEMMA AnswerAccepted ==
    ASSUME CatalogInv, NEW p, Torrents!Answered(p), p # "done"
    PROVE  /\ phase = p /\ torrentsAsked /\ torrentsNetwork.op = "none"
           /\ torrentsAnswer.is = "ok" /\ torrentsAnswer.op # "none"
           /\ <<p, torrentsAnswer.op>> \in PhaseAsks
           /\ torrentsOutcome = "none"
BY DEF CatalogInv, OneExchange, CatalogReported, Torrents!Answered

\* From one phase before any write to another.
LEMMA CatalogReads ==
    ASSUME CatalogInv, phase \in ReadingPhases, phase' \in ReadingPhases \ {"planned"},
           torrentsAsked' = FALSE, torrentsAnswer'.op = "none", torrentsNetwork.op = "none",
           UNCHANGED <<catalog, uploads, loading, torrentsApplied, played, merged,
                       torrentsNetwork, torrentsCommand, final, torrentsOutcome>>,
           WasRead(before)',
           durable \subseteq durable',
           phase' = "operate" => torrentsCommand.op \in {"status", "cancel"}
    PROVE  CatalogInv'
<1>1. NothingDone /\ uploads.state = "none" /\ torrentsOutcome = "none"
  BY ReadingDoesNothing
<1>2. phase' \notin WritingPhases \cup {"planned", "play", "favorites", "done"}
  BY DEF ReadingPhases, WritingPhases
<1>3. CatalogTyped'
  BY DEF CatalogInv, CatalogTyped, WasRead
<1>4. OneExchange' /\ CatalogAnswers'
  BY DEF OneExchange, CatalogAnswers
<1>5. ExactlyPlanned'
  BY <1>1, <1>2 DEF ExactlyPlanned, Underway, WriteOps
<1>6. AppliedOnce'
  BY <1>1 DEF AppliedOnce, NothingDone
<1>7. SentByPhase'
  BY <1>1, <1>2 DEF SentByPhase, NothingDone, WriteOps, WritingPhases
<1>8. CatalogReported'
  BY <1>1 DEF CatalogReported, LoadingStates
<1> QED BY <1>3, <1>4, <1>5, <1>6, <1>7, <1>8 DEF CatalogInv

\* The requests of the command.
LEMMA CatalogRequestSteps ==
    ASSUME CatalogInv,
           \/ Torrents!Discover \/ Torrents!Operate \/ Torrents!Read \/ Torrents!Fetch
           \/ Torrents!Metadata \/ Torrents!Status \/ Torrents!Contents \/ Torrents!Begin
           \/ Torrents!Upload \/ Torrents!Commit \/ Torrents!ReadBack \/ Torrents!Play
    PROVE  CatalogInv'
<1>1. ASSUME NEW op, NEW body, Torrents!Ask(op, body), ~torrentsAsked,
             <<phase, op>> \in PhaseAsks, phase # "done", op # "write_begin"
      PROVE  CatalogInv'
  BY <1>1, CatalogAsks
<1>2. CASE Torrents!Discover
  <2>1. phase = "discover" /\ ~torrentsAsked /\ Torrents!Ask("capabilities", 0)
    BY <1>2 DEF Torrents!Discover, Torrents!Open
  <2> QED BY <2>1, <1>1 DEF PhaseAsks
<1>3. CASE Torrents!Operate
  <2>1. phase = "operate" /\ ~torrentsAsked /\ Torrents!Ask(torrentsCommand.op, 0)
    BY <1>3 DEF Torrents!Operate, Torrents!Open
  <2>2. torrentsCommand.op \in {"status", "cancel"}
    BY <2>1 DEF CatalogInv, OneExchange
  <2> QED BY <2>1, <2>2, <1>1 DEF PhaseAsks
<1>4. CASE Torrents!Read
  <2>1. phase = "read" /\ ~torrentsAsked /\ Torrents!Ask("read", 0)
    BY <1>4 DEF Torrents!Read, Torrents!Open
  <2> QED BY <2>1, <1>1 DEF PhaseAsks
<1>5. CASE Torrents!Fetch
  <2>1. phase = "fetch" /\ ~torrentsAsked /\ Torrents!Ask("read_chunk", before.doc)
    BY <1>5 DEF Torrents!Fetch, Torrents!Open
  <2> QED BY <2>1, <1>1 DEF PhaseAsks
<1>6. CASE Torrents!Metadata
  <2>1. phase = "metadata" /\ ~torrentsAsked /\ Torrents!Ask("metadata", 0)
    BY <1>6 DEF Torrents!Metadata, Torrents!Open
  <2> QED BY <2>1, <1>1 DEF PhaseAsks
<1>7. CASE Torrents!Status
  <2>1. phase \in {"known", "status"} /\ ~torrentsAsked /\ Torrents!Ask("status", 0)
    BY <1>7 DEF Torrents!Status, Torrents!Open
  <2> QED BY <2>1, <1>1 DEF PhaseAsks
<1>8. CASE Torrents!Contents
  <2>1. phase = "contents" /\ ~torrentsAsked /\ Torrents!Ask("read_chunk", <<>>)
    BY <1>8 DEF Torrents!Contents, Torrents!Open
  <2> QED BY <2>1, <1>1 DEF PhaseAsks
<1>9. CASE Torrents!Begin
  <2> DEFINE body == [rev |-> before.rev, mode |-> torrentsCommand.mode, doc |-> Document]
  <2>1. phase = "begin" /\ ~torrentsAsked /\ Torrents!Ask("write_begin", body)
    BY <1>9 DEF Torrents!Begin, Torrents!Open, Document
  <2>2. <<phase, "write_begin">> \in PhaseAsks /\ phase # "done"
    BY <2>1 DEF PhaseAsks
  <2> QED BY <2>1, <2>2, CatalogAsks
<1>10. CASE Torrents!Upload
  <2>1. phase = "upload" /\ ~torrentsAsked /\ Torrents!Ask("write_chunk", torrentsSent)
    BY <1>10 DEF Torrents!Upload, Torrents!Open
  <2> QED BY <2>1, <1>1 DEF PhaseAsks
<1>11. CASE Torrents!Commit
  <2>1. phase = "commit" /\ ~torrentsAsked /\ Torrents!Ask("write_commit", 0)
    BY <1>11 DEF Torrents!Commit, Torrents!Open
  <2> QED BY <2>1, <1>1 DEF PhaseAsks
<1>12. CASE Torrents!ReadBack
  <2>1. phase = "readback" /\ ~torrentsAsked /\ Torrents!Ask("read_chunk", written)
    BY <1>12 DEF Torrents!ReadBack, Torrents!Open
  <2> QED BY <2>1, <1>1 DEF PhaseAsks
<1>13. CASE Torrents!Play
  <2>1. phase = "play" /\ ~torrentsAsked /\ Torrents!Ask("play", before.rev)
    BY <1>13 DEF Torrents!Play, Torrents!Open
  <2> QED BY <2>1, <1>1 DEF PhaseAsks
<1> QED BY <1>2, <1>3, <1>4, <1>5, <1>6, <1>7, <1>8, <1>9, <1>10, <1>11, <1>12, <1>13

\* The answers and decisions before any write or play.
LEMMA CatalogReadingSteps ==
    ASSUME CatalogInv,
           \/ Torrents!Discovered \/ Torrents!HasRead \/ Torrents!Fetched
           \/ Torrents!RecordMetadata \/ Torrents!UseKnown \/ Torrents!Loaded
           \/ Torrents!Described
    PROVE  CatalogInv'
<1> USE DEF Torrents!Rest, Torrents!player, Torrents!plan, Torrents!Step, Torrents!None
<1>1. CASE Torrents!Discovered
  <2>1. phase = "discover" /\ torrentsNetwork.op = "none"
    BY <1>1, AnswerAccepted DEF Torrents!Discovered
  <2>2. WasRead(before)'
    BY <1>1 DEF Torrents!Discovered, CatalogInv, WasRead
  <2>3. /\ phase' \in {"operate", "fetched", "read"}
        /\ phase' = "operate" => torrentsCommand.op \in {"status", "cancel"}
    BY <1>1 DEF Torrents!Discovered
  <2> QED BY <1>1, <2>1, <2>2, <2>3, CatalogReads DEF Torrents!Discovered, ReadingPhases
<1>2. CASE Torrents!HasRead
  <2>1. phase = "read" /\ torrentsNetwork.op = "none" /\ torrentsAnswer.is = "ok"
        /\ <<"read", torrentsAnswer.op>> \in PhaseAsks /\ torrentsAnswer.op # "none"
    BY <1>2, AnswerAccepted DEF Torrents!HasRead
  <2>2. torrentsAnswer.op = "read"
    BY <2>1 DEF PhaseAsks
  <2>3. WasRead(torrentsAnswer.body)
    BY <2>1, <2>2 DEF CatalogInv, CatalogAnswers
  <2>4. WasRead(before)'
    BY <1>2, <2>3 DEF Torrents!HasRead, WasRead
  <2> QED BY <1>2, <2>1, <2>4, CatalogReads DEF Torrents!HasRead, ReadingPhases
<1>3. CASE Torrents!Fetched
  <2>1. phase = "fetch" /\ torrentsNetwork.op = "none"
    BY <1>3, AnswerAccepted DEF Torrents!Fetched
  <2>2. WasRead(before)'
    BY <1>3 DEF Torrents!Fetched, CatalogInv, WasRead
  <2> QED BY <1>3, <2>1, <2>2, CatalogReads DEF Torrents!Fetched, ReadingPhases
<1>4. CASE Torrents!RecordMetadata \/ Torrents!UseKnown
  <2>1. /\ phase = "fetched" /\ ~torrentsAsked /\ phase' \in {"metadata", "known"}
        /\ durable \subseteq durable'
        /\ UNCHANGED <<catalog, uploads, loading, torrentsApplied, played, merged, before,
                       torrentsNetwork, torrentsAnswer, torrentsCommand, torrentsAsked, final,
                       torrentsOutcome>>
    BY <1>4 DEF Torrents!RecordMetadata, Torrents!UseKnown, Torrents!Open, Torrents!Intent
  <2>2. torrentsNetwork.op = "none" /\ torrentsAnswer.op = "none"
    BY <2>1 DEF CatalogInv, OneExchange
  <2>3. WasRead(before)' /\ torrentsAsked' = FALSE
    BY <2>1 DEF CatalogInv, WasRead, CatalogTyped
  <2> QED BY <2>1, <2>2, <2>3, CatalogReads DEF ReadingPhases
<1>5. CASE Torrents!Loaded
  <2>1. phase \in {"metadata", "known", "status"} /\ torrentsNetwork.op = "none"
    BY <1>5, AnswerAccepted DEF Torrents!Loaded
  <2>2. WasRead(before)'
    BY <1>5 DEF Torrents!Loaded, CatalogInv, WasRead
  <2> QED BY <1>5, <2>1, <2>2, CatalogReads DEF Torrents!Loaded, ReadingPhases
<1>6. CASE Torrents!Described
  <2>1. phase = "contents" /\ torrentsNetwork.op = "none"
    BY <1>6, AnswerAccepted DEF Torrents!Described
  <2>2. WasRead(before)'
    BY <1>6 DEF Torrents!Described, CatalogInv, WasRead
  <2> QED BY <1>6, <2>1, <2>2, CatalogReads DEF Torrents!Described, ReadingPhases
<1> QED BY <1>1, <1>2, <1>3, <1>4, <1>5, <1>6

\* The content is planned from the catalogue that was read.
LEMMA CatalogPlanStep ==
    ASSUME CatalogInv, Torrents!Plan
    PROVE  CatalogInv'
<1>1. /\ phase \in {"fetched", "loaded"} /\ ~torrentsAsked /\ phase' = "planned"
      /\ final' = PlannedContent
      /\ UNCHANGED <<catalog, uploads, loading, torrentsApplied, played, merged, torrentsNetwork,
                     torrentsAnswer, torrentsCommand, torrentsAsked, before, durable, uncertain,
                     torrentsOutcome>>
  BY DEF Torrents!Plan, Torrents!player, PlannedContent, Document
<1>2. NothingDone /\ uploads.state = "none" /\ torrentsOutcome = "none"
  BY <1>1, ReadingDoesNothing DEF ReadingPhases
<1>3. torrentsNetwork.op = "none" /\ torrentsAnswer.op = "none"
  BY <1>1 DEF CatalogInv, OneExchange
<1>4. PlannedContent' = PlannedContent
  BY <1>1, SamePlan
<1>5. CatalogTyped' /\ WasRead(before)'
  BY <1>1 DEF CatalogInv, CatalogTyped, WasRead, ReadingPhases
<1>6. OneExchange' /\ CatalogAnswers'
  BY <1>1, <1>3 DEF OneExchange, CatalogAnswers
<1>7. ExactlyPlanned'
  BY <1>1, <1>2, <1>3, <1>4 DEF ExactlyPlanned
<1>8. AppliedOnce' /\ SentByPhase' /\ CatalogReported'
  BY <1>1, <1>2, <1>3 DEF AppliedOnce, SentByPhase, CatalogReported, NothingDone, LoadingStates,
     ReadingPhases, WritingPhases, WriteOps
<1> QED BY <1>5, <1>6, <1>7, <1>8 DEF CatalogInv

\* The record of a write or a play is made before its first request.
LEMMA CatalogRecordSteps ==
    ASSUME CatalogInv, Torrents!RecordWrite \/ Torrents!RecordPlay
    PROVE  CatalogInv'
<1>1. /\ phase \in {"planned", "fetched"} /\ ~torrentsAsked
      /\ UNCHANGED <<catalog, uploads, loading, torrentsApplied, played, merged, torrentsNetwork,
                     torrentsAnswer, torrentsCommand, torrentsAsked, before, final,
                     torrentsOutcome>>
      /\ \/ phase = "planned" /\ phase' = "begin" /\ uncertain' = "write" /\ "write" \in durable'
         \/ phase' = "play" /\ uncertain' = "play" /\ "play" \in durable'
  BY DEF Torrents!RecordWrite, Torrents!RecordPlay, Torrents!Open, Torrents!Intent,
     Torrents!player, Torrents!plan
<1>2. NothingDone /\ uploads.state = "none" /\ torrentsOutcome = "none"
  BY <1>1, ReadingDoesNothing DEF ReadingPhases
<1>3. torrentsNetwork.op = "none" /\ torrentsAnswer.op = "none"
  BY <1>1 DEF CatalogInv, OneExchange
<1>4. Document' = Document /\ PlannedContent' = PlannedContent
  BY <1>1, SamePlan
<1>5. CatalogTyped' /\ WasRead(before)'
  BY <1>1 DEF CatalogInv, CatalogTyped, WasRead, WritingPhases
<1>6. OneExchange' /\ CatalogAnswers'
  BY <1>1, <1>3 DEF OneExchange, CatalogAnswers
<1>7. ExactlyPlanned'
  BY <1>1, <1>2, <1>3, <1>4 DEF CatalogInv, ExactlyPlanned, Underway, WriteOps, WritingPhases
<1>8. AppliedOnce' /\ SentByPhase' /\ CatalogReported'
  BY <1>1, <1>2, <1>3 DEF AppliedOnce, SentByPhase, CatalogReported, NothingDone, LoadingStates,
     ReadingPhases, WritingPhases, WriteOps
<1> QED BY <1>5, <1>6, <1>7, <1>8 DEF CatalogInv

\* A write that goes on.
LEMMA CatalogWritingSteps ==
    ASSUME CatalogInv, Torrents!Begun \/ Torrents!Uploaded \/ Torrents!Committed
    PROVE  CatalogInv'
<1>1. /\ phase \in {"begin", "upload", "commit"} /\ phase' \in {"upload", "commit", "readback"}
      /\ torrentsAsked' = FALSE /\ torrentsAnswer'.op = "none" /\ torrentsNetwork.op = "none"
      /\ torrentsOutcome = "none"
      /\ UNCHANGED <<catalog, uploads, loading, torrentsApplied, played, merged, torrentsNetwork,
                     torrentsCommand, before, final, durable, uncertain, torrentsOutcome>>
  <2> USE DEF Torrents!Step, Torrents!Rest, Torrents!player, Torrents!None
  <2>1. CASE Torrents!Begun
    BY <2>1, AnswerAccepted DEF Torrents!Begun
  <2>2. CASE Torrents!Uploaded
    BY <2>2, AnswerAccepted DEF Torrents!Uploaded
  <2>3. CASE Torrents!Committed
    BY <2>3, AnswerAccepted DEF Torrents!Committed
  <2> QED BY <2>1, <2>2, <2>3
<1>2. phase' = "readback" => torrentsApplied # {}
  <2>1. SUFFICES ASSUME phase' = "readback"
                 PROVE  torrentsApplied # {}
    OBVIOUS
  <2>2. Torrents!Committed
    BY <2>1 DEF Torrents!Begun, Torrents!Uploaded, Torrents!Step
  <2>3. /\ torrentsAnswer.body.state = "committed" /\ torrentsAnswer.is = "ok"
        /\ <<"commit", torrentsAnswer.op>> \in PhaseAsks
    BY <2>2, AnswerAccepted DEF Torrents!Committed
  <2>4. torrentsAnswer.op = "write_commit"
    BY <2>3 DEF PhaseAsks
  <2> QED BY <2>3, <2>4 DEF CatalogInv, CatalogAnswers
<1>3. Document' = Document /\ PlannedContent' = PlannedContent
  BY <1>1, SamePlan
<1>4. /\ "write" \in durable /\ uncertain = "write" /\ ~played
      /\ final = PlannedContent
  BY <1>1 DEF CatalogInv, SentByPhase, ExactlyPlanned, Underway, WritingPhases
<1>5. CatalogTyped' /\ WasRead(before)'
  BY <1>1 DEF CatalogInv, CatalogTyped, WasRead, WritingPhases
<1>6. OneExchange' /\ CatalogAnswers'
  BY <1>1 DEF OneExchange, CatalogAnswers
<1>7. ExactlyPlanned'
  BY <1>1, <1>3, <1>4 DEF CatalogInv, ExactlyPlanned
<1>8. AppliedOnce'
  BY <1>1 DEF CatalogInv, AppliedOnce
<1>9. SentByPhase' /\ CatalogReported'
  BY <1>1, <1>2, <1>4 DEF SentByPhase, CatalogReported, LoadingStates, ReadingPhases,
     WritingPhases, WriteOps
<1> QED BY <1>5, <1>6, <1>7, <1>8, <1>9 DEF CatalogInv

\* The favorites follow, once the catalogue is what was planned.
LEMMA CatalogFavorites ==
    ASSUME CatalogInv, phase' = "favorites", torrentsAsked' = FALSE,
           torrentsAnswer'.op = "none", torrentsNetwork.op = "none", torrentsOutcome = "none",
           torrentsApplied # {} \/ final = before.doc,
           UNCHANGED <<catalog, uploads, loading, torrentsApplied, played, merged,
                       torrentsNetwork, torrentsCommand, before, final, durable,
                       torrentsOutcome>>
    PROVE  CatalogInv'
<1>1. Document' = Document /\ PlannedContent' = PlannedContent
  BY SamePlan
<1>2. CatalogTyped' /\ WasRead(before)'
  BY DEF CatalogInv, CatalogTyped, WasRead
<1>3. OneExchange' /\ CatalogAnswers'
  BY DEF OneExchange, CatalogAnswers
<1>4. ExactlyPlanned' /\ AppliedOnce'
  BY <1>1 DEF CatalogInv, ExactlyPlanned, Underway, AppliedOnce, WriteOps, WritingPhases
<1>5. SentByPhase' /\ CatalogReported'
  BY DEF CatalogInv, SentByPhase, CatalogReported, LoadingStates, ReadingPhases, WritingPhases,
     WriteOps
<1> QED BY <1>2, <1>3, <1>4, <1>5 DEF CatalogInv

\* What was committed, or is there already, may be followed by favorites.
LEMMA CatalogSettledSteps ==
    ASSUME CatalogInv, Torrents!Checked \/ Torrents!Unchanged
    PROVE  CatalogInv'
<1> USE DEF Torrents!player, Torrents!plan, Torrents!None
<1>1. CASE Torrents!Checked
  <2>1. phase = "readback" /\ torrentsNetwork.op = "none" /\ torrentsOutcome = "none"
    BY <1>1, AnswerAccepted DEF Torrents!Checked
  <2>2. torrentsApplied # {}
    BY <2>1 DEF CatalogInv, SentByPhase
  <2>3. CASE torrentsCommand.with
    BY <1>1, <2>1, <2>2, <2>3, CatalogFavorites DEF Torrents!Checked
  <2>4. CASE ~torrentsCommand.with
    BY <1>1, <2>2, <2>4, CatalogEnds DEF Torrents!Checked, LoadingStates
  <2> QED BY <2>3, <2>4
<1>2. CASE Torrents!Unchanged
  <2>1. /\ phase = "planned" /\ ~torrentsAsked /\ final = before.doc
        /\ torrentsNetwork.op = "none" /\ torrentsAnswer.op = "none"
    BY <1>2 DEF Torrents!Unchanged, Torrents!Open, CatalogInv, OneExchange
  <2>2. NothingDone /\ torrentsOutcome = "none"
    BY <2>1, ReadingDoesNothing DEF ReadingPhases
  <2>3. torrentsAsked \in BOOLEAN
    BY DEF CatalogInv, CatalogTyped
  <2>4. CASE torrentsCommand.with
    BY <1>2, <2>1, <2>2, <2>3, <2>4, CatalogFavorites DEF Torrents!Unchanged
  <2>5. CASE ~torrentsCommand.with
    BY <1>2, <2>1, <2>2, <2>5, CatalogEnds DEF Torrents!Unchanged, Torrents!Ends
  <2> QED BY <2>4, <2>5
<1> QED BY <1>1, <1>2

\* The favorites are written, or not; either way the catalogue has been.
LEMMA CatalogApplyStep ==
    ASSUME CatalogInv, Torrents!ApplyFavorites
    PROVE  CatalogInv'
<1>1. PICK verified \in BOOLEAN, stored \in BOOLEAN :
        /\ verified => stored
        /\ merged' = (merged \/ stored)
        /\ Torrents!Ends(IF verified THEN "committed" ELSE "partial")
  BY DEF Torrents!ApplyFavorites
<1>2. /\ phase = "favorites"
      /\ UNCHANGED <<catalog, uploads, loading, torrentsApplied, played, torrentsNetwork,
                     torrentsAnswer, torrentsCommand, before, final, durable>>
      /\ phase' = "done" /\ torrentsAsked' = FALSE
      /\ \/ torrentsOutcome' = "committed" /\ merged' = TRUE
         \/ torrentsOutcome' = "partial"
      /\ merged' \in BOOLEAN
  BY <1>1 DEF Torrents!ApplyFavorites, Torrents!Open, Torrents!Ends, Torrents!plan
<1>3. torrentsApplied # {} \/ final = before.doc
  BY <1>2 DEF CatalogInv, SentByPhase
<1>4. Document' = Document /\ PlannedContent' = PlannedContent
  BY <1>2, SamePlan
<1>5. CatalogTyped' /\ WasRead(before)'
  BY <1>2 DEF CatalogInv, CatalogTyped, WasRead
<1>6. OneExchange' /\ CatalogAnswers'
  BY <1>2 DEF CatalogInv, OneExchange, CatalogAnswers, WasRead
<1>7. ExactlyPlanned' /\ AppliedOnce'
  BY <1>2, <1>4 DEF CatalogInv, ExactlyPlanned, Underway, AppliedOnce, WritingPhases
<1>8. SentByPhase' /\ CatalogReported'
  BY <1>2, <1>3 DEF CatalogInv, SentByPhase, CatalogReported, LoadingStates, ReadingPhases,
     WritingPhases
<1> QED BY <1>5, <1>6, <1>7, <1>8 DEF CatalogInv

\* A command that fails is in doubt of what it sent.
LEMMA CatalogFailStep ==
    ASSUME CatalogInv, Torrents!Fail
    PROVE  CatalogInv'
<1>1. /\ phase # "done" /\ phase' = "done" /\ torrentsAsked' = FALSE
      /\ torrentsOutcome' = Torrents!Failure
      /\ UNCHANGED <<catalog, uploads, loading, torrentsApplied, played, merged, torrentsNetwork,
                     torrentsAnswer, torrentsCommand, before, final, durable>>
  BY DEF Torrents!Fail, Torrents!Ends, Torrents!player, Torrents!plan
<1>2. CASE phase = "favorites"
  <2>1. Torrents!Failure = "partial" /\ (torrentsApplied # {} \/ final = before.doc)
    BY <1>2 DEF Torrents!Failure, CatalogInv, SentByPhase
  <2>2. torrentsOutcome' = "partial"
    BY <1>1, <2>1
  <2> QED BY <1>1, <2>1, <2>2, CatalogEnds DEF LoadingStates
<1>3. CASE phase \in ReadingPhases
  <2>1. Torrents!Failure \in {"failed", "unknown"} /\ NothingDone
    BY <1>3, ReadingDoesNothing DEF Torrents!Failure, ReadingPhases
  <2>2. torrentsOutcome' \in {"failed", "unknown"}
    BY <1>1, <2>1
  <2> QED BY <1>1, <2>1, <2>2, CatalogEnds DEF LoadingStates
<1>4. CASE phase \in WritingPhases \cup {"play"}
  <2>1. uncertain # "none" /\ phase # "favorites"
    BY <1>4 DEF CatalogInv, SentByPhase, WritingPhases
  <2>2. torrentsOutcome' = "unknown"
    BY <1>1, <2>1 DEF Torrents!Failure
  <2> QED BY <1>1, <2>2, CatalogEnds DEF LoadingStates
<1> QED BY <1>1, <1>2, <1>3, <1>4 DEF CatalogInv, CatalogTyped

\* Every other end of the command.
LEMMA CatalogEndSteps ==
    ASSUME CatalogInv,
           \/ Torrents!Operated \/ Torrents!Shown \/ Torrents!StillPending
           \/ Torrents!NotLoaded \/ Torrents!DryRun \/ Torrents!NotCommitted
           \/ Torrents!Played \/ Torrents!Interrupt
    PROVE  CatalogInv'
<1> USE DEF Torrents!player, Torrents!plan
<1>1. ASSUME NEW what \in LoadingStates \cup {"planned"}, NothingDone,
             phase' = "done", torrentsAsked' = FALSE, torrentsOutcome' = what,
             UNCHANGED <<catalog, uploads, loading, torrentsApplied, played, merged,
                         torrentsNetwork, torrentsAnswer, torrentsCommand, before, final,
                         durable>>
      PROVE  CatalogInv'
  <2>1. what \notin {"unchanged", "committed", "partial", "accepted"}
    BY DEF LoadingStates
  <2> QED BY <1>1, <2>1, CatalogEnds
<1>2. CASE Torrents!Operated
  <2>1. /\ phase = "operate" /\ torrentsAnswer.is = "ok" /\ torrentsAnswer.op # "none"
        /\ <<"operate", torrentsAnswer.op>> \in PhaseAsks
    BY <1>2, AnswerAccepted DEF Torrents!Operated
  <2>2. torrentsAnswer.op \in {"status", "cancel"}
    BY <2>1 DEF PhaseAsks
  <2>3. torrentsAnswer.body \in LoadingStates
    BY <2>1, <2>2 DEF CatalogInv, CatalogAnswers
  <2>4. NothingDone
    BY <2>1, ReadingDoesNothing DEF ReadingPhases
  <2> QED BY <1>1, <1>2, <2>3, <2>4 DEF Torrents!Operated, Torrents!Ends
<1>3. CASE Torrents!Shown \/ Torrents!StillPending \/ Torrents!DryRun
  <2>1. phase \in {"fetched", "loaded", "status", "planned"}
    BY <1>3 DEF Torrents!Shown, Torrents!StillPending, Torrents!DryRun, Torrents!Open
  <2>2. NothingDone
    BY <2>1, ReadingDoesNothing DEF ReadingPhases
  <2>3. \E what \in {"ready", "pending", "planned"} : Torrents!Ends(what)
    BY <1>3 DEF Torrents!Shown, Torrents!StillPending, Torrents!DryRun
  <2>4. UNCHANGED <<catalog, uploads, loading, torrentsApplied, played, merged, torrentsNetwork,
                    torrentsAnswer>>
    BY <1>3 DEF Torrents!Shown, Torrents!StillPending, Torrents!DryRun
  <2> QED BY <1>1, <2>2, <2>3, <2>4 DEF Torrents!Ends, LoadingStates
<1>4. CASE Torrents!NotLoaded
  <2>1. phase \in {"metadata", "known", "status"}
    BY <1>4 DEF Torrents!NotLoaded, Torrents!Answered
  <2>2. NothingDone
    BY <2>1, ReadingDoesNothing DEF ReadingPhases
  <2> QED BY <1>1, <1>4, <2>2 DEF Torrents!NotLoaded, LoadingStates
<1>5. CASE Torrents!NotCommitted
  <2>1. /\ phase = "commit" /\ torrentsNetwork.op = "none" /\ torrentsAnswer.is = "ok"
        /\ <<"commit", torrentsAnswer.op>> \in PhaseAsks
        /\ torrentsAnswer.body.state \in {"failed", "cancelled"}
    BY <1>5, AnswerAccepted DEF Torrents!NotCommitted
  <2>2. torrentsAnswer.op = "write_commit"
    BY <2>1 DEF PhaseAsks
  <2>3. torrentsApplied = {} /\ ~played
    BY <2>1, <2>2 DEF CatalogInv, CatalogAnswers, SentByPhase, WritingPhases
  <2>4. NothingDone
    BY <2>1, <2>3 DEF NothingDone, WriteOps
  <2> QED BY <1>1, <1>5, <2>4 DEF Torrents!NotCommitted, LoadingStates
<1>6. CASE Torrents!Played
  <2>1. torrentsAnswer.is = "ok" /\ <<"play", torrentsAnswer.op>> \in PhaseAsks
    BY <1>6, AnswerAccepted DEF Torrents!Played
  <2>2. torrentsAnswer.op = "play"
    BY <2>1 DEF PhaseAsks
  <2>3. played
    BY <2>1, <2>2 DEF CatalogInv, CatalogAnswers
  <2>4. torrentsOutcome' = "accepted" /\ phase' = "done" /\ torrentsAsked' = FALSE
    BY <1>6 DEF Torrents!Played
  <2>5. UNCHANGED <<catalog, uploads, loading, torrentsApplied, played, merged, torrentsNetwork,
                    torrentsAnswer, torrentsCommand, before, final, durable>>
    BY <1>6 DEF Torrents!Played
  <2> QED BY <2>3, <2>4, <2>5, CatalogEnds DEF LoadingStates
<1>7. CASE Torrents!Interrupt
  <2>1. torrentsOutcome' = "interrupted" /\ phase' = "done" /\ torrentsAsked' = FALSE
    BY <1>7 DEF Torrents!Interrupt, Torrents!Ends
  <2>2. UNCHANGED <<catalog, uploads, loading, torrentsApplied, played, merged, torrentsNetwork,
                    torrentsAnswer, torrentsCommand, before, final, durable>>
    BY <1>7 DEF Torrents!Interrupt, Torrents!Ends
  <2> QED BY <2>1, <2>2, CatalogEnds DEF LoadingStates
<1> QED BY <1>2, <1>3, <1>4, <1>5, <1>6, <1>7

\* A request that is answered, refused or lost, with the player as it was.
LEMMA CatalogReplies ==
    ASSUME CatalogInv,
           UNCHANGED <<catalog, uploads, torrentsApplied, played, merged, torrentsCommand, phase,
                       torrentsAsked, before, final, durable, uncertain, torrentsOutcome>>,
           loading' \in LoadingStates \cup {"none"},
           torrentsNetwork'.op = "none" \/ torrentsNetwork' = torrentsNetwork,
           torrentsNetwork'.op = "none" \/ torrentsAnswer'.op = "none",
           torrentsAnswer'.op \in {"none", torrentsNetwork.op, torrentsAnswer.op},
           CatalogAnswers'
    PROVE  CatalogInv'
<1>1. Document' = Document /\ PlannedContent' = PlannedContent
  BY SamePlan
<1>2. torrentsNetwork'.op \in {"none", torrentsNetwork.op}
  OBVIOUS
<1>3. CatalogTyped' /\ WasRead(before)'
  BY DEF CatalogInv, CatalogTyped, WasRead
<1>4. OneExchange'
  BY <1>2 DEF CatalogInv, OneExchange
<1>5. ExactlyPlanned'
  BY <1>1, <1>2 DEF CatalogInv, ExactlyPlanned, Underway, WriteOps
<1>6. AppliedOnce'
  BY DEF CatalogInv, AppliedOnce
<1>7. SentByPhase' /\ CatalogReported'
  BY <1>2 DEF CatalogInv, SentByPhase, CatalogReported, NothingDone, WriteOps
<1> QED BY <1>3, <1>4, <1>5, <1>6, <1>7 DEF CatalogInv

\* The player answers without changing its catalogue, or the way fails.
LEMMA CatalogReplySteps ==
    ASSUME CatalogInv,
           \/ Torrents!TakeRead \/ Torrents!TakeMetadata \/ Torrents!MetadataEnds
           \/ Torrents!Refuse \/ Torrents!Lose
    PROVE  CatalogInv'
<1> USE DEF Torrents!player, Torrents!plan, Torrents!client, Torrents!None
<1>1. CASE Torrents!TakeRead
  <2>1. WasRead(catalog)
    BY DEF CatalogInv, CatalogTyped, WasRead
  <2>2. /\ torrentsNetwork'.op = "none" /\ torrentsAnswer'.op = torrentsNetwork.op
        /\ torrentsNetwork.op \in {"capabilities", "read", "read_chunk"}
        /\ torrentsNetwork.op = "read" => torrentsAnswer'.body = catalog
    BY <1>1 DEF Torrents!TakeRead, Torrents!Asked, Torrents!Reply
  <2>3. CatalogAnswers'
    BY <1>1, <2>1, <2>2 DEF Torrents!TakeRead, CatalogAnswers, WasRead
  <2> QED BY <1>1, <2>2, <2>3, CatalogReplies DEF Torrents!TakeRead, CatalogInv, CatalogTyped
<1>2. CASE Torrents!TakeMetadata
  <2>1. /\ torrentsNetwork'.op = "none" /\ torrentsAnswer'.op = torrentsNetwork.op
        /\ torrentsNetwork.op \in {"metadata", "status", "cancel"}
        /\ torrentsAnswer'.body = loading' /\ loading' \in LoadingStates
    BY <1>2 DEF Torrents!TakeMetadata, Torrents!Asked, Torrents!Reply, CatalogInv, CatalogTyped,
       LoadingStates
  <2>2. CatalogAnswers'
    BY <2>1 DEF CatalogAnswers
  <2> QED BY <1>2, <2>1, <2>2, CatalogReplies DEF Torrents!TakeMetadata
<1>3. CASE Torrents!MetadataEnds
  <2>1. loading' \in LoadingStates
    BY <1>3 DEF Torrents!MetadataEnds, LoadingStates
  <2>2. CatalogAnswers'
    BY <1>3 DEF Torrents!MetadataEnds, CatalogInv, CatalogAnswers, WasRead
  <2> QED BY <1>3, <2>1, <2>2, CatalogReplies DEF Torrents!MetadataEnds, CatalogInv, OneExchange
<1>4. CASE Torrents!Refuse
  <2>1. /\ torrentsNetwork'.op = "none" /\ torrentsAnswer'.op = torrentsNetwork.op
        /\ torrentsAnswer'.is = "refused"
    BY <1>4 DEF Torrents!Refuse, Torrents!Refused
  <2>2. CatalogAnswers'
    BY <2>1 DEF CatalogAnswers
  <2> QED BY <1>4, <2>1, <2>2, CatalogReplies DEF Torrents!Refuse, CatalogInv, CatalogTyped
<1>5. CASE Torrents!Lose
  <2>1. /\ torrentsNetwork'.op = "none" \/ torrentsNetwork' = torrentsNetwork
        /\ torrentsAnswer'.op = "none" \/ torrentsAnswer' = torrentsAnswer
        /\ torrentsNetwork'.op = "none" \/ torrentsAnswer'.op = "none"
    BY <1>5 DEF Torrents!Lose
  <2>2. CatalogAnswers'
    BY <1>5, <2>1 DEF Torrents!Lose, CatalogInv, CatalogAnswers, WasRead
  <2> QED BY <1>5, <2>1, <2>2, CatalogReplies DEF Torrents!Lose, CatalogInv, CatalogTyped
<1> QED BY <1>1, <1>2, <1>3, <1>4, <1>5

\* The upload of the plan begins at the revision that was read.
LEMMA CatalogTakeBeginStep ==
    ASSUME CatalogInv, Torrents!TakeBegin
    PROVE  CatalogInv'
<1>1. /\ torrentsNetwork.op = "write_begin" /\ uploads.state = "none"
      /\ uploads' = [state |-> "uploading", next |-> 0, rev |-> torrentsNetwork.body.rev,
                     mode |-> torrentsNetwork.body.mode, doc |-> torrentsNetwork.body.doc]
      /\ torrentsNetwork'.op = "none" /\ torrentsAnswer'.op = "write_begin"
      /\ UNCHANGED <<catalog, loading, torrentsApplied, played, merged, torrentsCommand, phase,
                     torrentsAsked, before, final, durable, uncertain, torrentsOutcome>>
  BY DEF Torrents!TakeBegin, Torrents!Asked, Torrents!Reply, Torrents!None, Torrents!client,
     Torrents!plan
<1>2. Document' = Document /\ PlannedContent' = PlannedContent
  BY <1>1, SamePlan
<1>3. /\ uploads'.state = "uploading" /\ uploads'.rev = before.rev
      /\ uploads'.mode = torrentsCommand.mode /\ uploads'.doc = Document
      /\ final = PlannedContent /\ torrentsApplied = {} /\ "write" \in durable
  BY <1>1 DEF CatalogInv, ExactlyPlanned, Underway, AppliedOnce, SentByPhase, WriteOps
<1>4. /\ torrentsOutcome \notin LoadingStates \cup {"unchanged", "planned"}
      /\ phase \notin ReadingPhases \cup {"play"}
  <2>1. ~NothingDone
    BY <1>1 DEF NothingDone, WriteOps
  <2>2. phase # "play"
    BY <1>1 DEF CatalogInv, OneExchange, PhaseAsks
  <2> QED BY <2>1, <2>2, ReadingDoesNothing DEF CatalogInv, CatalogReported
<1>5. CatalogTyped' /\ WasRead(before)'
  BY <1>1 DEF CatalogInv, CatalogTyped, WasRead
<1>6. OneExchange' /\ CatalogAnswers'
  BY <1>1 DEF CatalogInv, OneExchange, CatalogAnswers
<1>7. ExactlyPlanned' /\ AppliedOnce'
  BY <1>1, <1>2, <1>3 DEF ExactlyPlanned, AppliedOnce
<1>8. SentByPhase' /\ CatalogReported'
  BY <1>1, <1>3, <1>4 DEF CatalogInv, SentByPhase, CatalogReported, WriteOps
<1> QED BY <1>5, <1>6, <1>7, <1>8 DEF CatalogInv

\* The operation of the upload changes, and nothing else of the player.
LEMMA CatalogUploads ==
    ASSUME CatalogInv, uploads.state # "none",
           uploads' = [uploads EXCEPT !.state = uploads'.state, !.next = uploads'.next],
           \/ uploads'.state = uploads.state
           \/ uploads.state = "uploading" /\ uploads'.state \in {"failed", "cancelled"}
           \/ uploads'.state = "forgotten",
           UNCHANGED <<catalog, torrentsApplied, played, merged, torrentsCommand, phase,
                       torrentsAsked, before, final, durable, uncertain, torrentsOutcome>>,
           loading' \in LoadingStates \cup {"none"},
           torrentsNetwork'.op = "none" \/ torrentsNetwork' = torrentsNetwork,
           torrentsNetwork'.op = "none" \/ torrentsAnswer'.op = "none",
           torrentsAnswer'.op \in {"none", torrentsNetwork.op, torrentsAnswer.op},
           CatalogAnswers'
    PROVE  CatalogInv'
<1>1. Document' = Document /\ PlannedContent' = PlannedContent
  BY SamePlan
<1>2. torrentsNetwork'.op \in {"none", torrentsNetwork.op}
  OBVIOUS
<1>3. /\ uploads' = [state |-> uploads'.state, next |-> uploads'.next, rev |-> uploads.rev,
                     mode |-> uploads.mode, doc |-> uploads.doc]
      /\ uploads'.rev = uploads.rev /\ uploads'.mode = uploads.mode /\ uploads'.doc = uploads.doc
      /\ uploads'.state \in {"uploading", "committed", "failed", "cancelled", "forgotten"}
  <2> DEFINE state == uploads'.state
             after == uploads'.next
  <2>1. uploads = [state |-> uploads.state, next |-> uploads.next, rev |-> uploads.rev,
                   mode |-> uploads.mode, doc |-> uploads.doc]
    BY DEF CatalogInv, CatalogTyped
  <2>2. uploads' = [uploads EXCEPT !.state = state, !.next = after]
    OBVIOUS
  <2>3. state \in {"uploading", "committed", "failed", "cancelled", "forgotten"}
    BY DEF CatalogInv, CatalogTyped
  <2> HIDE DEF state, after
  <2>4. uploads' = [state |-> state, next |-> after, rev |-> uploads.rev, mode |-> uploads.mode,
                    doc |-> uploads.doc]
    BY <2>1, <2>2
  <2> QED BY <2>3, <2>4 DEF state, after
<1>4. CatalogTyped' /\ WasRead(before)'
  <2>1. uploads' = [state |-> uploads'.state, next |-> uploads'.next, rev |-> uploads'.rev,
                    mode |-> uploads'.mode, doc |-> uploads'.doc]
    BY <1>3
  <2> QED BY <1>3, <2>1 DEF CatalogInv, CatalogTyped, WasRead
<1>5. OneExchange'
  BY <1>2 DEF CatalogInv, OneExchange
<1>6. ExactlyPlanned'
  BY <1>1, <1>2, <1>3 DEF CatalogInv, ExactlyPlanned, Underway, WriteOps
<1>7. AppliedOnce'
  BY <1>3 DEF CatalogInv, AppliedOnce
<1>8. SentByPhase' /\ CatalogReported'
  BY <1>2, <1>3 DEF CatalogInv, SentByPhase, CatalogReported, NothingDone, WriteOps
<1> QED BY <1>4, <1>5, <1>6, <1>7, <1>8 DEF CatalogInv

\* A chunk is taken, the upload is cancelled, the player restarts.
LEMMA CatalogUploadSteps ==
    ASSUME CatalogInv, Torrents!TakeChunk \/ Torrents!Cancel \/ Torrents!Restart
    PROVE  CatalogInv'
<1> USE DEF Torrents!player, Torrents!plan, Torrents!client, Torrents!None
<1>0. uploads = [state |-> uploads.state, next |-> uploads.next, rev |-> uploads.rev,
                 mode |-> uploads.mode, doc |-> uploads.doc]
  BY DEF CatalogInv, CatalogTyped
<1>1. CASE Torrents!TakeChunk
  <2>1. /\ uploads.state = "uploading" /\ uploads'.state = "uploading"
        /\ uploads' = [uploads EXCEPT !.state = uploads'.state, !.next = uploads'.next]
    <3>1. uploads.state = "uploading" /\ uploads' = [uploads EXCEPT !.next = uploads.next + 1]
      BY <1>1 DEF Torrents!TakeChunk
    <3> QED BY <3>1, <1>0
  <2>2. /\ torrentsNetwork'.op = "none" /\ torrentsAnswer'.op = torrentsNetwork.op
        /\ torrentsNetwork.op = "write_chunk"
    BY <1>1 DEF Torrents!TakeChunk, Torrents!Reply, Torrents!Asked
  <2>3. CatalogAnswers'
    BY <2>2 DEF CatalogAnswers
  <2> QED BY <1>1, <2>1, <2>2, <2>3, CatalogUploads
          DEF Torrents!TakeChunk, CatalogInv, CatalogTyped
<1>2. CASE Torrents!Cancel
  <2>1. /\ uploads.state = "uploading" /\ uploads'.state = "cancelled"
        /\ uploads' = [uploads EXCEPT !.state = uploads'.state, !.next = uploads'.next]
    <3>1. uploads.state = "uploading" /\ uploads' = [uploads EXCEPT !.state = "cancelled"]
      BY <1>2 DEF Torrents!Cancel
    <3> QED BY <3>1, <1>0
  <2>2. CatalogAnswers'
    BY <1>2, <2>1 DEF Torrents!Cancel, CatalogInv, CatalogAnswers, WasRead
  <2> QED BY <1>2, <2>1, <2>2, CatalogUploads
          DEF Torrents!Cancel, CatalogInv, CatalogTyped, OneExchange
<1>3. CASE Torrents!Restart /\ uploads.state = "none"
  <2>1. uploads' = uploads
    BY <1>0, <1>3 DEF Torrents!Restart
  <2>2. loading' \in LoadingStates \cup {"none"}
    BY <1>3 DEF Torrents!Restart
  <2>3. CatalogAnswers'
    BY <1>3, <2>1 DEF Torrents!Restart, CatalogInv, CatalogAnswers, WasRead
  <2> QED BY <1>3, <2>1, <2>2, <2>3, CatalogReplies DEF Torrents!Restart, CatalogInv, OneExchange
<1>4. CASE Torrents!Restart /\ uploads.state # "none"
  <2>1. /\ uploads'.state = "forgotten"
        /\ uploads' = [uploads EXCEPT !.state = uploads'.state, !.next = uploads'.next]
    <3>1. uploads' = [uploads EXCEPT !.state = "forgotten"]
      BY <1>4 DEF Torrents!Restart
    <3> QED BY <3>1, <1>0
  <2>2. loading' \in LoadingStates \cup {"none"}
    BY <1>4 DEF Torrents!Restart
  <2>3. CatalogAnswers'
    BY <1>4, <2>1 DEF Torrents!Restart, CatalogInv, CatalogAnswers, WasRead
  <2> QED BY <1>4, <2>1, <2>2, <2>3, CatalogUploads DEF Torrents!Restart, CatalogInv, OneExchange
<1> QED BY <1>1, <1>2, <1>3, <1>4

\* A commit is applied to the catalogue that was read.
LEMMA CatalogCommits ==
    ASSUME CatalogInv,
           NEW doc, doc = Torrents!Merge(catalog.doc, uploads.doc, uploads.mode),
           torrentsNetwork.op = "write_commit",
           uploads.state = "uploading", uploads.rev = catalog.rev,
           catalog' = [rev |-> catalog.rev + 1, doc |-> doc],
           torrentsApplied' =
             torrentsApplied \cup {[rev |-> catalog.rev, was |-> catalog.doc, now |-> doc]},
           uploads' = [uploads EXCEPT !.state = "committed", !.doc = doc],
           torrentsNetwork' = Torrents!None,
           torrentsAnswer'.op = "write_commit",
           torrentsAnswer'.is = "ok" => torrentsAnswer'.body.state = "committed",
           UNCHANGED <<loading, played, merged, torrentsCommand, phase, torrentsAsked, before,
                       final, durable, uncertain, torrentsOutcome>>
    PROVE  CatalogInv'
<1>1. Document' = Document /\ PlannedContent' = PlannedContent
  BY SamePlan
<1>2. /\ torrentsApplied = {} /\ uploads.rev = before.rev /\ uploads.doc = Document
      /\ uploads.mode = torrentsCommand.mode /\ final = PlannedContent
      /\ catalog.rev \in Nat /\ before.rev \in Nat /\ before.rev <= catalog.rev
  BY DEF CatalogInv, CatalogTyped, WasRead, ExactlyPlanned, Underway, AppliedOnce
<1>3. catalog.doc = before.doc /\ doc = final
  BY <1>2 DEF CatalogInv, WasRead, PlannedContent
<1>4. /\ torrentsApplied' = {[rev |-> before.rev, was |-> before.doc, now |-> final]}
      /\ torrentsApplied' # {}
  BY <1>2, <1>3
<1>5. /\ uploads' = [state |-> "committed", next |-> uploads.next, rev |-> uploads.rev,
                     mode |-> uploads.mode, doc |-> doc]
      /\ uploads'.state = "committed"
  BY DEF CatalogInv, CatalogTyped
<1>6. uploads' = [state |-> uploads'.state, next |-> uploads'.next, rev |-> uploads'.rev,
                  mode |-> uploads'.mode, doc |-> uploads'.doc]
  BY <1>5
<1>7. /\ catalog'.rev \in Nat /\ before.rev <= catalog'.rev /\ before.rev # catalog'.rev
  BY <1>2
<1>8. torrentsOutcome \notin LoadingStates \cup {"unchanged", "planned"}
  BY DEF CatalogInv, CatalogReported, NothingDone, WriteOps
<1>9. CatalogTyped'
  BY <1>5, <1>6, <1>7 DEF CatalogInv, CatalogTyped
<1>10. WasRead(before)'
  BY <1>2, <1>7 DEF WasRead
<1>11. OneExchange' /\ CatalogAnswers'
  BY <1>4 DEF CatalogInv, OneExchange, CatalogAnswers, Torrents!None
<1>12. ExactlyPlanned' /\ AppliedOnce'
  BY <1>1, <1>2, <1>4, <1>5 DEF ExactlyPlanned, AppliedOnce, Torrents!None
<1>13. SentByPhase' /\ CatalogReported'
  BY <1>4, <1>5, <1>8 DEF CatalogInv, SentByPhase, CatalogReported, Torrents!None, WriteOps
<1> QED BY <1>9, <1>10, <1>11, <1>12, <1>13 DEF CatalogInv

\* A commit is applied, or the operation has failed.
LEMMA CatalogTakeCommitStep ==
    ASSUME CatalogInv, Torrents!TakeCommit
    PROVE  CatalogInv'
<1> USE DEF Torrents!player, Torrents!plan, Torrents!client
<1> DEFINE doc == Torrents!Merge(catalog.doc, uploads.doc, uploads.mode)
<1>1. /\ torrentsNetwork.op = "write_commit"
      /\ UNCHANGED <<loading, played, merged, torrentsCommand, phase, torrentsAsked, before,
                     final, durable, uncertain, torrentsOutcome>>
  BY DEF Torrents!TakeCommit, Torrents!Asked
<1>2. CASE /\ uploads.state = "uploading" /\ uploads.rev = catalog.rev
           /\ catalog' = [rev |-> catalog.rev + 1, doc |-> doc]
           /\ torrentsApplied' =
                torrentsApplied \cup {[rev |-> catalog.rev, was |-> catalog.doc, now |-> doc]}
           /\ uploads' = [uploads EXCEPT !.state = "committed", !.doc = doc]
           /\ Torrents!Reply([state |-> "committed", doc |-> doc]) \/ Torrents!Refused
  <2>1. /\ torrentsNetwork' = Torrents!None /\ torrentsAnswer'.op = "write_commit"
        /\ torrentsAnswer'.is = "ok" => torrentsAnswer'.body.state = "committed"
    BY <1>1, <1>2 DEF Torrents!Reply, Torrents!Refused
  <2> HIDE DEF doc
  <2> QED BY <1>1, <1>2, <2>1, CatalogCommits DEF doc
<1>3. CASE /\ uploads.state # "none"
           /\ uploads' = [uploads EXCEPT !.state = IF uploads.state = "uploading" THEN "failed"
                                                   ELSE uploads.state]
           /\ Torrents!Reply([state |-> uploads'.state, doc |-> uploads.doc])
           /\ UNCHANGED <<catalog, torrentsApplied>>
  <2>1. uploads = [state |-> uploads.state, next |-> uploads.next, rev |-> uploads.rev,
                   mode |-> uploads.mode, doc |-> uploads.doc]
    BY DEF CatalogInv, CatalogTyped
  <2>2. /\ uploads' = [uploads EXCEPT !.state = uploads'.state, !.next = uploads'.next]
        /\ uploads'.state = IF uploads.state = "uploading" THEN "failed" ELSE uploads.state
    BY <1>3, <2>1
  <2>3. /\ torrentsNetwork'.op = "none" /\ torrentsAnswer'.op = "write_commit"
        /\ torrentsAnswer'.body.state = uploads'.state
    BY <1>1, <1>3 DEF Torrents!Reply, Torrents!None
  <2>4. /\ uploads'.state = "committed" => torrentsApplied # {}
        /\ uploads'.state \in {"failed", "cancelled"} => torrentsApplied = {}
        /\ uploads'.state # "uploading"
    BY <2>2 DEF CatalogInv, AppliedOnce
  <2>5. CatalogAnswers'
    BY <1>3, <2>3, <2>4 DEF CatalogAnswers
  <2>6. loading' \in LoadingStates \cup {"none"}
    BY <1>1 DEF CatalogInv, CatalogTyped
  <2> QED BY <1>1, <1>3, <2>2, <2>3, <2>5, <2>6, CatalogUploads
<1> QED BY <1>2, <1>3 DEF Torrents!TakeCommit

\* A play is admitted for the catalogue that was read.
LEMMA CatalogTakePlayStep ==
    ASSUME CatalogInv, Torrents!TakePlay
    PROVE  CatalogInv'
<1>1. /\ torrentsNetwork.op = "play" /\ played' = TRUE
      /\ torrentsNetwork'.op = "none" /\ torrentsAnswer'.op = "play"
      /\ UNCHANGED <<catalog, uploads, loading, torrentsApplied, merged, torrentsCommand, phase,
                     torrentsAsked, before, final, durable, uncertain, torrentsOutcome>>
  BY DEF Torrents!TakePlay, Torrents!Asked, Torrents!Reply, Torrents!None, Torrents!client,
     Torrents!plan
<1>2. Document' = Document /\ PlannedContent' = PlannedContent
  BY <1>1, SamePlan
<1>3. /\ torrentsOutcome \notin LoadingStates \cup {"unchanged", "planned"}
      /\ phase \notin ReadingPhases \cup WritingPhases
  <2>1. ~NothingDone
    BY <1>1 DEF NothingDone
  <2>2. phase \notin WritingPhases
    BY <1>1 DEF CatalogInv, OneExchange, PhaseAsks, WritingPhases
  <2> QED BY <2>1, <2>2, ReadingDoesNothing DEF CatalogInv, CatalogReported
<1>4. CatalogTyped' /\ WasRead(before)'
  BY <1>1 DEF CatalogInv, CatalogTyped, WasRead
<1>5. OneExchange' /\ CatalogAnswers'
  BY <1>1 DEF CatalogInv, OneExchange, CatalogAnswers
<1>6. ExactlyPlanned' /\ AppliedOnce'
  BY <1>1, <1>2 DEF CatalogInv, ExactlyPlanned, Underway, AppliedOnce, WriteOps
<1>7. SentByPhase' /\ CatalogReported'
  BY <1>1, <1>3 DEF CatalogInv, SentByPhase, CatalogReported, WriteOps
<1> QED BY <1>4, <1>5, <1>6, <1>7 DEF CatalogInv

\* A change by others has a revision of its own.
LEMMA CatalogOthersStep ==
    ASSUME CatalogInv, Torrents!Others
    PROVE  CatalogInv'
<1>1. /\ \/ catalog' = catalog
         \/ catalog'.rev = catalog.rev + 1
      /\ UNCHANGED <<uploads, loading, torrentsApplied, played, merged, torrentsNetwork,
                     torrentsAnswer, torrentsCommand, phase, torrentsAsked, before, final,
                     durable, uncertain, torrentsOutcome>>
  BY DEF Torrents!Others, Torrents!client, Torrents!plan
<1>2. Document' = Document /\ PlannedContent' = PlannedContent
  BY <1>1, SamePlan
<1>3. catalog.rev \in Nat
  BY DEF CatalogInv, CatalogTyped
<1>4. ASSUME NEW read, WasRead(read)
      PROVE  /\ read.rev \in Nat /\ read.rev <= catalog'.rev
             /\ read.rev = catalog'.rev => read.doc = catalog'.doc
  BY <1>1, <1>3, <1>4 DEF WasRead
<1>5. WasRead(before)'
  BY <1>1, <1>4 DEF CatalogInv, WasRead
<1>6. CatalogTyped' /\ OneExchange'
  BY <1>1, <1>3 DEF CatalogInv, CatalogTyped, OneExchange
<1>7. CatalogAnswers'
  <2>1. WasRead(torrentsAnswer.body) => WasRead(torrentsAnswer.body)'
    BY <1>1, <1>4 DEF WasRead
  <2> QED BY <1>1, <2>1 DEF CatalogInv, CatalogAnswers
<1>8. ExactlyPlanned' /\ AppliedOnce'
  BY <1>1, <1>2 DEF CatalogInv, ExactlyPlanned, Underway, AppliedOnce
<1>9. SentByPhase' /\ CatalogReported'
  BY <1>1 DEF CatalogInv, SentByPhase, CatalogReported, NothingDone
<1> QED BY <1>5, <1>6, <1>7, <1>8, <1>9 DEF CatalogInv

\* Every step keeps the invariant.
LEMMA CatalogNext ==
    ASSUME CatalogInv, [Torrents!Next]_CatalogVars
    PROVE  CatalogInv'
<1>1. CASE Torrents!Client
  BY <1>1, CatalogRequestSteps, CatalogReadingSteps, CatalogPlanStep, CatalogRecordSteps,
     CatalogWritingSteps, CatalogSettledSteps, CatalogApplyStep, CatalogFailStep, CatalogEndSteps
     DEF Torrents!Client
<1>2. CASE Torrents!World
  BY <1>2, CatalogReplySteps, CatalogTakeBeginStep, CatalogUploadSteps, CatalogTakeCommitStep,
     CatalogTakePlayStep, CatalogOthersStep DEF Torrents!World
<1>3. CASE UNCHANGED CatalogVars
  <2>1. /\ UNCHANGED <<catalog, uploads, loading, torrentsApplied, played, merged,
                       torrentsNetwork, torrentsAnswer, torrentsCommand, phase, torrentsAsked,
                       before, final, durable, uncertain, torrentsOutcome>>
    BY <1>3 DEF CatalogVars
  <2>2. loading' \in LoadingStates \cup {"none"} /\ CatalogAnswers'
    BY <2>1 DEF CatalogInv, CatalogTyped, CatalogAnswers, WasRead
  <2>3. torrentsNetwork.op = "none" \/ torrentsAnswer.op = "none"
    BY DEF CatalogInv, OneExchange
  <2> QED BY <2>1, <2>2, <2>3, CatalogReplies
<1> QED BY <1>1, <1>2, <1>3 DEF Torrents!Next

(***************************************************************************)
(* What the command says of the catalogue is true and stays true whatever  *)
(* arrives late; it changed it at most once, from exactly what it had read *)
(* to exactly what it planned, with a record of every operation on disk:   *)
(* for every catalogue, every number of chunks, and any number of changes  *)
(* by others and of restarts.                                              *)
(***************************************************************************)
LEMMA CatalogHonest ==
    Torrents!Init /\ [][Torrents!Next]_CatalogVars => []Torrents!HonestCatalog
<1>1. CatalogInv => Torrents!HonestCatalog
  <2> SUFFICES ASSUME CatalogInv
               PROVE  Torrents!HonestCatalog
    OBVIOUS
  <2>1. Torrents!ExactlyThePlan /\ \A x, y \in torrentsApplied : x = y
    BY DEF CatalogInv, AppliedOnce, Torrents!ExactlyThePlan
  <2>2. torrentsOutcome \in {"failed", "unchanged", "planned", "ready", "pending", "cancelled"} =>
          torrentsApplied = {} /\ ~played
    BY DEF CatalogInv, CatalogReported, NothingDone, LoadingStates
  <2>3. /\ torrentsOutcome = "unchanged" => final = before.doc
        /\ torrentsOutcome = "committed" =>
             (torrentsApplied # {} \/ final = before.doc) /\ (torrentsCommand.with => merged)
        /\ torrentsOutcome = "partial" => torrentsApplied # {} \/ final = before.doc
        /\ torrentsOutcome = "accepted" => played
    BY DEF CatalogInv, CatalogReported
  <2>4. (uploads.state # "none" => "write" \in durable) /\ (played => "play" \in durable)
    BY DEF CatalogInv, SentByPhase
  <2> QED BY <2>1, <2>2, <2>3, <2>4 DEF Torrents!HonestCatalog
<1>2. CatalogInv /\ [Torrents!Next]_CatalogVars => CatalogInv'
  BY CatalogNext
<1> QED BY <1>1, <1>2, CatalogInit, PTL

-----------------------------------------------------------------------------
(* Settings (cli/player_settings.py): a command reads a source at a        *)
(* revision, a page at a time, and writes once, naming what it read.       *)

Writes == {"set", "patch", "add", "remove", "clear"}
SettingsCalls == {"none", "capabilities"} \cup Settings!Reads \cup Writes

SettingsTyped ==
    /\ settingsSource \in Sources
    /\ held \in [Sources -> [items : SUBSET Items, rev : Nat]]
    /\ switching \subseteq [source : Sources, items : SUBSET Items]
    /\ settingsCommand.op \in Settings!Reads \cup Writes
    /\ settingsCommand.values \subseteq Items
    /\ settingsPc \in {"capabilities", "discovering", "reading", "writing", "end"}
    /\ settingsNetwork.op \in SettingsCalls /\ settingsAnswer.op \in SettingsCalls
    /\ settingsNetwork.op = "none" <=> settingsNetwork = Settings!None
    /\ settingsAnswer.op = "none" <=> settingsAnswer = Settings!None

\* What is on its way belongs to the call at work.
SettingsInStep ==
    /\ settingsPc = "reading" =>
         /\ settingsNetwork.op \in {"none", Settings!ReadOf}
         /\ settingsAnswer.op \in {"none", Settings!ReadOf}
    /\ settingsPc = "writing" =>
         /\ settingsCommand.op \in Writes
         /\ settingsNetwork.op \in {"none", settingsCommand.op}
         /\ settingsAnswer.op \in {"none", settingsCommand.op}
    /\ settingsPc \in {"capabilities", "discovering", "reading"}
       \/ settingsCommand.op \in Settings!Reads =>
         /\ settingsApplied = {}
         /\ settingsNetwork.op \notin Writes /\ settingsAnswer.op \notin Writes

\* A write is in one place, and names what was read.
WriteOnce ==
    /\ settingsNetwork.op \in Writes =>
         /\ settingsApplied = {} /\ settingsAnswer = Settings!None
         /\ settingsNetwork.op = settingsCommand.op
         /\ settingsNetwork.values = settingsCommand.values
         /\ settingsNetwork.source = settingsBound.source /\ settingsBound.source \in Sources
         /\ settingsNetwork.rev = settingsBound.rev
    /\ settingsAnswer.op \in Writes =>
         /\ settingsAnswer.is = "ok" =>
              \E w \in settingsApplied : settingsApplied = {w} /\ w.values = settingsAnswer.items
         /\ settingsAnswer.is = "rejected" /\ settingsAnswer.reason # "storage_failed" =>
              settingsApplied = {}

\* What the command reports of its change.
TrueSettingsReports ==
    /\ settingsPc # "end" => settingsOutcome = "none"
    /\ settingsOutcome \in {"unsent", "refused", "read"} =>
         settingsApplied = {} /\ settingsNetwork.op \notin Writes
    /\ settingsOutcome \in {"saved", "saved, not applied"} =>
         /\ settingsNetwork.op \notin Writes
         /\ \E w \in settingsApplied :
              /\ settingsApplied = {w}
              /\ settingsCommand.op \in {"set", "patch"} =>
                   w.values = settingsCommand.values

\* A page was a part of what is held, unless that has changed since.
PageSound ==
    settingsAnswer.is = "ok" /\ settingsAnswer.op \in Settings!Reads =>
      /\ settingsAnswer.source \in Sources
      /\ settingsAnswer.rev \in Nat
      /\ settingsAnswer.rev <= held[settingsAnswer.source].rev

\* The items follow the pages so far, and say whether more follow.
PartOf(all, items, after) ==
    cursor <= Len(all) =>
      /\ cursor + Len(items) <= Len(all)
      /\ Len(items) > 0 \/ cursor = Len(all)
      /\ \A k \in 1..Len(items) : items[k] = all[cursor + k]
      /\ after = IF cursor + Len(items) = Len(all) THEN 0 ELSE cursor + Len(items)

\* A page of a listing that is still current goes on where the command is.
PageCurrent ==
    settingsPc = "reading" /\ settingsCommand.op = "list"
      /\ settingsAnswer.is = "ok" /\ settingsAnswer.op = "list" =>
        /\ settingsAnswer.items \in Seq(Items) /\ settingsAnswer.next \in Nat
        /\ settingsAnswer.rev = held[settingsAnswer.source].rev =>
             PartOf(Settings!Ordered(held[settingsAnswer.source].items),
                    settingsAnswer.items, settingsAnswer.next)

\* So are the pages so far.
BeginsWith(all) ==
    /\ cursor <= Len(all) /\ Len(listed) = cursor
    /\ \A k \in 1..cursor : listed[k] = all[k]

\* They are of one source and revision.
ListedCurrent ==
    /\ settingsPc \in {"capabilities", "discovering"} => listed = <<>> /\ cursor = 0
    /\ settingsPc = "reading" /\ settingsCommand.op = "list" =>
      /\ cursor \in Nat /\ listed \in Seq(Items)
      /\ settingsNetwork.op = "list" => settingsNetwork.cursor = cursor
      /\ ~Settings!Bound => listed = <<>> /\ cursor = 0
      /\ Settings!Bound =>
           /\ settingsBound.source \in Sources /\ settingsBound.rev \in Nat
           /\ settingsBound.rev <= held[settingsBound.source].rev
           /\ settingsBound.rev = held[settingsBound.source].rev =>
                BeginsWith(Settings!Ordered(held[settingsBound.source].items))

SettingsInv ==
    /\ SettingsTyped /\ SettingsInStep /\ WriteOnce /\ TrueSettingsReports /\ PageSound
    /\ PageCurrent /\ ListedCurrent

\* Below, the reads are three calls wherever they are named.
USE DEF Settings!Reads

\* A command begins with nothing asked, and at the first page.
LEMMA SettingsInit ==
    ASSUME Settings!Init
    PROVE  SettingsInv
<1>1. settingsNetwork.op = "none" /\ settingsAnswer.op = "none"
  BY DEF Settings!Init, Settings!None
<1>2. settingsCommand.op \in Settings!Reads \cup Writes /\ settingsCommand.values \subseteq Items
  BY DEF Settings!Init, Settings!Commands, Settings!Write, Writes
<1>3. held \in [Sources -> [items : SUBSET Items, rev : Nat]]
  <2>1. [items : {{i} : i \in Items}, rev : {1}] \subseteq [items : SUBSET Items, rev : Nat]
    OBVIOUS
  <2>2. held \in [Sources -> [items : {{i} : i \in Items}, rev : {1}]]
    BY DEF Settings!Init
  <2> QED BY <2>1, <2>2
<1>4. SettingsTyped
  BY <1>1, <1>2, <1>3 DEF Settings!Init, SettingsTyped, SettingsCalls
<1>5. SettingsInStep /\ WriteOnce /\ TrueSettingsReports /\ PageSound /\ PageCurrent
     /\ ListedCurrent
  BY <1>1 DEF Settings!Init, SettingsInStep, WriteOnce, TrueSettingsReports, PageSound,
     PageCurrent, ListedCurrent,
     Writes
<1> QED BY <1>4, <1>5 DEF SettingsInv

\* What is held changes with its revision.
LEMMA SettingsGrow ==
    ASSUME SettingsTyped, PageSound, PageCurrent, ListedCurrent,
           UNCHANGED <<settingsAnswer, settingsCommand, settingsPc, settingsBound, listed,
                cursor>>,
           settingsNetwork' \in {settingsNetwork, Settings!None},
           held' \in [Sources -> [items : SUBSET Items, rev : Nat]],
           \A s \in Sources : held'[s] = held[s] \/ held'[s].rev > held[s].rev
    PROVE  PageSound' /\ PageCurrent' /\ ListedCurrent'
<1>1. \A s \in Sources : held[s].rev \in Nat /\ held'[s].rev \in Nat
  BY DEF SettingsTyped
<1>2. \A s \in Sources, r \in Nat :
        r <= held[s].rev => r <= held'[s].rev /\ (r = held'[s].rev => held'[s] = held[s])
  BY <1>1
<1>3. PageSound'
  BY <1>2 DEF PageSound
<1>4. PageCurrent'
  BY <1>2 DEF PageSound, PageCurrent, PartOf
<1>5. ListedCurrent'
  <2>1. settingsNetwork'.op = "list" => settingsNetwork' = settingsNetwork
    BY DEF Settings!None
  <2>2. Settings!Bound' = Settings!Bound
    BY DEF Settings!Bound
  <2>3. CASE settingsPc = "reading" /\ settingsCommand.op = "list"
    <3>1. Settings!Bound /\ settingsBound.rev = held'[settingsBound.source].rev =>
            held'[settingsBound.source] = held[settingsBound.source]
      BY <1>2, <2>3 DEF ListedCurrent
    <3>2. Settings!Bound => settingsBound.rev <= held'[settingsBound.source].rev
      BY <1>2, <2>3 DEF ListedCurrent
    <3> QED BY <2>1, <2>2, <2>3, <3>1, <3>2 DEF ListedCurrent, BeginsWith
  <2>4. CASE ~(settingsPc = "reading" /\ settingsCommand.op = "list")
    BY <2>4 DEF ListedCurrent
  <2> QED BY <2>3, <2>4
<1> QED BY <1>3, <1>4, <1>5

\* A step of the world that takes no request.
LEMMA SettingsWorldQuiet ==
    ASSUME SettingsInv, UNCHANGED <<settingsApplied, Settings!client>>,
           settingsSource' \in Sources,
           held' \in [Sources -> [items : SUBSET Items, rev : Nat]],
           \A s \in Sources : held'[s] = held[s] \/ held'[s].rev > held[s].rev,
           switching' \subseteq [source : Sources, items : SUBSET Items],
           settingsNetwork' \in {settingsNetwork, Settings!None},
           settingsAnswer' \in {settingsAnswer, Settings!None}
    PROVE  SettingsInv'
<1> USE DEF Settings!client
<1>0. /\ SettingsTyped /\ SettingsInStep /\ WriteOnce /\ TrueSettingsReports /\ PageSound
      /\ PageCurrent /\ ListedCurrent
  BY DEF SettingsInv
<1>1. Settings!None.op = "none" /\ Settings!None.is = "none" /\ "none" \notin Writes
  BY DEF Settings!None, Writes
<1>2. /\ settingsNetwork' = settingsNetwork \/ settingsNetwork'.op = "none"
      /\ settingsAnswer' = settingsAnswer \/ settingsAnswer'.op = "none"
  BY <1>1
<1>3. SettingsTyped'
  BY <1>0, <1>1 DEF SettingsTyped, SettingsCalls, Writes, Settings!None
<1>4. SettingsInStep'
  BY <1>0, <1>1, <1>2 DEF SettingsInStep, Settings!ReadOf, Writes
<1>5. WriteOnce'
  BY <1>0, <1>1, <1>2 DEF WriteOnce, Writes, Settings!None
<1>6. TrueSettingsReports'
  BY <1>0, <1>1, <1>2 DEF TrueSettingsReports, Writes
<1>7. PageSound' /\ PageCurrent' /\ ListedCurrent'
  <2>1. CASE settingsAnswer' = settingsAnswer
    BY <1>0, <2>1, SettingsGrow
  <2>2. CASE settingsAnswer' = Settings!None
    <3>1. PageSound' /\ PageCurrent'
      BY <1>1, <2>2 DEF PageSound, PageCurrent
    <3>2. ListedCurrent'
      <4>1. \A s \in Sources : held[s].rev \in Nat /\ held'[s].rev \in Nat
        BY <1>0 DEF SettingsTyped
      <4>2. \A s \in Sources, r \in Nat :
              r <= held[s].rev => r <= held'[s].rev /\ (r = held'[s].rev => held'[s] = held[s])
        BY <4>1
      <4>3. Settings!Bound' = Settings!Bound
        BY DEF Settings!Bound
      <4>4. CASE settingsPc = "reading" /\ settingsCommand.op = "list"
        <5>1. Settings!Bound /\ settingsBound.rev = held'[settingsBound.source].rev =>
                held'[settingsBound.source] = held[settingsBound.source]
          BY <1>0, <4>2, <4>4 DEF ListedCurrent
        <5>2. Settings!Bound => settingsBound.rev <= held'[settingsBound.source].rev
          BY <1>0, <4>2, <4>4 DEF ListedCurrent
        <5> QED BY <1>0, <1>2, <4>3, <4>4, <5>1, <5>2 DEF ListedCurrent, BeginsWith
      <4>5. CASE ~(settingsPc = "reading" /\ settingsCommand.op = "list")
        BY <1>0, <4>5 DEF ListedCurrent
      <4> QED BY <4>4, <4>5
    <3> QED BY <3>1, <3>2
  <2> QED BY <2>1, <2>2
<1> QED BY <1>3, <1>4, <1>5, <1>6, <1>7 DEF SettingsInv

\* The items of a set in their order are those items.
LEMMA OrderedSound ==
    ASSUME NEW S, IsFiniteSet(S)
    PROVE  /\ Settings!Ordered(S) \in Seq(S)
           /\ Settings!Range(Settings!Ordered(S)) = S
<1> DEFINE n == Cardinality(S)
           IsOrder(f) == \A i, j \in 1..n : f[i] = f[j] => i = j
           f == CHOOSE f \in [1..n -> S] : Settings!IsInjective(f)
<1>1. n \in Nat /\ Settings!Cardinality(S) = n
  BY FS_CardinalityType DEF Settings!Cardinality, Cardinality
<1>2. PICK g \in Bijection(1..n, S) : TRUE
  BY FS_CardinalityType DEF ExistsBijection
<1>3. g \in [1..n -> S] /\ Settings!IsInjective(g)
  BY <1>2 DEF Bijection, Injection, Surjection, IsInjective, Settings!IsInjective
<1>4. f \in [1..n -> S] /\ Settings!IsInjective(f)
  BY <1>3
<1>5. Settings!Ordered(S) = f
  BY <1>1 DEF Settings!Ordered, Settings!SetToSeq
<1>6. DOMAIN f = 1..n /\ f \in Seq(S) /\ Len(f) = n
  BY <1>1, <1>4
<1>7. f \in Injection(1..n, S)
  BY <1>4 DEF Injection, IsInjective, Settings!IsInjective
<1>8. \A t \in S : \E i \in 1..n : f[i] = t
  <2> HIDE DEF n, f
  <2>1. IsFiniteSet(1..n) /\ Cardinality(1..n) = n
    <3>1. n \in Nat
      BY <1>1
    <3>2. /\ IsFiniteSet(1..n)
          /\ Cardinality(1..n) = IF 1 > n THEN 0 ELSE n - 1 + 1
      BY <3>1, FS_Interval
    <3>3. (IF 1 > n THEN 0 ELSE n - 1 + 1) = n
      BY <3>1
    <3> QED BY <3>2, <3>3
  <2>2. n = Cardinality(S)
    BY DEF n
  <2> QED BY <1>1, <1>7, <2>1, <2>2, FS_Injection DEF Surjection
<1> QED BY <1>4, <1>5, <1>6, <1>8 DEF Settings!Range

\* The player answers, and changes nothing.
LEMMA SettingsAnswers ==
    ASSUME SettingsInv, settingsNetwork # Settings!None, settingsNetwork' = Settings!None,
           UNCHANGED <<settingsSource, held, switching, settingsApplied, Settings!client>>,
           settingsAnswer' # Settings!None, settingsAnswer'.op = settingsNetwork.op,
           \/ settingsNetwork.op = "capabilities"
           \/ settingsAnswer'.is = "rejected"
           \/ /\ settingsNetwork.op \in Settings!Reads
              /\ settingsAnswer'.source = settingsSource
              /\ settingsAnswer'.rev = held[settingsSource].rev
              /\ settingsPc = "reading" /\ settingsCommand.op = "list" =>
                   /\ settingsAnswer'.items \in Seq(Items) /\ settingsAnswer'.next \in Nat
                   /\ PartOf(Settings!Ordered(held[settingsSource].items),
                             settingsAnswer'.items, settingsAnswer'.next)
    PROVE  SettingsInv'
<1> USE DEF Settings!client
<1>0. /\ SettingsTyped /\ SettingsInStep /\ WriteOnce /\ TrueSettingsReports /\ PageSound
      /\ PageCurrent /\ ListedCurrent
  BY DEF SettingsInv
<1>1. /\ Settings!None.op = "none" /\ settingsNetwork.op # "none" /\ settingsNetwork'.op = "none"
      /\ settingsAnswer'.op # "none" /\ "none" \notin Writes /\ "capabilities" \notin Writes
      /\ \A op \in Writes : op \notin Settings!Reads
  BY <1>0 DEF SettingsTyped, Settings!None, Writes
<1>3. SettingsTyped'
  BY <1>0, <1>1 DEF SettingsTyped, SettingsCalls
<1>4. SettingsInStep'
  BY <1>0, <1>1 DEF SettingsInStep, Settings!ReadOf
<1>5. WriteOnce'
  BY <1>0, <1>1 DEF WriteOnce
<1>6. TrueSettingsReports'
  BY <1>0, <1>1 DEF TrueSettingsReports
<1>7. PageSound' /\ PageCurrent'
  <2>1. held[settingsSource].rev \in Nat /\ settingsSource \in Sources
    BY <1>0 DEF SettingsTyped
  <2> QED BY <1>1, <2>1 DEF PageSound, PageCurrent, PartOf
<1>8. ListedCurrent'
  BY <1>0, <1>1 DEF ListedCurrent, Settings!Bound, BeginsWith
<1> QED BY <1>3, <1>4, <1>5, <1>6, <1>7, <1>8 DEF SettingsInv

\* The player stores a write: of the source, and over the revision, that were read.
LEMMA SettingsStored ==
    ASSUME SettingsInv, Settings!SettingsAssumption, settingsNetwork.op \in Writes,
           Settings!Current(settingsNetwork), Settings!Stores(settingsNetwork),
           settingsNetwork' = Settings!None, UNCHANGED <<settingsSource, Settings!client>>,
           settingsAnswer' # Settings!None, settingsAnswer'.op = settingsNetwork.op,
           \/ settingsAnswer'.is = "rejected" /\ settingsAnswer'.reason = "storage_failed"
           \/ settingsAnswer'.is = "ok" /\ settingsAnswer'.items = held'[settingsSource].items
    PROVE  /\ SettingsInv'
           /\ \A w \in settingsApplied' \ settingsApplied :
                w.source = settingsBound.source /\ held[w.source].rev = settingsBound.rev
<1> USE DEF Settings!client
<1>0. /\ SettingsTyped /\ SettingsInStep /\ WriteOnce /\ TrueSettingsReports /\ PageSound
      /\ PageCurrent /\ ListedCurrent
  BY DEF SettingsInv
<1> DEFINE here == held[settingsSource]
           result == Settings!Result(settingsNetwork.op, settingsNetwork.values, here.items)
           stored == [values |-> result, over |-> here.items, source |-> settingsSource]
<1>1. /\ settingsApplied = {} /\ settingsNetwork.values = settingsCommand.values
      /\ settingsNetwork.op = settingsCommand.op
      /\ settingsNetwork.source = settingsBound.source /\ settingsBound.source \in Sources
      /\ settingsNetwork.rev = settingsBound.rev
  BY <1>0 DEF WriteOnce
<1>2. here.items \subseteq Items /\ here.rev \in Nat /\ settingsSource \in Sources
  BY <1>0 DEF SettingsTyped
<1>3. result \subseteq Items
  <2>1. settingsCommand.values \subseteq Items
    BY <1>0 DEF SettingsTyped
  <2> QED BY <1>1, <1>2, <2>1 DEF Settings!Result, Writes
<1>4. /\ settingsApplied' = {stored}
      /\ held' = [held EXCEPT ![settingsSource] = [items |-> result, rev |-> here.rev + 1]]
      /\ switching' \subseteq switching \cup {[source |-> settingsSource, items |-> here.items]}
  BY <1>1 DEF Settings!Stores
<1>5. held' \in [Sources -> [items : SUBSET Items, rev : Nat]]
     /\ held'[settingsSource].items = result
  <2> HIDE DEF result
  <2>1. held \in [Sources -> [items : SUBSET Items, rev : Nat]]
    BY <1>0 DEF SettingsTyped
  <2>2. here.rev + 1 \in Nat
    BY <1>2
  <2> HIDE DEF here
  <2> QED BY <1>2, <1>3, <1>4, <2>1, <2>2
<1>6. /\ Settings!None.op = "none" /\ settingsNetwork'.op = "none" /\ "none" \notin Writes
      /\ settingsAnswer'.op # "none" /\ settingsAnswer'.op \notin Settings!Reads
  BY DEF Settings!None, Writes
<1>7. SettingsTyped'
  <2>1. switching' \subseteq [source : Sources, items : SUBSET Items]
    BY <1>0, <1>2, <1>4 DEF SettingsTyped
  <2> QED BY <1>0, <1>5, <1>6, <2>1 DEF SettingsTyped, SettingsCalls
<1>8. /\ settingsPc \notin {"capabilities", "discovering", "reading"}
      /\ settingsCommand.op \notin Settings!Reads
  BY <1>0 DEF SettingsInStep
<1>9. SettingsInStep'
  BY <1>0, <1>1, <1>6, <1>8 DEF SettingsInStep
<1>10. WriteOnce'
  <2>1. stored.values = result
    OBVIOUS
  <2> HIDE DEF stored, result
  <2> QED BY <1>4, <1>5, <1>6, <2>1 DEF WriteOnce
<1>11. TrueSettingsReports'
  BY <1>0, <1>6 DEF TrueSettingsReports
<1>12. PageSound' /\ PageCurrent' /\ ListedCurrent'
  BY <1>6, <1>8 DEF PageSound, PageCurrent, ListedCurrent
<1>13. stored.source = settingsBound.source /\ held[stored.source].rev = settingsBound.rev
  <2>1. settingsSource = settingsBound.source
    BY <1>1 DEF Settings!Current, Settings!SettingsAssumption
  <2> QED BY <1>1, <2>1 DEF Settings!Current
<1> HIDE DEF stored
<1> QED BY <1>4, <1>7, <1>9, <1>10, <1>11, <1>12, <1>13 DEF SettingsInv

\* A write that is new is one of what was read, and over that.
WrittenAsSeen ==
    \A w \in settingsApplied' \ settingsApplied :
      w.source = settingsBound.source /\ held[w.source].rev = settingsBound.rev

\* The player answers with a page of what it holds.
LEMMA SettingsTakePage ==
    ASSUME SettingsInv, Settings!SettingsAssumption, settingsNetwork.op \in Settings!Reads,
           Settings!TakeRead(settingsNetwork), settingsNetwork' = Settings!None,
           UNCHANGED <<settingsSource, Settings!client>>
    PROVE  SettingsInv' /\ UNCHANGED settingsApplied
<1>0. SettingsTyped /\ ListedCurrent
  BY DEF SettingsInv
<1>1. settingsNetwork # Settings!None /\ Settings!None.op = "none"
  BY DEF Settings!None
<1>2. CASE settingsNetwork.runtime # settingsRuntime
  <2>1. /\ settingsAnswer'.is = "rejected" /\ settingsAnswer'.op = settingsNetwork.op
        /\ UNCHANGED <<held, switching, settingsApplied>>
    BY <1>2 DEF Settings!TakeRead, Settings!Refuses
  <2>2. settingsAnswer' # Settings!None
    BY <1>1, <2>1
  <2> QED BY <1>1, <2>1, <2>2, SettingsAnswers
<1>3. CASE settingsNetwork.runtime = settingsRuntime
  <2> DEFINE all == Settings!Ordered(held[settingsSource].items)
             from == settingsNetwork.cursor
             upto == IF from + PageSize < Len(all) THEN from + PageSize ELSE Len(all)
             page == SubSeq(all, from + 1, upto)
             after == IF upto < Len(all) THEN upto ELSE 0
  <2>1. /\ settingsAnswer' = [is |-> "ok", op |-> settingsNetwork.op, source |-> settingsSource,
                              rev |-> held[settingsSource].rev, items |-> page,
                              total |-> Len(all), next |-> after]
        /\ UNCHANGED <<held, switching, settingsApplied>>
    BY <1>3 DEF Settings!TakeRead
  <2>2. settingsPc = "reading" /\ settingsCommand.op = "list" =>
          page \in Seq(Items) /\ after \in Nat /\ PartOf(all, page, after)
    <3> SUFFICES ASSUME settingsPc = "reading", settingsCommand.op = "list"
                 PROVE  page \in Seq(Items) /\ after \in Nat /\ PartOf(all, page, after)
      OBVIOUS
    <3>1. settingsNetwork.op = "list"
      BY DEF SettingsInv, SettingsInStep, Settings!ReadOf
    <3>2. from = cursor /\ cursor \in Nat /\ PageSize \in Nat \ {0}
      BY <1>0, <3>1 DEF ListedCurrent, Settings!SettingsAssumption
    <3>3. all \in Seq(Items)
      <4>1. held[settingsSource].items \subseteq Items
        BY <1>0 DEF SettingsTyped
      <4>2. IsFiniteSet(held[settingsSource].items)
        <5>1. IsFiniteSet(Items)
          BY DEF Settings!SettingsAssumption, Settings!IsFiniteSet, IsFiniteSet
        <5> QED BY <4>1, <5>1, FS_Subset
      <4>3. all \in Seq(held[settingsSource].items)
        BY <4>2, OrderedSound
      <4> HIDE DEF all
      <4> QED BY <4>1, <4>3
    <3> HIDE DEF all, from
    <3>4. Len(all) \in Nat /\ upto \in Nat /\ upto <= Len(all)
      BY <3>2, <3>3
    <3>5. page \in Seq(Items) /\ Len(page) = IF from + 1 <= upto THEN upto - from ELSE 0
      BY <3>2, <3>3, <3>4
    <3>6. \A k \in 1..Len(page) : page[k] = all[cursor + k]
      BY <3>2, <3>3, <3>4, <3>5
    <3>7. cursor <= Len(all) => cursor <= upto /\ Len(page) = upto - cursor
      BY <3>2, <3>4, <3>5
    <3>8. cursor < Len(all) => cursor < upto
      BY <3>2, <3>4
    <3> HIDE DEF page
    <3> QED BY <3>2, <3>4, <3>5, <3>6, <3>7, <3>8 DEF PartOf
  <2> HIDE DEF page, after, all
  <2>3. settingsAnswer' # Settings!None /\ settingsAnswer'.op = settingsNetwork.op
    BY <1>1, <2>1
  <2> QED BY <1>1, <2>1, <2>2, <2>3, SettingsAnswers DEF all
<1> QED BY <1>2, <1>3

\* The player takes a request.
LEMMA SettingsTakeStep ==
    ASSUME SettingsInv, Settings!SettingsAssumption, Settings!Take
    PROVE  SettingsInv' /\ WrittenAsSeen
<1> DEFINE request == settingsNetwork
<1>1. /\ settingsNetwork # Settings!None /\ settingsNetwork' = Settings!None
      /\ UNCHANGED <<settingsSource, Settings!client>> /\ Settings!None.op = "none"
  BY DEF Settings!Take, Settings!None
<1>2. request.op \in {"capabilities"} \cup Settings!Reads \cup Writes
  BY <1>1 DEF SettingsInv, SettingsTyped, SettingsCalls
<1>3. CASE request.op = "capabilities"
  <2>1. /\ settingsAnswer'.op = "capabilities"
        /\ UNCHANGED <<held, switching, settingsApplied>>
    BY <1>3 DEF Settings!Take
  <2>2. settingsAnswer' # Settings!None
    BY <1>1, <2>1
  <2>3. WrittenAsSeen
    BY <2>1 DEF WrittenAsSeen
  <2> QED BY <1>1, <1>3, <2>1, <2>2, <2>3, SettingsAnswers
<1>4. CASE request.op \in Settings!Reads
  <2>1. Settings!TakeRead(request)
    BY <1>4 DEF Settings!Take
  <2>2. SettingsInv' /\ UNCHANGED settingsApplied
    BY <1>1, <1>4, <2>1, SettingsTakePage
  <2> QED BY <2>2 DEF WrittenAsSeen
<1>5. CASE request.op \in Writes
  <2>1. Settings!TakeWrite(request)
    BY <1>5 DEF Settings!Take, Writes
  <2>2. ASSUME NEW reason, Settings!Refuses(request, reason) PROVE SettingsInv' /\ WrittenAsSeen
    <3>1. /\ settingsAnswer'.is = "rejected" /\ settingsAnswer'.op = request.op
          /\ UNCHANGED <<held, switching, settingsApplied>>
      BY <2>2 DEF Settings!Refuses
    <3>2. settingsAnswer' # Settings!None
      BY <1>1, <1>5, <3>1 DEF Writes
    <3>3. WrittenAsSeen
      BY <3>1 DEF WrittenAsSeen
    <3> QED BY <1>1, <3>1, <3>2, <3>3, SettingsAnswers
  <2>3. CASE request.runtime # settingsRuntime
    BY <2>1, <2>2, <2>3 DEF Settings!TakeWrite
  <2>4. CASE request.runtime = settingsRuntime /\ ~Settings!Current(request)
    BY <2>1, <2>2, <2>4 DEF Settings!TakeWrite
  <2>5. CASE request.runtime = settingsRuntime /\ Settings!Current(request)
    <3>1. \/ \E reason : Settings!Refuses(request, reason)
          \/ /\ Settings!Stores(request)
             /\ settingsAnswer' = [is |-> "rejected", op |-> request.op,
                                   reason |-> "storage_failed"]
          \/ /\ Settings!Stores(request)
             /\ \E state \in Settings!States(request) :
                  settingsAnswer' = [is |-> "ok", op |-> request.op, state |-> state,
                                     items |-> held'[settingsSource].items,
                                     source |-> settingsSource,
                                     rev |-> held'[settingsSource].rev]
      BY <2>1, <2>5 DEF Settings!TakeWrite
    <3>2. CASE Settings!Stores(request) /\ settingsAnswer'.op = request.op
               /\ \/ settingsAnswer'.is = "rejected" /\ settingsAnswer'.reason = "storage_failed"
                  \/ settingsAnswer'.is = "ok"
                     /\ settingsAnswer'.items = held'[settingsSource].items
      <4>1. settingsAnswer' # Settings!None
        BY <1>1, <1>5, <3>2 DEF Writes
      <4> QED BY <1>1, <1>5, <2>5, <3>2, <4>1, SettingsStored DEF WrittenAsSeen
    <3> QED BY <2>2, <3>1, <3>2
  <2> QED BY <2>3, <2>4, <2>5
<1> QED BY <1>2, <1>3, <1>4, <1>5

\* The command ends, and nothing of it is on its way that was not.
LEMMA SettingsEnds ==
    ASSUME SettingsInv, settingsPc # "end", NEW word, Settings!Ends(word),
           UNCHANGED <<Settings!player, settingsCommand, settingsNetwork>>,
           settingsAnswer' \in {settingsAnswer, Settings!None},
           word \in {"unsent", "refused", "read"} =>
             settingsApplied = {} /\ settingsNetwork.op \notin Writes,
           word \in {"saved", "saved, not applied"} =>
             /\ settingsNetwork.op \notin Writes
             /\ \E w \in settingsApplied :
                  /\ settingsApplied = {w}
                  /\ settingsCommand.op \in {"set", "patch"} =>
                       w.values = settingsCommand.values,
           settingsNetwork.op \in Writes => UNCHANGED settingsBound
    PROVE  SettingsInv'
<1> USE DEF Settings!player
<1>0. /\ SettingsTyped /\ SettingsInStep /\ WriteOnce /\ TrueSettingsReports /\ PageSound
      /\ PageCurrent /\ ListedCurrent
  BY DEF SettingsInv
<1>1. /\ settingsPc' = "end" /\ settingsOutcome' = word
      /\ Settings!None.op = "none" /\ "none" \notin Writes
      /\ settingsAnswer' = settingsAnswer \/ settingsAnswer' = Settings!None
  BY DEF Settings!Ends, Settings!None, Writes
<1>2. SettingsTyped'
  BY <1>0, <1>1 DEF SettingsTyped, SettingsCalls
<1>3. SettingsInStep'
  BY <1>0, <1>1 DEF SettingsInStep
<1>4. WriteOnce'
  BY <1>0, <1>1 DEF WriteOnce
<1>5. TrueSettingsReports'
  BY <1>1 DEF TrueSettingsReports
<1>6. PageSound' /\ PageCurrent' /\ ListedCurrent'
  BY <1>0, <1>1 DEF PageSound, PageCurrent, ListedCurrent, Writes
<1> QED BY <1>2, <1>3, <1>4, <1>5, <1>6 DEF SettingsInv

\* The command asks for capabilities, or for a page.
LEMMA SettingsAsks ==
    ASSUME SettingsInv, settingsPc \in {"capabilities", "discovering", "reading"},
           NEW request, Settings!Send(request, settingsPc'),
           UNCHANGED <<Settings!player, settingsCommand>>,
           \/ request.op = "capabilities" /\ settingsPc' = "discovering"
           \/ request.op = Settings!ReadOf /\ settingsPc' = "reading",
           ListedCurrent'
    PROVE  SettingsInv'
<1> USE DEF Settings!player
<1>0. /\ SettingsTyped /\ SettingsInStep /\ WriteOnce /\ TrueSettingsReports /\ PageSound
      /\ PageCurrent /\ ListedCurrent
  BY DEF SettingsInv
<1>1. /\ settingsNetwork' = request /\ settingsAnswer' = Settings!None
      /\ UNCHANGED settingsOutcome
      /\ Settings!None.op = "none" /\ Settings!None.is = "none" /\ "none" \notin Writes
  BY DEF Settings!Send, Settings!None, Writes
<1>2. /\ request.op \in SettingsCalls \ Writes /\ request.op # "none" /\ request # Settings!None
      /\ settingsApplied = {}
  BY <1>0, <1>1 DEF SettingsInStep, SettingsTyped, Settings!ReadOf, SettingsCalls, Writes
<1>3. SettingsTyped'
  BY <1>0, <1>1, <1>2 DEF SettingsTyped, SettingsCalls
<1>4. SettingsInStep'
  BY <1>0, <1>1, <1>2 DEF SettingsInStep, Settings!ReadOf
<1>5. WriteOnce' /\ TrueSettingsReports' /\ PageSound' /\ PageCurrent'
  BY <1>0, <1>1, <1>2 DEF WriteOnce, TrueSettingsReports, PageSound, PageCurrent
<1> QED BY <1>3, <1>4, <1>5 DEF SettingsInv

\* A step that neither writes nor ends a listing sees everything.
LEMMA NothingToSee ==
    ASSUME UNCHANGED settingsApplied,
           settingsOutcome' = settingsOutcome \/ settingsOutcome' # "read"
    PROVE  Settings!NothingUnseen
BY DEF Settings!NothingUnseen

\* A page goes on where the pages so far end.
LEMMA PageFollows ==
    ASSUME SettingsInv, settingsPc = "reading", settingsCommand.op = "list",
           settingsAnswer.is = "ok", settingsAnswer.op = "list", Settings!SameListing,
           settingsAnswer.rev = held[settingsAnswer.source].rev,
           NEW all, all = Settings!Ordered(held[settingsAnswer.source].items), all \in Seq(Items),
           NEW joined, joined = listed \o settingsAnswer.items
    PROVE  /\ joined \in Seq(Items) /\ Len(joined) <= Len(all)
           /\ \A k \in 1..Len(joined) : joined[k] = all[k]
           /\ settingsAnswer.next = IF Len(joined) = Len(all) THEN 0 ELSE Len(joined)
           /\ Len(joined) = 0 => Len(all) = 0
<1> DEFINE items == settingsAnswer.items
<1>1. /\ items \in Seq(Items) /\ PartOf(all, items, settingsAnswer.next)
      /\ cursor \in Nat /\ listed \in Seq(Items)
  BY DEF SettingsInv, PageCurrent, ListedCurrent
<1>2. BeginsWith(all)
  <2>1. CASE Settings!Bound
    <3>1. settingsAnswer.source = settingsBound.source /\ settingsAnswer.rev = settingsBound.rev
      BY <2>1 DEF Settings!SameListing
    <3> QED BY <2>1, <3>1 DEF SettingsInv, ListedCurrent
  <2>2. CASE ~Settings!Bound
    <3>1. listed = <<>> /\ cursor = 0
      BY <2>2 DEF SettingsInv, ListedCurrent
    <3>2. Len(all) \in Nat
      OBVIOUS
    <3> QED BY <3>1, <3>2 DEF BeginsWith
  <2> QED BY <2>1, <2>2
<1> HIDE DEF items
<1>3. /\ joined \in Seq(Items) /\ Len(joined) = cursor + Len(items) /\ Len(listed) = cursor
      /\ Len(items) \in Nat /\ Len(all) \in Nat
  <2>1. joined = listed \o items /\ Len(listed) = cursor
    BY <1>2 DEF BeginsWith, items
  <2>2. listed \in Seq(Items) /\ items \in Seq(Items)
    BY <1>1
  <2>3. joined \in Seq(Items) /\ Len(joined) = Len(listed) + Len(items)
    <3>1. \A s, t \in Seq(Items) : s \o t \in Seq(Items) /\ Len(s \o t) = Len(s) + Len(t)
      OBVIOUS
    <3> QED BY <2>1, <2>2, <3>1
  <2>4. Len(all) \in Nat /\ Len(items) \in Nat
    BY <2>2
  <2> QED BY <2>1, <2>3, <2>4
<1>4. /\ cursor <= Len(all) /\ cursor + Len(items) <= Len(all)
      /\ Len(items) > 0 \/ cursor = Len(all)
      /\ \A k \in 1..Len(items) : items[k] = all[cursor + k]
      /\ settingsAnswer.next = IF cursor + Len(items) = Len(all) THEN 0 ELSE cursor + Len(items)
  BY <1>1, <1>2 DEF BeginsWith, PartOf
<1>5. ASSUME NEW k \in 1..Len(joined) PROVE joined[k] = all[k]
  <2>1. CASE k <= cursor
    <3>1. joined[k] = listed[k]
      BY <1>1, <1>3, <2>1 DEF items
    <3> QED BY <1>2, <1>3, <2>1, <3>1 DEF BeginsWith
  <2>2. CASE k > cursor
    <3>1. k - cursor \in 1..Len(items)
      BY <1>1, <1>3, <2>2
    <3>2. joined[k] = items[k - cursor]
      BY <1>1, <1>3, <2>2 DEF items
    <3>3. cursor + (k - cursor) = k
      BY <1>1
    <3> QED BY <1>4, <3>1, <3>2, <3>3
  <2> QED BY <1>1, <2>1, <2>2
<1>6. Len(joined) = 0 => Len(all) = 0
  BY <1>1, <1>3, <1>4
<1> QED BY <1>3, <1>4, <1>5, <1>6

\* A page ends the listing, or the command asks for the next one.
LEMMA ReadPageStep ==
    ASSUME SettingsInv, Settings!SettingsAssumption, Settings!ReadPage
    PROVE  SettingsInv' /\ Settings!NothingUnseen
<1> DEFINE all == Settings!Ordered(held[settingsAnswer.source].items)
           joined == listed \o settingsAnswer.items
           current == settingsAnswer.rev = held[settingsAnswer.source].rev
           ends == settingsCommand.op = "get" \/ settingsAnswer.next = 0
<1>1. /\ settingsPc = "reading" /\ settingsCommand.op \in Settings!Reads
      /\ settingsAnswer.is = "ok" /\ settingsAnswer.op = settingsCommand.op
      /\ UNCHANGED <<Settings!player, settingsCommand>>
  BY DEF Settings!ReadPage, Settings!ReadOf
<1>2. /\ settingsApplied = {} /\ settingsNetwork.op \notin Writes
      /\ UNCHANGED <<settingsApplied, held>>
  BY <1>1 DEF SettingsInv, SettingsInStep, Settings!player
<1>3. /\ settingsAnswer.source \in Sources /\ settingsAnswer.rev \in Nat
      /\ settingsAnswer.rev <= held[settingsAnswer.source].rev
  BY <1>1 DEF SettingsInv, PageSound
<1>4. all \in Seq(Items) /\ Settings!Range(all) = held[settingsAnswer.source].items
  <2>1. held[settingsAnswer.source].items \subseteq Items
    BY <1>3 DEF SettingsInv, SettingsTyped
  <2>2. IsFiniteSet(Items)
    BY DEF Settings!SettingsAssumption, Settings!IsFiniteSet, IsFiniteSet
  <2>3. /\ all \in Seq(held[settingsAnswer.source].items)
        /\ Settings!Range(all) = held[settingsAnswer.source].items
    BY <2>1, <2>2, FS_Subset, OrderedSound
  <2> HIDE DEF all
  <2> QED BY <2>1, <2>3
<1>5. settingsCommand.op = "list" /\ Settings!SameListing /\ current =>
        /\ joined \in Seq(Items) /\ Len(joined) <= Len(all)
        /\ \A k \in 1..Len(joined) : joined[k] = all[k]
        /\ settingsAnswer.next = IF Len(joined) = Len(all) THEN 0 ELSE Len(joined)
        /\ Len(joined) = 0 => Len(all) = 0
  BY <1>1, <1>4, PageFollows
<1> HIDE DEF all, joined
<1>6. CASE ~Settings!SameListing \/ (settingsCommand.op = "list" /\ ~Settings!Fits)
  <2>1. /\ Settings!Ends("unsent") /\ settingsAnswer' = Settings!None
        /\ UNCHANGED settingsNetwork
    BY <1>6 DEF Settings!ReadPage
  <2>2. SettingsInv'
    BY <1>1, <1>2, <2>1, SettingsEnds
  <2> QED BY <1>2, <2>1, <2>2, NothingToSee DEF Settings!Ends
<1>7. CASE Settings!SameListing /\ ~(settingsCommand.op = "list" /\ ~Settings!Fits)
  <2>1. /\ settingsBound' = [runtime |-> settingsBound.runtime, source |-> settingsAnswer.source,
                             rev |-> settingsAnswer.rev, total |-> settingsAnswer.total]
        /\ listed' = joined /\ cursor' = settingsAnswer.next
        /\ IF ends
           THEN /\ IF settingsCommand.op = "list" /\ Len(listed') # settingsAnswer.total
                   THEN Settings!Ends("unsent") ELSE Settings!Ends("read")
                /\ settingsAnswer' = Settings!None /\ UNCHANGED settingsNetwork
           ELSE Settings!Ask(settingsBound.runtime, settingsAnswer.next)
    BY <1>7 DEF Settings!ReadPage, joined
  <2>2. settingsBound'.source = settingsAnswer.source /\ settingsBound'.rev = settingsAnswer.rev
    BY <2>1
  <2>3. CASE ends
    <3>1. PICK word \in {"unsent", "read"} : Settings!Ends(word)
      BY <2>1, <2>3
    <3>2. settingsAnswer' = Settings!None /\ UNCHANGED settingsNetwork
      BY <2>1, <2>3
    <3>3. SettingsInv'
      BY <1>1, <1>2, <3>1, <3>2, SettingsEnds
    <3>4. ASSUME settingsCommand.op = "list",
                 held[settingsBound'.source].rev = settingsBound'.rev
          PROVE  Settings!Range(listed') = held[settingsBound'.source].items
      <4>1. /\ joined \in Seq(Items) /\ Len(joined) <= Len(all)
            /\ \A k \in 1..Len(joined) : joined[k] = all[k]
            /\ settingsAnswer.next = IF Len(joined) = Len(all) THEN 0 ELSE Len(joined)
            /\ Len(joined) = 0 => Len(all) = 0
        BY <1>5, <1>7, <2>2, <3>4
      <4>2. settingsAnswer.next = 0
        BY <2>3, <3>4
      <4>3. Len(joined) = Len(all)
        BY <1>4, <4>1, <4>2
      <4>4. Settings!Range(joined) = Settings!Range(all)
        BY <1>4, <4>1, <4>3 DEF Settings!Range
      <4> QED BY <1>4, <2>1, <2>2, <4>4
    <3> QED BY <1>2, <3>3, <3>4 DEF Settings!NothingUnseen
  <2>4. CASE ~ends
    <3>1. /\ Settings!Ask(settingsBound.runtime, settingsAnswer.next)
          /\ settingsCommand.op # "get" /\ settingsAnswer.next # 0
      BY <2>1, <2>4
    <3>2. /\ settingsPc' = "reading" /\ UNCHANGED settingsOutcome
          /\ settingsNetwork' = [op |-> Settings!ReadOf, runtime |-> settingsBound.runtime,
                                 cursor |-> settingsAnswer.next]
      BY <3>1 DEF Settings!Ask, Settings!Send
    <3>3. ListedCurrent'
      <4> SUFFICES ASSUME settingsCommand.op = "list" PROVE ListedCurrent'
        BY <1>1, <3>2 DEF ListedCurrent, Settings!player
      <4>1. settingsAnswer.items \in Seq(Items) /\ settingsAnswer.next \in Nat
            /\ listed \in Seq(Items)
        BY <1>1 DEF SettingsInv, PageCurrent, ListedCurrent
      <4>2. joined \in Seq(Items)
        BY <4>1 DEF joined
      <4>3. Settings!Bound'
        BY <2>1 DEF Settings!Bound
      <4>4. settingsBound'.rev = held'[settingsBound'.source].rev =>
              BeginsWith(Settings!Ordered(held[settingsBound.source].items))'
        <5> SUFFICES ASSUME current
                     PROVE  BeginsWith(Settings!Ordered(held[settingsBound.source].items))'
          BY <1>2, <2>2
        <5>1. /\ Len(joined) <= Len(all) /\ settingsAnswer.next = Len(joined)
              /\ \A k \in 1..Len(joined) : joined[k] = all[k]
          BY <1>5, <1>7, <3>1
        <5>2. Settings!Ordered(held[settingsBound.source].items)' = all
          BY <1>2, <2>2 DEF all
        <5> QED BY <2>1, <5>1, <5>2 DEF BeginsWith
      <4>5. settingsNetwork'.cursor = cursor'
        BY <2>1, <3>2
      <4> QED BY <1>2, <1>3, <2>1, <2>2, <3>2, <4>1, <4>2, <4>3, <4>4, <4>5 DEF ListedCurrent
    <3>4. SettingsInv'
      <4> DEFINE request == [op |-> Settings!ReadOf, runtime |-> settingsBound.runtime,
                             cursor |-> settingsAnswer.next]
      <4>1. Settings!Send(request, settingsPc') /\ request.op = Settings!ReadOf
        BY <3>1, <3>2 DEF Settings!Ask
      <4> HIDE DEF request
      <4> QED BY <1>1, <3>2, <3>3, <4>1, SettingsAsks
    <3> QED BY <1>2, <3>2, <3>4, NothingToSee
  <2> QED BY <2>3, <2>4
<1> QED BY <1>6, <1>7

\* The command binds itself to what it read, and writes.
LEMMA ReadFirstStep ==
    ASSUME SettingsInv, Settings!ReadFirst
    PROVE  SettingsInv' /\ Settings!NothingUnseen
<1>0. /\ SettingsTyped /\ SettingsInStep /\ WriteOnce /\ TrueSettingsReports /\ PageSound
      /\ PageCurrent /\ ListedCurrent
  BY DEF SettingsInv
<1>1. /\ settingsPc = "reading" /\ settingsCommand.op \notin Settings!Reads
      /\ settingsAnswer.is = "ok" /\ settingsAnswer.op = Settings!ReadOf
      /\ UNCHANGED <<Settings!player, settingsCommand, listed, cursor, settingsOutcome>>
      /\ settingsBound' = [runtime |-> settingsBound.runtime, source |-> settingsAnswer.source,
                           rev |-> settingsAnswer.rev]
      /\ settingsNetwork' = Settings!Request /\ settingsAnswer' = Settings!None
      /\ settingsPc' = "writing"
  BY DEF Settings!ReadFirst, Settings!Send
<1>2. settingsCommand.op \in Writes /\ Settings!ReadOf \in Settings!Reads
  BY <1>0, <1>1 DEF SettingsTyped, Settings!ReadOf
<1>3. /\ Settings!None.op = "none" /\ "none" \notin Writes /\ Settings!None.is = "none"
      /\ \A op \in Writes : op \notin Settings!Reads
  BY DEF Settings!None, Writes
<1>4. /\ settingsNetwork'.op = settingsCommand.op
      /\ settingsNetwork'.values = settingsCommand.values
      /\ settingsNetwork'.source = settingsAnswer.source
      /\ settingsNetwork'.rev = settingsAnswer.rev
      /\ settingsBound'.source = settingsAnswer.source /\ settingsBound'.rev = settingsAnswer.rev
  BY <1>1 DEF Settings!Request
<1>5. settingsAnswer.source \in Sources /\ settingsApplied = {} /\ settingsOutcome = "none"
  BY <1>0, <1>1, <1>2 DEF PageSound, SettingsInStep, TrueSettingsReports
<1>6. SettingsTyped'
  <2>1. settingsNetwork' # Settings!None
    BY <1>2, <1>3, <1>4
  <2> QED BY <1>0, <1>1, <1>2, <1>3, <1>4, <2>1 DEF SettingsTyped, SettingsCalls, Settings!player
<1>7. SettingsInStep'
  BY <1>1, <1>2, <1>3, <1>4 DEF SettingsInStep, Settings!player
<1>8. WriteOnce'
  BY <1>1, <1>3, <1>4, <1>5 DEF WriteOnce, Settings!player
<1>9. TrueSettingsReports'
  BY <1>1, <1>5 DEF TrueSettingsReports
<1>10. PageSound' /\ PageCurrent' /\ ListedCurrent'
  BY <1>1, <1>3 DEF PageSound, PageCurrent, ListedCurrent
<1>11. Settings!NothingUnseen
  BY <1>1, NothingToSee DEF Settings!player
<1> QED BY <1>6, <1>7, <1>8, <1>9, <1>10, <1>11 DEF SettingsInv

\* The other steps of the command.
LEMMA SettingsCommandStep ==
    ASSUME SettingsInv,
           \/ Settings!Discover \/ Settings!Discovered \/ Settings!NotAcceptable
           \/ Settings!Wrote \/ Settings!Refused \/ Settings!GiveUp
    PROVE  SettingsInv' /\ Settings!NothingUnseen
<1>0. /\ SettingsTyped /\ SettingsInStep /\ WriteOnce /\ TrueSettingsReports /\ ListedCurrent
  BY DEF SettingsInv
<1>a. settingsPc \in {"capabilities", "discovering", "reading"} =>
        settingsApplied = {} /\ settingsNetwork.op \notin Writes
  BY <1>0 DEF SettingsInStep
<1>b. settingsAnswer # Settings!None => settingsAnswer.op # "none"
  BY <1>0 DEF SettingsTyped
<1>c. UNCHANGED Settings!player => UNCHANGED settingsApplied
  BY DEF Settings!player
<1>1. CASE Settings!Discover
  <2> DEFINE request == [op |-> "capabilities"]
  <2>1. /\ settingsPc = "capabilities" /\ Settings!Send(request, "discovering")
        /\ UNCHANGED <<Settings!player, settingsCommand, settingsBound, listed, cursor>>
        /\ request.op = "capabilities" /\ settingsPc' = "discovering" /\ UNCHANGED settingsOutcome
    BY <1>1 DEF Settings!Discover, Settings!Send
  <2>2. ListedCurrent'
    BY <1>0, <2>1 DEF ListedCurrent
  <2> HIDE DEF request
  <2> QED BY <1>c, <2>1, <2>2, SettingsAsks, NothingToSee
<1>2. CASE Settings!Discovered
  <2>1. /\ settingsPc = "discovering"
        /\ settingsBound' = [runtime |-> settingsAnswer.runtime]
        /\ UNCHANGED <<Settings!player, settingsCommand, listed, cursor>>
    BY <1>2 DEF Settings!Discovered
  <2>2. CASE Settings!Ask(settingsAnswer.runtime, 0)
    <3> DEFINE request == [op |-> Settings!ReadOf, runtime |-> settingsAnswer.runtime,
                           cursor |-> 0]
    <3>1. /\ Settings!Send(request, "reading") /\ request.op = Settings!ReadOf
          /\ request.cursor = 0
      BY <2>2 DEF Settings!Ask
    <3>2. settingsPc' = "reading" /\ UNCHANGED settingsOutcome /\ settingsNetwork' = request
      BY <3>1 DEF Settings!Send
    <3>3. ~Settings!Bound'
      BY <2>1 DEF Settings!Bound
    <3> HIDE DEF request
    <3>4. ListedCurrent'
      BY <1>0, <2>1, <3>1, <3>2, <3>3 DEF ListedCurrent
    <3> QED BY <1>c, <2>1, <3>1, <3>2, <3>4, SettingsAsks, NothingToSee
  <2>3. CASE Settings!Ends("unsent") /\ settingsAnswer' = Settings!None
             /\ UNCHANGED settingsNetwork
    <3>1. SettingsInv'
      BY <1>a, <2>1, <2>3, SettingsEnds
    <3> QED BY <1>c, <2>1, <2>3, <3>1, NothingToSee DEF Settings!Ends
  <2> QED BY <1>2, <2>2, <2>3 DEF Settings!Discovered
<1>3. CASE Settings!NotAcceptable
  <2>1. /\ settingsPc = "reading" /\ Settings!Ends("unsent")
        /\ settingsAnswer' = Settings!None
        /\ UNCHANGED <<Settings!player, settingsCommand, settingsNetwork>>
    BY <1>3 DEF Settings!NotAcceptable
  <2>2. SettingsInv'
    BY <1>a, <2>1, SettingsEnds
  <2> QED BY <1>c, <2>1, <2>2, NothingToSee DEF Settings!Ends
<1>4. CASE Settings!Wrote
  <2>1. /\ settingsPc = "writing" /\ settingsAnswer # Settings!None /\ settingsAnswer.is = "ok"
        /\ settingsAnswer.op = settingsCommand.op /\ settingsAnswer' = Settings!None
        /\ UNCHANGED <<Settings!player, settingsCommand, settingsNetwork, settingsBound>>
    BY <1>4 DEF Settings!Wrote
  <2>2. PICK word \in {"inspect", "saved", "saved, not applied"} :
          Settings!Ends(word) /\ (word # "inspect" => Settings!Confirmed)
    BY <1>4 DEF Settings!Wrote
  <2>3. settingsCommand.op \in Writes /\ settingsNetwork.op \notin Writes
    BY <1>0, <2>1 DEF SettingsInStep, WriteOnce
  <2>4. PICK w \in settingsApplied : settingsApplied = {w} /\ w.values = settingsAnswer.items
    BY <1>0, <2>1, <2>3 DEF WriteOnce
  <2>5. Settings!Confirmed /\ settingsCommand.op \in {"set", "patch"} =>
          settingsAnswer.items = settingsCommand.values
    BY DEF Settings!Confirmed, Settings!SettingConfirmed, Settings!GroupConfirmed
  <2>6. SettingsInv'
    BY <2>1, <2>2, <2>3, <2>4, <2>5, SettingsEnds
  <2> QED BY <1>c, <2>1, <2>2, <2>6, NothingToSee DEF Settings!Ends
<1>5. CASE Settings!Refused
  <2>1. /\ settingsPc \in {"reading", "writing"} /\ settingsAnswer # Settings!None
        /\ settingsAnswer.is = "rejected" /\ settingsAnswer' = Settings!None
        /\ Settings!Ends(Settings!Refusal(settingsAnswer.reason))
        /\ UNCHANGED <<Settings!player, settingsCommand, settingsNetwork, settingsBound>>
    BY <1>5 DEF Settings!Refused
  <2>2. PICK word \in {"unverified", "refused"} :
          /\ Settings!Ends(word)
          /\ word = "refused" => settingsAnswer.reason # "storage_failed"
    BY <2>1 DEF Settings!Refusal
  <2>3. word = "refused" => settingsApplied = {} /\ settingsNetwork.op \notin Writes
    <3>1. CASE settingsPc = "reading"
      BY <1>a, <3>1
    <3>2. CASE settingsPc = "writing"
      <4>1. settingsAnswer.op \in Writes
        BY <1>0, <1>b, <2>1, <3>2 DEF SettingsInStep
      <4> QED BY <1>0, <2>1, <2>2, <4>1 DEF WriteOnce
    <3> QED BY <2>1, <3>1, <3>2
  <2>4. SettingsInv'
    BY <2>1, <2>2, <2>3, SettingsEnds
  <2> QED BY <1>c, <2>1, <2>2, <2>4, NothingToSee DEF Settings!Ends
<1>6. CASE Settings!GiveUp
  <2>1. /\ settingsPc # "end" /\ Settings!Ends("inspect")
        /\ UNCHANGED <<Settings!player, settingsCommand, settingsNetwork, settingsAnswer,
                       settingsBound>>
    BY <1>6 DEF Settings!GiveUp
  <2>2. SettingsInv'
    BY <2>1, SettingsEnds
  <2> QED BY <1>c, <2>1, <2>2, NothingToSee DEF Settings!Ends
<1> QED BY <1>1, <1>2, <1>3, <1>4, <1>5, <1>6

\* The player, its viewer and the network.
LEMMA SettingsWorldStep ==
    ASSUME SettingsInv, Settings!SettingsAssumption, Settings!World
    PROVE  SettingsInv' /\ Settings!NothingUnseen
<1>0. /\ settingsSource \in Sources /\ held \in [Sources -> [items : SUBSET Items, rev : Nat]]
      /\ switching \subseteq [source : Sources, items : SUBSET Items]
  BY DEF SettingsInv, SettingsTyped
<1>q. UNCHANGED Settings!client => UNCHANGED settingsOutcome
  BY DEF Settings!client
<1>r. ASSUME NEW s \in Sources, NEW items \in SUBSET Items,
             held' = [held EXCEPT ![s] = [items |-> items, rev |-> @.rev + 1]]
      PROVE  /\ held' \in [Sources -> [items : SUBSET Items, rev : Nat]]
             /\ \A t \in Sources : held'[t] = held[t] \/ held'[t].rev > held[t].rev
  <2> DEFINE new == [items |-> items, rev |-> held[s].rev + 1]
  <2>1. held[s].rev \in Nat /\ new \in [items : SUBSET Items, rev : Nat]
    BY <1>0
  <2>2. new.rev > held[s].rev
    BY <2>1
  <2>3. held' = [held EXCEPT ![s] = new]
    BY <1>r
  <2> HIDE DEF new
  <2> QED BY <1>0, <2>1, <2>2, <2>3
<1>1. CASE Settings!Change
  <2>1. PICK items \in SUBSET Items :
          held' = [held EXCEPT ![settingsSource] = [items |-> items, rev |-> @.rev + 1]]
    BY <1>1 DEF Settings!Change
  <2>2. UNCHANGED <<settingsSource, switching, settingsApplied, settingsNetwork, settingsAnswer,
                    Settings!client>>
    BY <1>1 DEF Settings!Change
  <2>3. /\ held' \in [Sources -> [items : SUBSET Items, rev : Nat]]
        /\ \A t \in Sources : held'[t] = held[t] \/ held'[t].rev > held[t].rev
    BY <1>0, <1>r, <2>1
  <2> QED BY <1>0, <1>q, <2>2, <2>3, SettingsWorldQuiet, NothingToSee
<1>2. CASE Settings!SwitchSource \/ Settings!Restart
  <2>1. /\ UNCHANGED <<held, settingsApplied, settingsNetwork, settingsAnswer, Settings!client>>
        /\ settingsSource' \in Sources
        /\ switching' \subseteq [source : Sources, items : SUBSET Items]
    BY <1>0, <1>2 DEF Settings!SwitchSource, Settings!Restart
  <2> QED BY <1>0, <1>q, <2>1, SettingsWorldQuiet, NothingToSee
<1>3. CASE Settings!Take
  <2>1. SettingsInv' /\ WrittenAsSeen
    BY <1>3, SettingsTakeStep
  <2>2. UNCHANGED Settings!client
    BY <1>3 DEF Settings!Take
  <2> QED BY <1>q, <2>1, <2>2 DEF WrittenAsSeen, Settings!NothingUnseen
<1>4. CASE Settings!LoseRequest \/ Settings!LoseAnswer
  <2>1. /\ UNCHANGED <<Settings!player, Settings!client>>
        /\ settingsNetwork' \in {settingsNetwork, Settings!None}
        /\ settingsAnswer' \in {settingsAnswer, Settings!None}
    BY <1>4 DEF Settings!LoseRequest, Settings!LoseAnswer
  <2>2. UNCHANGED <<settingsSource, held, switching, settingsApplied>>
    BY <2>1 DEF Settings!player
  <2> QED BY <1>0, <1>q, <2>1, <2>2, SettingsWorldQuiet, NothingToSee
<1>5. CASE Settings!Switched
  <2>1. /\ UNCHANGED <<settingsSource, settingsApplied, settingsNetwork, settingsAnswer,
                       Settings!client>>
        /\ switching' = {}
    BY <1>5 DEF Settings!Switched
  <2>2. PICK old \in switching :
          held' \in {held, [held EXCEPT ![old.source] = [items |-> old.items, rev |-> @.rev + 1]]}
    BY <1>5 DEF Settings!Switched
  <2>3. old.source \in Sources /\ old.items \in SUBSET Items
    BY <1>0
  <2>4. /\ held' \in [Sources -> [items : SUBSET Items, rev : Nat]]
        /\ \A t \in Sources : held'[t] = held[t] \/ held'[t].rev > held[t].rev
    BY <1>0, <1>r, <2>2, <2>3
  <2> QED BY <1>0, <1>q, <2>1, <2>4, SettingsWorldQuiet, NothingToSee
<1> QED BY <1>1, <1>2, <1>3, <1>4, <1>5 DEF Settings!World

\* A command about a setting that reports "unsent", "refused" or "read" has changed
\* nothing and will not; one that reports "saved" changed it once, to what was asked
\* for.  A change is only made to the source, and over the revision, that the command
\* read, and a listing is what was held all at once (cli/player_settings.py).
LEMMA SettingsSafe ==
    ASSUME Settings!SettingsAssumption
    PROVE  Settings!Spec =>
             []Settings!HonestSettings /\ [][Settings!NothingUnseen]_Settings!vars
<1>1. Settings!Init => SettingsInv
  BY SettingsInit
<1>2. SettingsInv /\ Settings!Next => SettingsInv' /\ Settings!NothingUnseen
  BY SettingsWorldStep, SettingsCommandStep, ReadPageStep, ReadFirstStep DEF Settings!Next
<1>3. SettingsInv /\ UNCHANGED Settings!vars => SettingsInv'
  <2> SUFFICES ASSUME SettingsInv, UNCHANGED Settings!vars PROVE SettingsInv'
    OBVIOUS
  <2>1. /\ UNCHANGED <<settingsSource, held, switching, settingsApplied, settingsNetwork,
                       settingsAnswer, Settings!client>>
    BY DEF Settings!vars, Settings!player
  <2>2. /\ settingsSource \in Sources /\ held \in [Sources -> [items : SUBSET Items, rev : Nat]]
        /\ switching \subseteq [source : Sources, items : SUBSET Items]
    BY DEF SettingsInv, SettingsTyped
  <2> QED BY <2>1, <2>2, SettingsWorldQuiet
<1>4. SettingsInv => Settings!HonestSettings
  <2> SUFFICES ASSUME SettingsInv PROVE Settings!HonestSettings
    OBVIOUS
  <2>1. Settings!Flying <=> settingsNetwork.op \in Writes
    <3>1. settingsNetwork.op \in SettingsCalls
         /\ (settingsNetwork.op = "none" <=> settingsNetwork = Settings!None)
      BY DEF SettingsInv, SettingsTyped
    <3>2. \A op \in SettingsCalls : op \in Writes <=> op # "none"
         /\ op \notin Settings!Reads \cup {"capabilities"}
      BY DEF SettingsCalls, Writes
    <3> QED BY <3>1, <3>2 DEF Settings!Flying
  <2>2. TrueSettingsReports
    BY DEF SettingsInv
  <2>3. \A w : Settings!Cardinality({w}) = 1
    BY FS_Singleton DEF Settings!Cardinality, Cardinality
  <2> QED BY <2>1, <2>2, <2>3 DEF TrueSettingsReports, Settings!HonestSettings
<1> QED BY <1>1, <1>2, <1>3, <1>4, PTL DEF Settings!Spec

-----------------------------------------------------------------------------
(* A process of ott runs one command: what is true of each is true of the  *)
(* behaviours of PlayerCommands.                                           *)

\* "No playback was requested" stays true, and "Channel switch requested: X" means
\* that the player switched to X, within the provider named and to a channel that
\* matches; no change is made twice: for all catalogues and queries, and any
\* number of changes by the viewer (cli/ott.py).
THEOREM HonestDispatchCorrect == CommandsSpec => []HonestDispatch
<1>1. CommandsInit /\ part = "selection" => Selection!Init
  BY DEF CommandsInit
<1>2. [CommandsNext]_commandsVars /\ part = "selection" => [Selection!Next]_Selection!vars
  <2>1. CommandsNext /\ part = "selection" => Selection!Next
    BY DEF CommandsNext
  <2>2. UNCHANGED commandsVars => UNCHANGED Selection!vars
    BY DEF commandsVars, SelectionVars, Selection!vars, Selection!lookup
  <2> QED BY <2>1, <2>2
<1>3. [CommandsNext]_commandsVars => ((part = "selection")' <=> part = "selection")
  BY DEF CommandsNext, commandsVars
<1>4. Selection!Init /\ [][Selection!Next]_Selection!vars
        => [](Selection!TypeOK /\ Selection!HonestDispatch)
  BY SelectionHonest, SelectionTyped, SelectionConstants, PTL DEF Selection!Spec
<1> QED BY <1>1, <1>2, <1>3, <1>4, PTL DEF CommandsSpec, HonestDispatch

\* A bound command has the effect that was asked for, once and in the runtime it
\* relied on, and what is said of it is so: for any number of restarts of the
\* player and replacements of the controller (cli/ott.py).
THEOREM SafeCommandCorrect == CommandsSpec => []SafeCommand
<1>1. CommandsInit /\ part = "bound" => Bound!Init
  BY DEF CommandsInit
<1>2. [CommandsNext]_commandsVars /\ part = "bound" => [Bound!Next]_Bound!vars
  <2>1. CommandsNext /\ part = "bound" => Bound!Next
    BY DEF CommandsNext
  <2>2. UNCHANGED commandsVars => UNCHANGED Bound!vars
    BY DEF commandsVars, BoundVars, Bound!vars, Bound!world, Bound!cli
  <2> QED BY <2>1, <2>2
<1>3. [CommandsNext]_commandsVars => ((part = "bound")' <=> part = "bound")
  BY DEF CommandsNext, commandsVars
<1>4. Bound!Init /\ [][Bound!Next]_Bound!vars => []Bound!SafeCommand
  BY BoundCommandSafe, BoundConstants, PTL DEF Bound!Spec
<1> QED BY <1>1, <1>2, <1>3, <1>4, PTL DEF CommandsSpec, SafeCommand

\* A mutation of the torrent indexer reported done took effect on the runtime that
\* was inspected.  One reported failed is not queued any more, and did not and will
\* not take effect unless the reason given is that the companion did not answer.
\* None takes effect twice (cli/torrent_indexer.py).
THEOREM HonestIndexerCorrect == CommandsSpec => []HonestIndexer
<1>1. CommandsInit /\ part = "indexer" => Indexer!Init
  BY DEF CommandsInit
<1>2. [CommandsNext]_commandsVars /\ part = "indexer" => [Indexer!Next]_Indexer!vars
  <2>1. CommandsNext /\ part = "indexer" => Indexer!Next
    BY DEF CommandsNext
  <2>2. UNCHANGED commandsVars => UNCHANGED Indexer!vars
    BY DEF commandsVars, IndexerVars, Indexer!vars, Indexer!world
  <2> QED BY <2>1, <2>2
<1>3. [CommandsNext]_commandsVars => ((part = "indexer")' <=> part = "indexer")
  BY DEF CommandsNext, commandsVars
<1>4. Indexer!Init /\ [][Indexer!Next]_Indexer!vars => []Indexer!HonestIndexer
  BY IndexerHonest, PTL DEF Indexer!Spec
<1> QED BY <1>1, <1>2, <1>3, <1>4, PTL DEF CommandsSpec, HonestIndexer

\* Only the bound device is ever sent anything, the shutdown is requested at most
\* once, and an error is reported truly: for any number of connections and dialogs
\* (cli/device_power.py).
THEOREM SafeShutdownCorrect == CommandsSpec => []SafeShutdown
<1>1. CommandsInit /\ part = "power" => Power!Init
  BY DEF CommandsInit
<1>2. [CommandsNext]_commandsVars /\ part = "power" => [Power!Next]_Power!vars
  <2>1. CommandsNext /\ part = "power" => Power!Next
    BY DEF CommandsNext
  <2>2. UNCHANGED commandsVars => UNCHANGED Power!vars
    BY DEF commandsVars, PowerVars, Power!vars, Power!device, Power!command, Power!history
  <2> QED BY <2>1, <2>2
<1>3. [CommandsNext]_commandsVars => ((part = "power")' <=> part = "power")
  BY DEF CommandsNext, commandsVars
<1>4. Power!Init /\ [][Power!Next]_Power!vars => []Power!SafeShutdown
  BY ShutdownSafe, PTL DEF Power!Spec
<1> QED BY <1>1, <1>2, <1>3, <1>4, PTL DEF CommandsSpec, SafeShutdown

\* An update installs a file of its verified release with that release's version,
\* and what it says was not requested never happens: for all releases, files and
\* invocations (cli/app_update.py).
THEOREM SafeUpdateCorrect == CommandsSpec => []SafeUpdate
<1>1. CommandsInit /\ part = "update" => Update!Init
  BY DEF CommandsInit
<1>2. [CommandsNext]_commandsVars /\ part = "update" => [Update!Next]_Update!vars
  <2>1. CommandsNext /\ part = "update" => Update!Next
    BY DEF CommandsNext
  <2>2. UNCHANGED commandsVars => UNCHANGED Update!vars
    BY DEF commandsVars, UpdateVars, Update!vars
  <2> QED BY <2>1, <2>2
<1>3. [CommandsNext]_commandsVars => ((part = "update")' <=> part = "update")
  BY DEF CommandsNext, commandsVars
<1>4. Update!Init /\ [][Update!Next]_Update!vars => []Update!SafeUpdate
  BY UpdateSafe, UpdateConstants, PTL DEF Update!Spec
<1> QED BY <1>1, <1>2, <1>3, <1>4, PTL DEF CommandsSpec, SafeUpdate

\* An operation of the registry's operator takes effect at most once and, once sent,
\* stays in its checkpoint until it is confirmed, refused or forgotten; one reported
\* done took effect, one refused when it had been sent once did not and will not; an
\* alias is removed only once its access ended: however often the operator resumes,
\* and whatever the controller turns away (cli/device_registry.py).
THEOREM SafeRecoveryCorrect == CommandsSpec => []SafeRecovery
<1>1. CommandsInit /\ part = "registry" => Registry!Init
  BY DEF CommandsInit
<1>2. [CommandsNext]_commandsVars /\ part = "registry" => [Registry!Next]_Registry!vars
  <2>1. CommandsNext /\ part = "registry" => Registry!Next
    BY DEF CommandsNext
  <2>2. UNCHANGED commandsVars => UNCHANGED Registry!vars
    BY DEF commandsVars, RegistryVars, Registry!vars, Registry!registry, Registry!command,
       Registry!local, Registry!network
  <2> QED BY <2>1, <2>2
<1>3. [CommandsNext]_commandsVars => ((part = "registry")' <=> part = "registry")
  BY DEF CommandsNext, commandsVars
<1>4. Registry!Init /\ [][Registry!Next]_Registry!vars => []Registry!SafeRecovery
  BY OperatorSafe, RegistryConstants, PTL DEF Registry!Spec
<1> QED BY <1>1, <1>2, <1>3, <1>4, PTL DEF CommandsSpec, SafeRecovery

\* What a command says of the torrent catalogue is true and stays true whatever
\* arrives late: for every catalogue, any number of chunks, changes by others and
\* restarts (cli/torrent_catalog.py).
THEOREM HonestCatalogCorrect == CommandsSpec => []HonestCatalog
<1>1. CommandsInit /\ part = "torrents" => Torrents!Init
  BY DEF CommandsInit
<1>2. [CommandsNext]_commandsVars /\ part = "torrents" => [Torrents!Next]_CatalogVars
  <2>1. CommandsNext /\ part = "torrents" => Torrents!Next
    BY DEF CommandsNext
  <2>2. UNCHANGED commandsVars => UNCHANGED CatalogVars
    BY DEF commandsVars, CatalogVars
  <2> QED BY <2>1, <2>2
<1>3. [CommandsNext]_commandsVars => ((part = "torrents")' <=> part = "torrents")
  BY DEF CommandsNext, commandsVars
<1>4. Torrents!Init /\ [][Torrents!Next]_CatalogVars => []Torrents!HonestCatalog
  BY CatalogHonest, PTL
<1> QED BY <1>1, <1>2, <1>3, <1>4, PTL DEF CommandsSpec, HonestCatalog

\* Settings change as reported, once, and only as they were seen, in the source they
\* were read from: for all sources, values and sizes of pages, and any number of
\* changes by others (cli/player_settings.py).
THEOREM SafeSettingsCorrect == CommandsSpec => SafeSettings
<1>1. CommandsInit /\ part = "settings" => Settings!Init
  BY DEF CommandsInit
<1>2. [CommandsNext]_commandsVars /\ part = "settings" => [Settings!Next]_Settings!vars
  <2>1. CommandsNext /\ part = "settings" => Settings!Next
    BY DEF CommandsNext
  <2>2. UNCHANGED commandsVars => UNCHANGED Settings!vars
    BY DEF commandsVars, SettingsVars, Settings!vars, Settings!player, Settings!client
  <2> QED BY <2>1, <2>2
<1>3. [CommandsNext]_commandsVars => ((part = "settings")' <=> part = "settings")
  BY DEF CommandsNext, commandsVars
<1>4. Settings!Init /\ [][Settings!Next]_Settings!vars
        => []Settings!HonestSettings /\ [][Settings!NothingUnseen]_Settings!vars
  BY SettingsSafe, SettingsConstants, PTL DEF Settings!Spec
<1>5. ASSUME [CommandsNext]_commandsVars, UNCHANGED Settings!vars, part = "settings"
      PROVE  UNCHANGED commandsVars
  <2>1. CASE CommandsNext
    <3>1. UNCHANGED <<part, SelectionVars, BoundVars, CatalogVars>>
      BY <2>1, <1>5 DEF CommandsNext
    <3>2. UNCHANGED <<IndexerVars, PowerVars, UpdateVars, RegistryVars>>
      BY <2>1, <1>5 DEF CommandsNext
    <3>3. UNCHANGED SettingsVars
      BY <1>5 DEF SettingsVars, Settings!vars, Settings!player, Settings!client
    <3> QED BY <3>1, <3>2, <3>3 DEF commandsVars
  <2>2. CASE UNCHANGED commandsVars
    BY <2>2
  <2> QED BY <2>1, <2>2, <1>5
<1>6. [CommandsNext]_commandsVars /\ [Settings!NothingUnseen]_Settings!vars
        => [part = "settings" => Settings!NothingUnseen]_commandsVars
  BY <1>5
<1> QED BY <1>1, <1>2, <1>3, <1>4, <1>6, PTL DEF CommandsSpec, SafeSettings
=============================================================================
