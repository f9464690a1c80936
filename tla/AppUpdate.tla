------------------------------ MODULE AppUpdate ------------------------------
(***************************************************************************)
(* "ott PLAYER update" of cli/app_update.py: choose an official release,   *)
(* have the player download its APK, check what was staged and request the *)
(* installation, once, by its hash.                                        *)
(*                                                                         *)
(* Nothing is locked: several invocations, with different releases, drive  *)
(* one player, each from the states it polls.  A request may be lost or    *)
(* executed after its sender has given up, the viewer confirms or refuses  *)
(* on the screen, and a replaced package forgets the queued commands.      *)
(***************************************************************************)
EXTENDS Naturals, FiniteSets

CONSTANTS
    Invocations,
    Apks,           \* the files, by their hash
    CodeOf,         \* the versionCode inside each file
    Releases        \* the official releases: tag -> what is published

UpdateAssumption ==
    /\ CodeOf \in [Apks -> Nat]
    /\ \A tag \in DOMAIN Releases :
         Releases[tag].manifest.sha \in Apks /\ Releases[tag].manifest.code \in Nat

VARIABLES
    player,         \* [installed, staged, phase]
    flight,         \* requests under way: [by, operation, sha]
    answer,         \* per invocation: "none", "ok" or "rejected"
    chosen,         \* the tag each invocation selects
    pc, report,     \* per invocation
    acted           \* history: the requests the player accepted

vars == <<player, flight, answer, chosen, pc, report, acted>>

None == "none"
Staging == {"ready", "awaiting_permission", "installing", "awaiting_confirmation"}
Busy == Staging \cup {"downloading"}

Init ==
    /\ player \in [installed : Apks, staged : {None}, phase : {"idle"}]
    /\ chosen \in [Invocations -> DOMAIN Releases]
    /\ flight = {} /\ acted = {}
    /\ answer = [i \in Invocations |-> "none"]
    /\ pc = [i \in Invocations |-> "status"]
    /\ report = [i \in Invocations |-> "none"]

----------------------------------------------------------------------------
(* The release.  A stable one carries the manifest of its release candidate, *)
(* which must be published with the same bytes from the same commit.         *)

Release(i) == Releases[chosen[i]]
Sha(i) == Release(i).manifest.sha
Code(i) == Release(i).manifest.code

Verified(tag) ==
    LET r == Releases[tag]
        m == r.manifest
    IN  /\ r.published /\ m.source = r.source
        /\ m.tag # tag =>
             /\ r.channel = "stable" /\ m.tag \in DOMAIN Releases
             /\ LET c == Releases[m.tag]
                IN  c.channel = "rc" /\ c.published /\ c.manifest = m /\ c.source = r.source

----------------------------------------------------------------------------
(* An invocation. *)

Goes(i, where) == pc' = [pc EXCEPT ![i] = where]
Ends(i, what) == Goes(i, "done") /\ report' = [report EXCEPT ![i] = what]
Steps(i, where) == Goes(i, where) /\ UNCHANGED report

\* Any call may fail or come too late; what it asked for may still happen.
Fail(i) ==
    /\ pc[i] # "done"
    /\ Ends(i, IF pc[i] = "status" THEN "not_requested"
               ELSE IF pc[i] = "after" THEN "unconfirmed" ELSE "error")
    /\ UNCHANGED <<chosen, player, flight, answer, acted>>

Asks(i, operation) ==
    /\ flight' = flight \cup {[by |-> i, operation |-> operation, sha |-> Sha(i)]}
    /\ answer' = [answer EXCEPT ![i] = "none"]

\* The state is read, and the release, before anything is requested.
Start(i) ==
    /\ pc[i] = "status"
    /\ \/ ~Verified(chosen[i]) /\ Ends(i, "not_requested")
       \/ Verified(chosen[i]) /\ CodeOf[player.installed] >= Code(i) /\ Ends(i, "not_requested")
       \/ /\ Verified(chosen[i]) /\ CodeOf[player.installed] < Code(i)
          /\ \/ player.phase \in Busy /\ player.staged # Sha(i) /\ Ends(i, "not_requested")
             \/ player.phase \in Busy /\ player.staged = Sha(i) /\ Steps(i, "poll")
             \/ player.phase \notin Busy /\ Steps(i, "prepare")
    /\ UNCHANGED <<chosen, player, flight, answer, acted>>

Prepare(i) ==
    /\ pc[i] = "prepare" /\ Steps(i, "prepared") /\ Asks(i, "prepare")
    /\ UNCHANGED <<chosen, player, acted>>

Prepared(i) ==
    /\ pc[i] = "prepared" /\ answer[i] # "none"
    /\ IF answer[i] = "ok" THEN Steps(i, "poll") ELSE Ends(i, "error")
    /\ UNCHANGED <<chosen, player, flight, answer, acted>>

\* A variant that trusts the hash and does not compare the staged version.
MatchesByHash(i) == player.staged = Sha(i)

\* What is staged is the file of the release and has the version it names.
Matches(i) == player.staged = Sha(i) /\ CodeOf[player.staged] = Code(i)

Poll(i) ==
    /\ pc[i] = "poll" /\ player.phase # "downloading"
    /\ \/ player.phase \in Staging /\ ~Matches(i) /\ Ends(i, "not_installed")
       \/ player.phase \notin Staging /\ Ends(i, "not_installed")
       \/ player.phase \in {"installing", "awaiting_confirmation"} /\ Matches(i) /\ Ends(i, "pending")
       \/ player.phase \in {"ready", "awaiting_permission"} /\ Matches(i) /\ Steps(i, "install")
       \/ player.phase \in {"ready", "awaiting_permission"} /\ Matches(i) /\ Ends(i, "not_installed")
    /\ UNCHANGED <<chosen, player, flight, answer, acted>>

Install(i) ==
    /\ pc[i] = "install" /\ Steps(i, "requested") /\ Asks(i, "install")
    /\ UNCHANGED <<chosen, player, acted>>

Requested(i) ==
    /\ pc[i] = "requested" /\ answer[i] # "none"
    /\ IF answer[i] = "ok" THEN Steps(i, "after") ELSE Ends(i, "error")
    /\ UNCHANGED <<chosen, player, flight, answer, acted>>

\* The installation is followed, and never requested again.
Follow(i) ==
    /\ pc[i] = "after"
    /\ \/ CodeOf[player.installed] > Code(i) /\ Ends(i, "superseded")
       \/ /\ CodeOf[player.installed] = Code(i)
          /\ Ends(i, IF Matches(i) THEN "verified" ELSE "error")
       \/ /\ CodeOf[player.installed] < Code(i)
          /\ \/ player.staged # Sha(i) /\ Ends(i, "error")
             \/ /\ player.staged = Sha(i)
                /\ \/ player.phase \in {"awaiting_permission", "awaiting_confirmation"} /\ Ends(i, "confirm")
                   \/ player.phase = "failed" /\ Ends(i, "error")
    /\ UNCHANGED <<chosen, player, flight, answer, acted>>

----------------------------------------------------------------------------
(* The player, its viewer and the network. *)

Handle(q) ==
    /\ q \in flight /\ flight' = flight \ {q}
    /\ LET able == IF q.operation = "prepare"
                   THEN player.phase \notin {"installing", "awaiting_confirmation"}
                   ELSE player.phase \in {"ready", "awaiting_permission"} /\ player.staged = q.sha
       IN  \/ /\ able /\ acted' = acted \cup {q}
              /\ IF q.operation = "prepare"
                 THEN player' = [player EXCEPT !.staged = q.sha, !.phase = "downloading"]
                 ELSE \E p \in {"awaiting_permission", "installing"} :
                        player' = [player EXCEPT !.phase = p]
              /\ answer' \in {answer, [answer EXCEPT ![q.by] = "ok"]}
           \/ /\ answer' = [answer EXCEPT ![q.by] = "rejected"]
              /\ UNCHANGED <<chosen, player, acted>>
    /\ UNCHANGED <<chosen, pc, report>>

Lose(q) == q \in flight /\ flight' = flight \ {q} /\ UNCHANGED <<chosen, player, answer, pc, report, acted>>

Proceed ==
    /\ \/ /\ player.phase = "downloading"
          /\ \E p \in {"ready", "failed"} : player' = [player EXCEPT !.phase = p]
          /\ UNCHANGED flight
       \/ /\ player.phase = "installing"
          /\ \E p \in {"awaiting_confirmation", "failed"} : player' = [player EXCEPT !.phase = p]
          /\ UNCHANGED flight
       \/ /\ player.phase = "awaiting_confirmation"
          /\ \/ player' = [player EXCEPT !.phase = "failed"] /\ UNCHANGED flight
             \/ /\ CodeOf[player.staged] > CodeOf[player.installed]
                /\ player' = [player EXCEPT !.installed = player.staged, !.phase = "idle"]
                /\ flight' = {}
    /\ UNCHANGED <<chosen, answer, pc, report, acted>>

----------------------------------------------------------------------------
Next ==
    \/ \E i \in Invocations :
         Fail(i) \/ Start(i) \/ Prepare(i) \/ Prepared(i) \/ Poll(i) \/ Install(i) \/ Requested(i) \/ Follow(i)
    \/ \E q \in flight : Handle(q) \/ Lose(q)
    \/ Proceed

Spec == Init /\ [][Next]_vars

----------------------------------------------------------------------------
Requests(i, set) == {q \in set : q.by = i}
Installs(set) == {q \in set : q.operation = "install"}

\* What the player installs for an invocation is a file of its verified release
\* with the version that release names.  An invocation that reports that it has
\* requested nothing, or no installation, never has one executed, then or later,
\* and one that reports success has left at least its version on the player.
SafeUpdate ==
    /\ \A q \in Installs(acted) : q.sha = Sha(q.by) /\ CodeOf[q.sha] = Code(q.by) /\ Verified(chosen[q.by])
    /\ \A i \in Invocations :
         /\ report[i] = "not_requested" => Requests(i, acted \cup flight) = {}
         /\ report[i] \in {"not_installed", "pending"} => Installs(Requests(i, acted \cup flight)) = {}
         /\ report[i] \in {"verified", "superseded"} => CodeOf[player.installed] >= Code(i)
=============================================================================
