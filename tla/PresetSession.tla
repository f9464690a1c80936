---------------------------- MODULE PresetSession ----------------------------
(***************************************************************************)
(* Resumable application of a preset: cli/preset_session.py, with          *)
(* load_preset and the comparisons of cli/ott.py.                          *)
(*                                                                         *)
(* A run of the command line applies the steps of a preset one after the   *)
(* other.  A step first compares the player with the preset and is skipped *)
(* when it matches; otherwise its intent, a fresh key and the time after   *)
(* which the command can no longer be executed, is stored before the       *)
(* command is posted.  A later run finds the intent and asks the journal   *)
(* of the controller, or waits.  A run can be killed at any point, a post  *)
(* or its answer lost or late, and the viewer changes the player's         *)
(* settings at any time.                                                   *)
(*                                                                         *)
(* One process runs at a time: flock refuses a second one before it reads  *)
(* the checkpoint.  Save writes, syncs and renames; what a crash leaves is *)
(* the file before or after.  Times are ticks left, so no clock is bound.  *)
(* The list of completed steps decides nothing and is left out, and so are *)
(* the checks that only refuse.                                            *)
(***************************************************************************)
EXTENDS Naturals, Sequences, FiniteSets

CONSTANTS
    Key, NoKey,
    Profiles,      \* numbers of the preset's M3U profiles
    Desired,       \* its active profile
    Extras,        \* its optional parts
    Ttl,           \* command_ttl_seconds of the controller
    Budget,        \* how long a post is on its way at most
    Margin,        \* what the session adds to both
    Pause          \* longest time between the stored intent and the post

PresetAssumption ==
    /\ NoKey \notin Key /\ IsFiniteSet(Key)
    /\ Profiles \subseteq Nat \ {0} /\ IsFiniteSet(Profiles) /\ Desired \in Profiles
    /\ Extras \subseteq {"local", "vportal", "stalker"}
    /\ Ttl \in Nat /\ Budget \in Nat /\ Margin \in Nat /\ Pause \in Nat
    /\ Pause <= Margin   \* a host sleeps no longer than the margin before it posts

VARIABLES
    player,        \* its provider, active M3U profile and settings
    live,          \* posted commands that may still be executed
    reply,         \* the answer to the command last posted
    file,          \* pending of the checkpoint: a key and the ticks to wait
    pc,
    todo,          \* steps ahead, the current one first
    current,       \* the profile the M3U list showed active
    pause,         \* ticks left to post what was stored
    saw,           \* what the last comparison returned
    unconfirmed,   \* slots verify has still to compare
    quiet,         \* history: the viewer left the player alone since verify began
    verdict

process == <<pc, todo, current, pause, saw, unconfirmed>>
vars == <<player, live, reply, file, process, quiet, verdict>>

M3u == {<<"m3u", n>> : n \in Profiles}
Slots == (Extras \cup {"plex"}) \X {0} \cup M3u
Providers == {"m3u", "plex", "stalker", "other"}
Values == {"preset", "old", "new"}
NoPending == [key |-> NoKey, wait |-> 0]
NoReply == [status |-> "none"]
Verdicts == {"none", "killed", "failed", "uncertain", "different", "verified"}

-----------------------------------------------------------------------------
(* The steps of a preset                                                   *)

\* What a step is about is a provider and the number of a profile.
Step(op, provider, number) == [op |-> op, at |-> <<provider, number>>]
If(extra, steps) == IF extra \in Extras THEN steps ELSE <<>>

\* The numbers of S in their order, and a save of the profile of each.
InOrder(S) ==
    CHOOSE f \in [1..Cardinality(S) -> S] : \A i, j \in DOMAIN f : i < j => f[i] < f[j]
Saves(S) == LET order == InOrder(S) IN
            [i \in DOMAIN order |-> Step("save", "m3u", order[i])]

\* Up to the list of M3U profiles, and from there on: the active profile is
\* saved last when it stays active, and after the selection when it does not.
Opening ==
    If("local", <<Step("connect", "local", 0)>>)
    \o If("vportal", <<Step("cas", "vportal", 0)>>)
    \o If("stalker", <<Step("provider", "stalker", 0), Step("save", "stalker", 0)>>)
    \o <<Step("provider", "plex", 0), Step("save", "plex", 0),
         Step("provider", "m3u", 0), Step("list", "m3u", 0)>>
Closing(active) ==
    Saves(Profiles \ {active})
    \o (IF active = Desired THEN Saves({active}) ELSE <<>>)
    \o <<Step("profile", "m3u", Desired)>>
    \o (IF active \in Profiles \ {Desired} THEN Saves({active}) ELSE <<>>)
    \o <<Step("final", "m3u", 0)>>
    \o If("vportal", <<Step("final", "vportal", 0)>>) \o If("local", <<Step("final", "local", 0)>>)

Compared(s) == s.op \in {"connect", "cas", "save"}
Selects(s) == s.op \in {"provider", "profile"}
\* Only the rejection that proves that a provider is not mounted is retried.
Retried(s) == s.op = "save" /\ s.at \notin M3u
Here == Head(todo)

Init ==
    /\ player \in [provider : {"other"}, active : Profiles, set : [Slots -> {"old"}]]
    /\ live = {} /\ reply = NoReply
    /\ file = NoPending
    /\ pc = "idle" /\ todo = <<>> /\ current = Desired /\ pause = 0
    /\ saw = "none" /\ unconfirmed = {} /\ quiet = TRUE /\ verdict = "none"

-----------------------------------------------------------------------------
(* The controller and the player                                           *)

Accept(c) ==
    /\ c \in live /\ c.state = "flying"
    /\ live' = (live \ {c}) \cup {[c EXCEPT !.state = "queued", !.left = Ttl]}
    /\ UNCHANGED <<player, reply, file, process, quiet, verdict>>

Lose(c) ==
    /\ c \in live
    /\ live' = live \ {c}
    /\ UNCHANGED <<player, reply, file, process, quiet, verdict>>

\* A save needs its provider mounted, a conditional one the value compared.
Accepts(s, seen) ==
    CASE s.op = "save" -> player.provider = s.at[1]
      [] s.op = "profile" -> player.provider = "m3u"
      [] s.op = "cas" -> player.set[s.at] = seen
      [] OTHER -> TRUE
Applied(s) ==
    CASE s.op = "provider" -> [player EXCEPT !.provider = s.at[1]]
      [] s.op = "profile" -> [player EXCEPT !.active = s.at[2]]
      [] OTHER -> [player EXCEPT !.set[s.at] = "preset"]
Answer(c, status, p) ==
    IF c.key = file.key
    THEN [status |-> status, active |-> p.active, exact |-> p.set[<<"m3u", p.active>>] = "preset"]
    ELSE reply

Execute(c) ==
    /\ c \in live /\ c.state = "queued"
    /\ live' = live \ {c}
    /\ \/ /\ Accepts(c.step, c.saw)
          /\ player' = Applied(c.step)
          /\ reply' = Answer(c, "ok", player')
       \/ /\ Accepts(c.step, c.saw) => Retried(c.step)
          /\ reply' = Answer(c, "rejected", player)
          /\ UNCHANGED player
    /\ UNCHANGED <<file, process, quiet, verdict>>

\* The viewer.
Change ==
    /\ player' \in {[player EXCEPT !.provider = q] : q \in Providers}
              \cup {[player EXCEPT !.active = n] : n \in Profiles}
              \cup {[player EXCEPT !.set[s] = v] : s \in Slots, v \in {"old", "new"}}
    /\ player' # player
    /\ quiet' = FALSE
    /\ UNCHANGED <<live, reply, file, process, verdict>>

Tick ==
    /\ \A c \in live : c.left > 0
    /\ pc = "send" => pause > 0
    /\ live # {} \/ file.wait > 0 \/ pause > 0
    /\ live' = {[c EXCEPT !.left = @ - 1] : c \in live}
    /\ file' = [file EXCEPT !.wait = IF @ > 0 THEN @ - 1 ELSE 0]
    /\ pause' = IF pause > 0 THEN pause - 1 ELSE 0
    /\ UNCHANGED <<player, reply, pc, todo, current, saw, unconfirmed, quiet, verdict>>

-----------------------------------------------------------------------------
(* A run                                                                   *)

Ends(v) ==
    /\ pc' = "idle" /\ verdict' = v
    /\ todo' = <<>> /\ current' = Desired /\ pause' = 0 /\ saw' = "none" /\ unconfirmed' = {}

\* The checkpoint is read under the lock; only apply creates it.
Open ==
    /\ pc = "idle"
    /\ pc' = "recover" /\ verdict' = "none"
    /\ UNCHANGED <<player, live, reply, file, todo, current, pause, saw, unconfirmed, quiet>>

\* The journal answers for the pending key; without an answer it must wait.
Over == file.key = NoKey \/ reply.status \in {"ok", "rejected"} \/ file.wait = 0

Recover ==
    /\ pc = "recover"
    /\ IF Over
       THEN /\ file' = NoPending /\ reply' = NoReply
            /\ pc' = "prepare"
            /\ todo' = Opening
            /\ UNCHANGED <<current, pause, saw, unconfirmed, verdict>>
       ELSE Ends("uncertain") /\ UNCHANGED <<file, reply>>
    /\ UNCHANGED <<player, live, quiet>>

\* complete: the pending intent leaves the checkpoint and the next step begins.
Complete(steps) ==
    /\ file' = NoPending /\ reply' = NoReply
    /\ todo' = steps
    /\ IF steps = <<>>
       THEN pc' = "verify" /\ unconfirmed' = Slots /\ quiet' = TRUE
       ELSE pc' = "prepare" /\ UNCHANGED <<unconfirmed, quiet>>
    /\ pause' = 0 /\ saw' = "none"
    /\ UNCHANGED verdict

Compare ==
    /\ pc = "prepare" /\ Compared(Here)
    /\ pc' = "compared" /\ saw' = player.set[Here.at]
    /\ UNCHANGED <<player, live, reply, file, todo, current, pause, unconfirmed, quiet, verdict>>

Skip ==
    /\ pc = "compared" /\ saw = "preset"
    /\ Complete(Tail(todo))
    /\ UNCHANGED <<player, live, current>>

\* retry: the intent is on disk before anything is sent.
IntentWithoutTimeout(k) == [key |-> k, wait |-> Ttl + 1]
Intent(k) == [key |-> k, wait |-> Ttl + Budget + Margin + 1]

Intend(k) ==
    /\ \/ pc = "compared" /\ saw # "preset"
       \/ pc = "prepare" /\ Selects(Here)
       \/ pc = "await" /\ reply.status = "rejected" /\ Retried(Here)
    /\ \A c \in live : c.key # k
    /\ k # file.key
    /\ file' = Intent(k) /\ reply' = NoReply
    /\ pc' = "send" /\ pause' = Pause
    /\ UNCHANGED <<player, live, todo, current, saw, unconfirmed, quiet, verdict>>

Send ==
    /\ pc = "send"
    /\ live' = live \cup {[key |-> file.key, step |-> Here, saw |-> saw, state |-> "flying", left |-> Budget]}
    /\ pc' = "await" /\ pause' = 0
    /\ UNCHANGED <<player, reply, file, todo, current, saw, unconfirmed, quiet, verdict>>

\* A saved M3U profile must be active or not as before; the selected one must
\* hold the preset's settings.
Confirmed ==
    CASE Here.op = "save" /\ Here.at \in M3u -> (reply.active = Here.at[2]) = (current = Here.at[2])
      [] Here.op = "profile" -> reply.exact
      [] OTHER -> TRUE

Receive ==
    /\ pc = "await" /\ reply.status = "ok"
    /\ IF Confirmed
       THEN /\ Complete(Tail(todo))
            /\ current' = IF Here.op = "profile" THEN Desired ELSE current
       ELSE Ends("failed") /\ UNCHANGED <<reply, file, quiet>>
    /\ UNCHANGED <<player, live>>

\* The M3U list decides the steps that follow; the last list, and the slots
\* that have none, must agree with the preset.
List ==
    /\ pc = "prepare" /\ Here.op = "list" /\ player.provider = "m3u"
    /\ current' = player.active
    /\ Complete(Closing(player.active))
    /\ UNCHANGED <<player, live>>

Final ==
    /\ pc = "prepare" /\ Here.op = "final"
    /\ IF IF Here.at[1] = "m3u"
          THEN player.provider = "m3u" /\ player.active = Desired /\ \A s \in M3u : player.set[s] = "preset"
          ELSE player.set[Here.at] = "preset"
       THEN Complete(Tail(todo)) /\ UNCHANGED current
       ELSE Ends("failed") /\ UNCHANGED <<reply, file, quiet>>
    /\ UNCHANGED <<player, live>>

\* A comparison, a post, an answer or a deadline goes wrong: the rest is left.
Fail ==
    /\ pc \in {"prepare", "compared", "await", "verify", "profiles"}
    /\ Ends("failed")
    /\ UNCHANGED <<player, live, reply, file, quiet>>

Kill ==
    /\ pc # "idle"
    /\ Ends("killed")
    /\ UNCHANGED <<player, live, reply, file, quiet>>

\* verify: each slot is compared, then the status read, then the list of the
\* provider that is active by then.
Verify(s) ==
    /\ pc = "verify" /\ s \in unconfirmed
    /\ IF player.set[s] = "preset"
       THEN unconfirmed' = unconfirmed \ {s} /\ UNCHANGED <<pc, todo, current, pause, saw, verdict>>
       ELSE Ends("different")
    /\ UNCHANGED <<player, live, reply, file, quiet>>

Status ==
    /\ pc = "verify" /\ unconfirmed = {}
    /\ IF player.provider = "m3u"
       THEN pc' = "profiles" /\ UNCHANGED <<todo, current, pause, saw, unconfirmed, verdict>>
       ELSE Ends("different")
    /\ UNCHANGED <<player, live, reply, file, quiet>>

SelectedByStatus == player.active = Desired
Selected == player.provider = "m3u" /\ player.active = Desired

Listed ==
    /\ pc = "profiles"
    /\ Ends(IF Selected THEN "verified" ELSE "different")
    /\ UNCHANGED <<player, live, reply, file, quiet>>

Next ==
    \/ \E c \in live : Accept(c) \/ Lose(c) \/ Execute(c)
    \/ Change \/ Tick
    \/ Open \/ Recover \/ Compare \/ Skip \/ (\E k \in Key : Intend(k)) \/ Send \/ Receive
    \/ List \/ Final \/ Fail \/ Kill
    \/ (\E s \in Slots : Verify(s)) \/ Status \/ Listed

Spec == Init /\ [][Next]_vars

-----------------------------------------------------------------------------
(* Properties                                                              *)

TypeOK ==
    /\ player \in [provider : Providers, active : Profiles, set : [Slots -> Values]]
    /\ file \in [key : Key \cup {NoKey}, wait : Nat]
    /\ pc \in {"idle", "recover", "prepare", "compared", "send", "await", "verify", "profiles"}
    /\ current \in Profiles /\ pause \in Nat
    /\ saw \in Values \cup {"none"} /\ unconfirmed \subseteq Slots
    /\ quiet \in BOOLEAN /\ verdict \in Verdicts

\* Whatever was killed or lost, a command that may still be executed is the one
\* the checkpoint records as pending: no step is repeated, and no later one
\* taken, while it can still change the player.
NeverInDoubt == \A c \in live : c.key = file.key

\* A run that reports the preset as verified is right about every setting, the
\* provider and the profile, unless the viewer changed them since it began to
\* verify; and about the provider and the profile even then.
VerifiedIsTrue ==
    verdict' = "verified" /\ verdict # "verified" =>
        /\ player.provider = "m3u" /\ player.active = Desired
        /\ quiet => \A s \in Slots : player.set[s] = "preset"

=============================================================================
