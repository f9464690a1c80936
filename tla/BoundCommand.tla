---------------------------- MODULE BoundCommand ----------------------------
(***************************************************************************)
(* The commands of cli/ott.py that negotiate with a player before they     *)
(* change it: browsing and playing local media, Plex servers, library and  *)
(* queue, aspect ratio, notification preferences, relative seek, offline   *)
(* profiles, screenshots, detailed status.                                 *)
(*                                                                         *)
(* A command reads the capabilities, once or, for the newer forms of the   *)
(* queue, twice, and sends one request naming the runtime that advertised  *)
(* them.  Meanwhile the player may restart, as another version too, and    *)
(* the controller may be replaced by one that does not know the command.   *)
(* The deadline covers all of it, and a request is never sent again.       *)
(***************************************************************************)
EXTENDS Naturals, Sequences, FiniteSets

CONSTANTS
    Kinds,        \* commands the user may give
    MaxRuntime,   \* runtimes the player goes through
    MaxDeploys    \* how often the controller is replaced

BoundAssumption ==
    /\ Kinds \subseteq {"browse", "connect", "session", "handle", "servers", "library",
                        "queue", "queue2", "repeat", "aspect", "notify", "seek",
                        "profile", "screenshot", "detailed"}
    /\ MaxRuntime \in Nat \ {0} /\ MaxDeploys \in Nat

VARIABLES
    player,       \* its runtime, and whether it is a current version
    controller,   \* "new" or "old"
    deploys,
    flying,       \* the request on its way
    reply,
    pending,      \* an aspect ratio that waits for its acknowledgement
    did,          \* history: what players executed for this command
    kind,
    pc,
    seen,         \* the capabilities the command relies on
    late,         \* the deadline has passed
    outcome       \* what the command reports

world == <<player, controller, deploys, flying, reply, pending, did>>
cli == <<kind, pc, seen, late, outcome>>
vars == <<world, cli>>

None == [is |-> "none"]
Unseen == [runtime |-> 0, offers |-> {}]

-----------------------------------------------------------------------------
(* What is advertised and what a command needs                             *)

\* A version from before the newer markers knows the command as such, except
\* for those that came with a marker of their own.
Basic == {"local_media", "plex_queue", "plex_library", "aspect", "notifications", "screenshot",
          "seek_relative", "offline_profiles"}
Newer == {"local_browser", "local_media_session", "local_media_handles", "plex_servers",
          "plex_queue_state_v2", "plex_queue_repeat", "playback_failure"}
Offers(p) == IF p.current THEN Basic \cup Newer ELSE Basic

\* A temporary playback and a source handle are asked for in the request for
\* the capabilities itself, which an old controller refuses.
MediaProbe == CASE kind = "session" -> {"local_media_session"}
                [] kind = "handle" -> {"local_media_handles"}
                [] OTHER -> {}

\* The probes of the second read, which the newer forms of the queue make.
QueueProbe == CASE kind = "repeat" -> {"plex_queue_repeat"}
                [] kind = "queue2" -> {"plex_queue_state_v2"}
                [] OTHER -> {}

\* How a command negotiates: the markers it needs, those it asks for in the
\* first read and, if the player has them, in a second one; whether its request
\* names the runtime, and whether a late answer is given up.
Negotiates(markers) ==
    [needs |-> markers, asks |-> {}, asksAgain |-> {}, bound |-> TRUE, timed |-> TRUE]

\* A variant that only looks for the family of commands.
AnyLocalMedia == [Negotiates({"local_media"}) EXCEPT !.asks = MediaProbe]
LocalMedia == [Negotiates({"local_media"} \cup MediaProbe) EXCEPT !.asks = MediaProbe]
LocalBrowser == Negotiates({"local_browser"})
PlexServers == Negotiates({"plex_servers"})
PlexLibrary == Negotiates({"plex_library"})
PlexQueue == [Negotiates({"plex_queue"} \cup (IF kind = "repeat" THEN QueueProbe ELSE {}))
                EXCEPT !.asksAgain = QueueProbe]
Aspect == Negotiates({"aspect"})
Notifications == Negotiates({"notifications"})
Screenshot == Negotiates({"screenshot"})
RelativeSeek == [Negotiates({"seek_relative"}) EXCEPT !.bound = FALSE, !.timed = FALSE]
OfflineProfile == [Negotiates({"offline_profiles"}) EXCEPT !.bound = FALSE]
DetailedStatus == [Negotiates({"playback_failure"}) EXCEPT !.bound = FALSE]

Media == {"connect", "session", "handle"}
Queue == {"queue", "queue2", "repeat"}

Wants == CASE kind \in Media -> LocalMedia
           [] kind \in Queue -> PlexQueue
           [] kind = "browse" -> LocalBrowser
           [] kind = "servers" -> PlexServers
           [] kind = "library" -> PlexLibrary
           [] kind = "aspect" -> Aspect
           [] kind = "notify" -> Notifications
           [] kind = "screenshot" -> Screenshot
           [] kind = "seek" -> RelativeSeek
           [] kind = "profile" -> OfflineProfile
           [] kind = "detailed" -> DetailedStatus

KnownToOld == {"connect", "queue", "library", "aspect", "notify", "seek", "profile", "screenshot"}

Init ==
    /\ player \in [runtime : {1}, current : BOOLEAN]
    /\ controller \in {"old", "new"}
    /\ deploys = 0
    /\ flying = None /\ reply = None /\ pending = None /\ did = <<>>
    /\ kind \in Kinds
    /\ pc = "read" /\ seen = Unseen
    /\ late = FALSE /\ outcome = "none"

-----------------------------------------------------------------------------
(* The world                                                               *)

Restart ==
    /\ player.runtime < MaxRuntime
    /\ \E current \in BOOLEAN :
         player' = [runtime |-> player.runtime + 1, current |-> current]
    /\ pending' = None
    /\ UNCHANGED <<controller, deploys, flying, reply, did, cli>>

Deploy ==
    /\ deploys < MaxDeploys
    /\ deploys' = deploys + 1
    /\ controller' = IF controller = "old" THEN "new" ELSE "old"
    /\ UNCHANGED <<player, flying, reply, pending, did, cli>>

\* What a command does to the player.  A version that does not know temporary
\* playback saves the source.
Effect ==
    CASE kind \in {"browse", "screenshot", "detailed"} -> "none"
      [] kind \in {"servers", "library", "seek"} \cup Queue -> "temporary"
      [] kind = "aspect" -> "after-ack"
      [] kind = "session" /\ player.current -> "temporary"
      [] OTHER -> "saved"
Done(effect) == Append(did, [runtime |-> player.runtime, effect |-> effect])

Answer(status) ==
    reply' = [is |-> status, runtime |-> player.runtime, effect |-> Effect,
              version |-> flying.version]

\* The player takes a request that names its own runtime or none.
Execute ==
    /\ flying # None /\ flying.is = "queued"
    /\ flying.runtime \in {0, player.runtime}
    /\ flying.needs \subseteq Offers(player)
    /\ IF kind = "aspect"
       THEN pending' = [is |-> "aspect"] /\ UNCHANGED did
       ELSE did' = Done(Effect) /\ UNCHANGED pending
    /\ Answer("ok")
    /\ flying' = None
    /\ UNCHANGED <<player, controller, deploys, cli>>

\* The aspect ratio changes when the acknowledgement is back at the player.
ApplyAspect ==
    /\ pending # None
    /\ pending' = None
    /\ did' = Done("saved")
    /\ UNCHANGED <<player, controller, deploys, flying, reply, cli>>

Reject ==
    /\ flying # None /\ flying.is = "queued"
    /\ Answer("rejected")
    /\ flying' = None
    /\ UNCHANGED <<player, controller, deploys, pending, did, cli>>

\* The controller queues the request, or does not know the command.
Admit ==
    /\ flying # None /\ flying.is = "posted"
    /\ IF controller = "new" \/ kind \in KnownToOld
       THEN flying' = [flying EXCEPT !.is = "queued"] /\ UNCHANGED reply
       ELSE flying' = None /\ reply' = [is |-> "400"]
    /\ UNCHANGED <<player, controller, deploys, pending, did, cli>>

\* Its time to live ends, or the post or the answer is lost.
Lose ==
    /\ \/ flying # None /\ flying' = None /\ UNCHANGED reply
       \/ reply # None /\ reply' = None /\ UNCHANGED flying
    /\ UNCHANGED <<player, controller, deploys, pending, did, cli>>

Late ==
    /\ ~late /\ pc # "end"
    /\ late' = TRUE
    /\ UNCHANGED <<world, kind, pc, seen, outcome>>

-----------------------------------------------------------------------------
(* The command                                                             *)

Ends(with) ==
    /\ outcome' = with
    /\ pc' = "end"
    /\ UNCHANGED <<world, kind, seen, late>>

Goes(to, capabilities) ==
    /\ pc' = to
    /\ seen' = capabilities
    /\ UNCHANGED <<world, kind, late, outcome>>

Capabilities == [runtime |-> player.runtime, offers |-> Offers(player)]

\* A read that fails ends the command before anything was sent; so does a
\* probe of an old controller, and a deadline passed meanwhile.
Fail ==
    /\ pc \in {"read", "confirm", "send"}
    /\ Ends("unsent")

Read ==
    /\ pc = "read"
    /\ Wants.asks = {} \/ controller = "new"
    /\ IF Wants.needs \subseteq Offers(player)
       THEN Goes(IF Wants.asksAgain \cap Offers(player) # {} THEN "confirm" ELSE "send",
                 Capabilities)
       ELSE Ends("unsent")

\* The second read has to find the same runtime and the same markers.
Confirm ==
    /\ pc = "confirm" /\ ~late
    /\ controller = "new"
    /\ IF player.runtime = seen.runtime /\ Wants.asksAgain \subseteq Offers(player)
       THEN Goes("send", seen)
       ELSE Ends("unsent")

Version == IF kind = "queue2" /\ QueueProbe \subseteq seen.offers THEN 2 ELSE 1

Request ==
    [is |-> "posted",
     runtime |-> IF Wants.bound THEN seen.runtime ELSE 0,
     version |-> Version,
     needs |-> IF kind = "session" THEN {"local_media"}
               ELSE Wants.needs \cup IF Version = 2 THEN QueueProbe ELSE {}]

Send ==
    /\ pc = "send" /\ ~late
    /\ flying' = Request
    /\ pc' = "wait"
    /\ UNCHANGED <<player, controller, deploys, reply, pending, did, kind, seen, late, outcome>>

\* An answer has to be of the same runtime and to say that what was asked for,
\* and not more, was done.
Echoes(effect) == reply.runtime = seen.runtime /\ reply.effect = effect

BrowseConfirmed == Echoes("none")
MediaConfirmed == Echoes(IF kind = "session" THEN "temporary" ELSE "saved")
ServersConfirmed == Echoes("temporary")
LibraryConfirmed == Echoes("temporary")
QueueConfirmed == Echoes("temporary") /\ reply.version = Version
AspectConfirmed == Echoes("after-ack")
NotifyConfirmed == Echoes("saved")
ScreenshotConfirmed == Echoes("none")
DetailedConfirmed == Echoes("none")
SeekConfirmed == reply.effect = "temporary"
ProfileConfirmed == reply.effect = "saved"

Confirmed ==
    CASE kind \in Media -> MediaConfirmed
      [] kind \in Queue -> QueueConfirmed
      [] kind = "browse" -> BrowseConfirmed
      [] kind = "servers" -> ServersConfirmed
      [] kind = "library" -> LibraryConfirmed
      [] kind = "aspect" -> AspectConfirmed
      [] kind = "notify" -> NotifyConfirmed
      [] kind = "screenshot" -> ScreenshotConfirmed
      [] kind = "detailed" -> DetailedConfirmed
      [] kind = "seek" -> SeekConfirmed
      [] kind = "profile" -> ProfileConfirmed

\* The deadline counts until the answer was read, a seek's only until it is
\* sent.
TooLate == late /\ Wants.timed

Accept ==
    /\ pc = "wait" /\ reply.is = "ok"
    /\ Ends(IF TooLate \/ ~Confirmed THEN "uncertain" ELSE "accepted")

Refused ==
    /\ pc = "wait" /\ reply.is \in {"rejected", "400"}
    /\ Ends("refused")

\* A variant that takes a deadline that passed for one that passed before the
\* request was sent.
GiveUpAsUnsent == pc = "wait" /\ Ends(IF late THEN "unsent" ELSE "uncertain")

\* No answer, or one the command cannot read.
GiveUp ==
    /\ pc = "wait"
    /\ Ends("uncertain")

-----------------------------------------------------------------------------
World == Restart \/ Deploy \/ Admit \/ Execute \/ ApplyAspect \/ Reject \/ Lose \/ Late
Command == Fail \/ Read \/ Confirm \/ Send \/ Accept \/ Refused \/ GiveUp

Next == World \/ Command

Spec == Init /\ [][Next]_vars

-----------------------------------------------------------------------------
(* Correctness                                                             *)

\* "No ... command was sent" and "The request was not repeated" after a
\* refusal stay true: no player executes it, then or later.  An accepted
\* request was executed once, and by the runtime whose capabilities it relied
\* on unless it names none; an aspect ratio may still be lost to a restart.
\* Whatever is reported, nothing is executed twice.
HonestOutcome ==
    /\ Len(did) <= 1
    /\ outcome \in {"unsent", "refused"} => did = <<>> /\ flying = None /\ pending = None
    /\ outcome = "accepted" /\ kind # "aspect" =>
         /\ Len(did) = 1
         /\ Wants.bound \/ kind = "detailed" => did[1].runtime = seen.runtime

\* A temporary local playback never changes the saved source, whichever
\* version of the player and of the controller it ends up at.
TemporaryOnly ==
    kind = "session" => \A i \in 1 .. Len(did) : did[i].effect = "temporary"

\* What a command says of its request is so, and a temporary playback is one.
SafeCommand == HonestOutcome /\ TemporaryOnly

=============================================================================
