---------------------------- MODULE TorrentIndexer ----------------------------
(***************************************************************************)
(* "ott PLAYER torrent indexer" of cli/torrent_indexer.py: one operation   *)
(* on the indexer sources kept by the player's companion, after one look   *)
(* at the player's capabilities and, before a search, at the source's.     *)
(*                                                                         *)
(* Every request names the runtime that was read first; a player that has  *)
(* restarted refuses it.  A request may wait in the queue longer than its  *)
(* sender.  The player hands it to its companion, and may give up waiting  *)
(* for it: it then refuses the request, with a reason that says so, while  *)
(* the companion still works.  Other administrators replace the source     *)
(* meanwhile.                                                              *)
(***************************************************************************)
EXTENDS Naturals, FiniteSets

CONSTANTS
    MaxRuntime,     \* restarts of the player
    MaxGeneration   \* configurations of the source

IndexerAssumption == MaxRuntime \in Nat /\ MaxGeneration \in Nat

VARIABLES
    runtime,        \* the player's
    source,         \* [present, generation, available, children]
    queue,          \* requests that the player may still take
    companion,      \* requests it gave up, which its companion may still carry out
    asked,          \* the command: [op, child]
    pc, seen,       \* seen: the capabilities read first: [runtime, children]
    answer,         \* to the request of the command: [kind, op, runtime, generation]
    attempted,      \* the operations it has sent, in order of the checks
    status, reason, \* what it reports, and the kind of reason it gives
    effects         \* history: what the companion executed: [op, runtime, generation]

world == <<runtime, source>>
vars == <<world, queue, companion, asked, pc, seen, answer, attempted, status, reason, effects>>

Mutations == {"configure", "remove", "prepare"}
Operations == Mutations \cup {"list", "caps", "indexers", "doctor", "search"}
Scoped == {"caps", "search", "doctor"}
NoAnswer == [kind |-> "none", op |-> "none", runtime |-> 0, generation |-> 0]

Init ==
    /\ runtime = 1
    /\ source \in [present : BOOLEAN, generation : {1}, available : BOOLEAN, children : BOOLEAN]
    /\ queue = {} /\ companion = {} /\ effects = {} /\ attempted = {}
    /\ asked \in {a \in [op : Operations, child : BOOLEAN] : a.child => a.op \in Scoped}
    /\ pc = "discover" /\ seen = [runtime |-> 0, children |-> FALSE]
    /\ answer = NoAnswer /\ status = "none" /\ reason = "none"

----------------------------------------------------------------------------
(* The command. *)

Goes(where) == pc' = where /\ UNCHANGED <<world, queue, companion, asked, seen, answer, attempted, status, reason, effects>>
Reports(what, why) ==
    /\ pc' = "done" /\ status' = what /\ reason' = why
    /\ UNCHANGED <<world, queue, companion, asked, seen, answer, attempted, effects>>

\* A player without children is not asked for them.
Discover ==
    /\ pc = "discover"
    /\ seen' = [runtime |-> runtime, children |-> source.children]
    /\ pc' = IF asked.op \in {"search", "doctor"} THEN "caps" ELSE "operation"
    /\ UNCHANGED <<world, queue, companion, asked, answer, attempted, status, reason, effects>>

Able == asked.op = "indexers" \/ asked.child => seen.children

\* The operations sent, one after another, with the pause between requests.
Due == IF pc \in {"caps", "caps_wait"} THEN "caps" ELSE IF asked.op = "doctor" THEN "search" ELSE asked.op

Send ==
    /\ pc \in {"caps", "operation"} /\ Able
    /\ queue' = queue \cup {[op |-> Due, runtime |-> seen.runtime]}
    /\ attempted' = attempted \cup {Due}
    /\ answer' = NoAnswer
    /\ pc' = IF pc = "caps" THEN "caps_wait" ELSE "wait"
    /\ UNCHANGED <<world, companion, asked, seen, status, reason, effects>>

\* Only an answer to this operation of this runtime counts.
Valid == answer.op = Due /\ answer.runtime = seen.runtime

\* The source must offer a search, and what is searched for; a diagnosis without
\* a query ends here.
Checked ==
    /\ pc = "caps_wait" /\ answer.kind = "ok" /\ Valid
    /\ \/ answer.generation > 0 /\ Goes("operation")
       \/ Reports("failed", "local")
       \/ asked.op = "doctor" /\ Reports("ok", "none")

Answered ==
    /\ pc = "wait" /\ answer.kind = "ok" /\ Valid
    /\ Reports("ok", "none")

\* Every well-formed refusal is reported as a failure, with its reason: "refused"
\* stands for those about the request (torznab_source_missing, runtime_changed,
\* ...), "unfinished" for those that only say that no answer of the companion was
\* had (companion_timeout, companion_request_failed, torznab_timeout,
\* torznab_network_error, torznab_cancelled, ...).
Refusals == {"refused", "unfinished"}
Refused ==
    /\ pc \in {"caps_wait", "wait"} /\ answer.kind \in Refusals /\ Valid
    /\ Reports("failed", answer.kind)

\* A variant that reports every other error as a failure.
FailOpen == pc # "done" /\ Reports("failed", "local")

\* Anything else, a malformed answer, an error, the deadline: a mutation that
\* has been sent is in doubt.
Fail ==
    /\ pc # "done"
    /\ Reports(IF attempted # {} /\ asked.op \in Mutations THEN "unknown" ELSE "failed", "local")

Interrupted == pc # "done" /\ Reports("unknown", "none")

----------------------------------------------------------------------------
(* The player, its companion, the queue and other administrators. *)

Reply(q, what) ==
    answer' \in {answer, [kind |-> what, op |-> q.op, runtime |-> runtime,
                          generation |-> IF source.present /\ source.available THEN source.generation ELSE 0]}

\* What the companion does for a request.
Carried(q) ==
    /\ effects' = effects \cup {[op |-> q.op, runtime |-> q.runtime, generation |-> source.generation]}
    /\ source' = CASE q.op = "configure" -> [source EXCEPT !.present = TRUE, !.generation = @ + 1]
                   [] q.op = "remove" -> [source EXCEPT !.present = FALSE]
                   [] OTHER -> source

\* The player takes a request.  It has it carried out, refuses it, or gives up
\* waiting for its companion.
Execute(q) ==
    /\ q \in queue /\ queue' = queue \ {q}
    /\ \/ /\ q.runtime = runtime /\ Carried(q) /\ Reply(q, "ok")
          /\ UNCHANGED companion
       \/ /\ Reply(q, "refused")
          /\ UNCHANGED <<source, companion, effects>>
       \/ /\ q.runtime = runtime /\ companion' = companion \cup {q} /\ Reply(q, "unfinished")
          /\ UNCHANGED <<source, effects>>
    /\ UNCHANGED <<runtime, asked, pc, seen, attempted, status, reason>>

\* The companion carries out what it was given after all, or never does.
Act(q) ==
    /\ q \in companion /\ companion' = companion \ {q} /\ Carried(q)
    /\ UNCHANGED <<runtime, queue, asked, pc, seen, answer, attempted, status, reason>>

Abandon(q) ==
    /\ q \in companion /\ companion' = companion \ {q}
    /\ UNCHANGED <<world, queue, asked, pc, seen, answer, attempted, status, reason, effects>>

Drop(q) ==
    /\ q \in queue /\ queue' = queue \ {q}
    /\ UNCHANGED <<world, companion, asked, pc, seen, answer, attempted, status, reason, effects>>

\* Bounded by MaxRuntime.
Restart ==
    /\ runtime < MaxRuntime /\ runtime' = runtime + 1
    /\ UNCHANGED <<source, queue, companion, asked, pc, seen, answer, attempted, status, reason, effects>>

\* Bounded by MaxGeneration.
Others ==
    /\ source.generation < MaxGeneration
    /\ \E p, a \in BOOLEAN :
         source' = [source EXCEPT !.present = p, !.available = a, !.generation = @ + 1]
    /\ UNCHANGED <<runtime, queue, companion, asked, pc, seen, answer, attempted, status, reason, effects>>

----------------------------------------------------------------------------
Next ==
    \/ Discover \/ Send \/ Checked \/ Answered \/ Refused \/ Fail \/ Interrupted
    \/ \E q \in queue : Execute(q) \/ Drop(q)
    \/ \E q \in companion : Act(q) \/ Abandon(q)
    \/ Restart \/ Others

Spec == Init /\ [][Next]_vars

----------------------------------------------------------------------------
Took(op) == \E e \in effects : e.op = op

\* A mutation is reported done only when the companion has executed it for the
\* runtime that was inspected.  One reported failed waits nowhere in the queue; it
\* is not executed, nor will be, unless the reason given is that the companion did
\* not answer: then it may have been or be, once, but by the companion alone.
\* Nothing is executed twice, and a search follows a look at the source.
HonestIndexer ==
    /\ asked.op \in Mutations =>
         /\ status = "ok" => \E e \in effects : e.op = asked.op /\ e.runtime = seen.runtime
         /\ status = "failed" => queue = {}
         /\ status = "failed" /\ reason # "unfinished" => ~Took(asked.op) /\ companion = {}
    /\ "search" \in attempted => Took("caps") /\ asked.op \in {"search", "doctor"}
    /\ \A e, f \in effects : e.op = f.op => e = f
    /\ \A q \in queue \cup companion : ~Took(q.op)
=============================================================================
