--------------------------- MODULE TorrentCatalog ---------------------------
(***************************************************************************)
(* "torrent list | inspect | add | refresh | rename | remove | import |    *)
(* play | status | cancel" of cli/torrent_catalog.py: one invocation       *)
(* against one player.                                                     *)
(*                                                                         *)
(* A change reads the catalogue, plans its final content, may wait for the *)
(* metadata of a source, and uploads a document to be applied at exactly   *)
(* the revision it read.  The identity of every operation is on disk       *)
(* before its first request.  An import can carry favorites, a second      *)
(* store that is written once the catalogue is.  A request may be lost, or *)
(* arrive after the command gave up on it; the player may restart, and     *)
(* others change both stores.                                              *)
(***************************************************************************)
EXTENDS Naturals, FiniteSets

CONSTANTS
    Ids,            \* entry identifiers
    Chunks,         \* requests that carry the document
    MaxChanges,     \* changes by others
    MaxRestarts

CatalogAssumption ==
    IsFiniteSet(Ids) /\ Chunks \in Nat \ {0} /\ MaxChanges \in Nat /\ MaxRestarts \in Nat

VARIABLES
    runtime,        \* the runs of the player so far
    catalog,        \* its catalogue: [rev, doc]
    uploads,        \* the operation of the write, as the player keeps it
    loading,        \* the operation of the metadata
    favorites,      \* "free", "conflict" or "merged": towards the favorites of the import
    applied,        \* history: the changes by this command
    played,         \* history: whether a play was admitted
    merged,         \* history: whether its favorites were committed
    changes,
    network,        \* the request on its way, or None
    answer,         \* the answer on its way, or None
    command, phase, asked,
    bound,          \* the runtime it discovered
    before,         \* the catalogue it read
    final,          \* the content it plans
    written,        \* the content the answer of the commit names
    sent,           \* chunks sent
    durable,        \* operations whose record is on disk
    uncertain,      \* the operation whose effect it cannot tell, or "none"
    outcome

player == <<runtime, catalog, uploads, loading, favorites, applied, played, merged, changes>>
plan == <<command, bound, before, final, written, sent>>
client == <<plan, phase, asked, durable, uncertain, outcome>>
vars == <<player, network, answer, client>>

None == [op |-> "none"]
NoUpload == [state |-> "none", next |-> 0, rev |-> 0, mode |-> "none", doc |-> <<>>]

\* A document: for every entry its content, 0 where it has none.
Docs == [Ids -> 0..2]

\* A merge refuses an entry that is there with another content.
Merges(old, new, mode) ==
    mode = "merge" => \A i \in Ids : old[i] = 0 \/ new[i] = 0 \/ old[i] = new[i]
Merge(old, new, mode) ==
    IF mode = "replace" THEN new ELSE [i \in Ids |-> IF old[i] = 0 THEN new[i] ELSE old[i]]

\* The document a command uploads: what it imports, or the catalogue it read
\* with one entry changed.
Incoming(current) ==
    IF command.op = "import" THEN command.doc
    ELSE [current EXCEPT ![command.id] = command.content]

\* "refresh" is an "add" to an entry that is there; "files" and "export" read
\* what "list" reads.  A command may name metadata that an earlier one asked for.
OnEntry(op, id, content) ==
    [op |-> op, mode |-> "replace", id |-> id, content |-> content, with |-> FALSE,
     known |-> op \in {"status", "cancel"}]
Commands ==
    {[op |-> "import", mode |-> mode, doc |-> doc, with |-> with, known |-> FALSE] :
        mode \in {"merge", "replace"}, doc \in {d \in Docs : \E i \in Ids : d[i] = 1},
        with \in BOOLEAN}
    \cup {[OnEntry("add", id, 2) EXCEPT !.known = known] : id \in Ids, known \in BOOLEAN}
    \cup {OnEntry("rename", id, 2) : id \in Ids}
    \cup {OnEntry(op, id, 0) :
            op \in {"remove", "play", "list", "inspect", "status", "cancel"}, id \in Ids}

Init ==
    /\ command \in Commands
    /\ runtime = 1 /\ catalog \in [rev : {1}, doc : Docs]
    /\ uploads = NoUpload /\ changes = 0
    /\ loading \in IF command.known THEN {"pending", "ready"} ELSE {"none"}
    /\ favorites \in {"free", "conflict"} /\ merged = FALSE
    /\ applied = {} /\ played = FALSE
    /\ network = None /\ answer = None
    /\ phase = "discover" /\ asked = FALSE
    /\ bound = 0 /\ before = [rev |-> 0, doc |-> <<>>] /\ final = <<>> /\ written = <<>>
    /\ sent = 0
    /\ durable = {} /\ uncertain = "none" /\ outcome = "none"

----------------------------------------------------------------------------
(* The command. *)

Ends(status) ==
    /\ outcome' = status /\ phase' = "done" /\ asked' = FALSE
    /\ UNCHANGED <<plan, durable, uncertain>>

\* A variant that reports every error as a failure.
FailureAlways == IF phase = "favorites" THEN "partial" ELSE "failed"

\* An error ends the command: as failed where no operation is in doubt, as
\* unknown otherwise; once the catalogue is written, as partial.
Failure ==
    IF phase = "favorites" THEN "partial"
    ELSE IF uncertain = "none" THEN "failed" ELSE "unknown"

Open(p) == phase = p /\ ~asked

\* Send a request that names the runtime; the answer is awaited.
Ask(op, body) ==
    /\ network' = [op |-> op, runtime |-> bound, body |-> body]
    /\ asked' = TRUE
    /\ UNCHANGED <<player, answer, plan, phase, durable, uncertain, outcome>>

Discover == Open("discover") /\ Ask("capabilities", 0)
Operate == Open("operate") /\ Ask(command.op, 0)
Read == Open("read") /\ Ask("read", 0)
Fetch == Open("fetch") /\ Ask("read_chunk", before.doc)
Metadata == Open("metadata") /\ Ask("metadata", 0)
Status == (Open("known") \/ Open("status")) /\ Ask("status", 0)
Contents == Open("contents") /\ Ask("read_chunk", <<>>)
Begin ==
    /\ Open("begin")
    /\ Ask("write_begin", [rev |-> before.rev, mode |-> command.mode, doc |-> Incoming(before.doc)])
Upload == Open("upload") /\ Ask("write_chunk", sent)
Commit == Open("commit") /\ Ask("write_commit", 0)
ReadBack == Open("readback") /\ Ask("read_chunk", written)
Play == Open("play") /\ Ask("play", before.rev)

\* The record of the operation is on disk before the operation is sent; from
\* here on an error leaves its effect in doubt.
Intent(op, next) ==
    /\ durable' = durable \cup {op}
    /\ uncertain' = op
    /\ phase' = next
    /\ UNCHANGED <<player, network, answer, plan, asked, outcome>>

RecordMetadata ==
    /\ Open("fetched") /\ command.op \in {"add", "inspect"} /\ ~command.known
    /\ Intent("metadata", "metadata")
RecordPlay ==
    /\ Open("fetched") /\ command.op = "play"
    /\ before.doc[command.id] # 0
    /\ Intent("play", "play")
RecordWrite == Open("planned") /\ final # before.doc /\ Intent("write", "begin")

\* Metadata of an earlier command is only asked for again, and no record is
\* made for it.
UseKnown ==
    /\ Open("fetched") /\ command.op = "add" /\ command.known
    /\ phase' = "known"
    /\ UNCHANGED <<player, network, answer, plan, asked, durable, uncertain, outcome>>

Shown ==
    /\ \/ Open("fetched") /\ command.op = "list"
       \/ Open("loaded") /\ command.op = "inspect"
    /\ Ends("ready") /\ UNCHANGED <<player, network, answer>>

\* The final content, with the favorites of an import planned too.
Plan ==
    /\ phase \in {"fetched", "loaded"} /\ ~asked
    /\ IF command.op = "add" THEN phase = "loaded" ELSE command.op \in {"import", "rename", "remove"}
    /\ command.op \in {"rename", "remove"} => before.doc[command.id] # 0
    /\ Merges(before.doc, Incoming(before.doc), command.mode)
    /\ command.with => favorites # "conflict"
    /\ final' = Merge(before.doc, Incoming(before.doc), command.mode)
    /\ phase' = "planned"
    /\ UNCHANGED <<player, network, answer, command, bound, before, written, sent, asked, durable,
                   uncertain, outcome>>

\* "import --dry-run" stops at the plan.
DryRun ==
    /\ Open("planned") /\ command.op = "import"
    /\ Ends("planned") /\ UNCHANGED <<player, network, answer>>

Unchanged ==
    /\ Open("planned") /\ final = before.doc
    /\ IF command.with
         THEN /\ phase' = "favorites"
              /\ UNCHANGED <<plan, asked, durable, uncertain, outcome>>
         ELSE Ends("unchanged")
    /\ UNCHANGED <<player, network, answer>>

\* An answer arrives while it is awaited and belongs to the operation.
Answered(p) == phase = p /\ asked /\ answer.op # "none" /\ answer.is = "ok"
Step(next) == phase' = next /\ asked' = FALSE /\ answer' = None
Rest == <<player, network, command, durable, outcome>>

\* "status" and "cancel" ask for an operation, "inspect" for metadata; the
\* others start with the catalogue.
Discovered ==
    /\ Answered("discover")
    /\ Step(CASE command.op \in {"status", "cancel"} -> "operate"
            [] command.op = "inspect" -> "fetched"
            [] OTHER -> "read")
    /\ bound' = answer.body
    /\ UNCHANGED <<Rest, before, final, written, sent, uncertain>>
Operated ==
    /\ Answered("operate")
    /\ Ends(answer.body) /\ UNCHANGED <<player, network, answer>>
HasRead ==
    /\ Answered("read") /\ Step("fetch") /\ before' = answer.body
    /\ UNCHANGED <<Rest, bound, final, written, sent, uncertain>>
Fetched ==
    /\ Answered("fetch") /\ answer.body = before.doc /\ Step("fetched")
    /\ UNCHANGED <<Rest, bound, before, final, written, sent, uncertain>>

\* Metadata is polled until it is ready, or reported as pending; once ready it
\* is read.
Loaded ==
    /\ Answered("metadata") \/ Answered("known") \/ Answered("status")
    /\ answer.body \in {"pending", "ready"}
    /\ Step(IF answer.body = "pending" THEN "status" ELSE "contents")
    /\ UNCHANGED <<Rest, bound, before, final, written, sent, uncertain>>
StillPending ==
    /\ Open("status")
    /\ Ends("pending") /\ UNCHANGED <<player, network, answer>>
Described ==
    /\ Answered("contents") /\ Step("loaded") /\ uncertain' = "none"
    /\ UNCHANGED <<Rest, bound, before, final, written, sent>>
NotLoaded ==
    /\ Answered("metadata") \/ Answered("known") \/ Answered("status")
    /\ answer.body \in {"failed", "cancelled"}
    /\ phase' = "done" /\ asked' = FALSE /\ outcome' = "failed" /\ uncertain' = "none"
    /\ UNCHANGED <<player, network, answer, plan, durable>>

Begun ==
    /\ Answered("begin") /\ answer.body = 0 /\ Step("upload")
    /\ UNCHANGED <<Rest, bound, before, final, written, sent, uncertain>>
Uploaded ==
    /\ Answered("upload") /\ answer.body = sent + 1
    /\ sent' = sent + 1
    /\ Step(IF sent + 1 = Chunks THEN "commit" ELSE "upload")
    /\ UNCHANGED <<Rest, bound, before, final, written, uncertain>>
NotCommitted ==
    /\ Answered("commit") /\ answer.body.state \in {"failed", "cancelled"}
    /\ phase' = "done" /\ asked' = FALSE /\ outcome' = "failed" /\ uncertain' = "none"
    /\ UNCHANGED <<player, network, answer, plan, durable>>
Committed ==
    /\ Answered("commit") /\ answer.body.state = "committed" /\ Step("readback")
    /\ written' = answer.body.doc
    /\ UNCHANGED <<Rest, bound, before, final, sent, uncertain>>
\* What was committed is read back and must be the plan.
Checked ==
    /\ Answered("readback") /\ answer.body = final
    /\ uncertain' = "none" /\ asked' = FALSE /\ answer' = None
    /\ IF command.with THEN phase' = "favorites" /\ outcome' = outcome
                       ELSE phase' = "done" /\ outcome' = "committed"
    /\ UNCHANGED <<player, network, plan, durable>>
Played ==
    /\ Answered("play")
    /\ uncertain' = "none" /\ phase' = "done" /\ asked' = FALSE /\ outcome' = "accepted"
    /\ UNCHANGED <<player, network, answer, plan, durable>>

\* The favorites are exported and planned again, then applied.
ApplyFavorites ==
    /\ Open("favorites") /\ favorites # "conflict"
    /\ \E verified, stored \in BOOLEAN :
         /\ verified => stored
         /\ favorites' = IF stored THEN "merged" ELSE favorites
         /\ merged' = (merged \/ stored)
         /\ Ends(IF verified THEN "committed" ELSE "partial")
    /\ UNCHANGED <<runtime, catalog, uploads, loading, applied, played, changes, network, answer>>

\* An error: a check before a request, a refusal, an answer of another kind,
\* an expired deadline.  Whatever is on its way stays there.
Fail ==
    /\ phase # "done"
    /\ Ends(Failure) /\ UNCHANGED <<player, network, answer>>
Interrupt ==
    /\ phase # "done"
    /\ Ends("interrupted") /\ UNCHANGED <<player, network, answer>>

----------------------------------------------------------------------------
(* The player, its other clients and the way between. *)

Reply(body) == network' = None /\ answer' = [op |-> network.op, is |-> "ok", body |-> body]
Refused == network' = None /\ answer' = [op |-> network.op, is |-> "refused", body |-> 0]
Asked(op) == network.op = op
Current(request) == request.runtime = runtime

TakeRead ==
    /\ \/ Asked("capabilities") /\ Reply(runtime)
       \/ Asked("read") /\ Current(network) /\ Reply(catalog)
       \/ Asked("read_chunk") /\ Current(network) /\ Reply(network.body)
    /\ UNCHANGED <<player, client>>

\* A cancellation ends what is pending; an operation the player does not hold
\* is refused.
TakeMetadata ==
    /\ Asked("metadata") \/ Asked("status") \/ Asked("cancel")
    /\ ~Asked("metadata") => loading # "none"
    /\ Current(network)
    /\ loading' = IF Asked("metadata") THEN "pending"
                  ELSE IF Asked("cancel") /\ loading = "pending" THEN "cancelled"
                  ELSE loading
    /\ Reply(loading')
    /\ UNCHANGED <<runtime, catalog, uploads, favorites, applied, played, merged, changes, client>>

MetadataEnds ==
    /\ loading = "pending" /\ loading' \in {"ready", "failed", "cancelled"}
    /\ UNCHANGED <<runtime, catalog, uploads, favorites, applied, played, merged, changes,
                   network, answer, client>>

TakeBegin ==
    /\ Asked("write_begin") /\ Current(network)
    /\ network.body.rev = catalog.rev /\ uploads.state = "none"
    /\ uploads' = [state |-> "uploading", next |-> 0, rev |-> network.body.rev,
                   mode |-> network.body.mode, doc |-> network.body.doc]
    /\ Reply(0)
    /\ UNCHANGED <<runtime, catalog, loading, favorites, applied, played, merged, changes, client>>

TakeChunk ==
    /\ Asked("write_chunk") /\ Current(network)
    /\ uploads.state = "uploading" /\ uploads.next = network.body
    /\ uploads' = [uploads EXCEPT !.next = @ + 1]
    /\ Reply(network.body + 1)
    /\ UNCHANGED <<runtime, catalog, loading, favorites, applied, played, merged, changes, client>>

\* The document is applied at the revision it was begun at, or the operation
\* fails.  A refusal of the store says nothing of what it holds.
TakeCommit ==
    /\ Asked("write_commit") /\ Current(network)
    /\ LET fits == /\ uploads.state = "uploading" /\ uploads.next = Chunks
                   /\ uploads.rev = catalog.rev
                   /\ Merges(catalog.doc, uploads.doc, uploads.mode)
           doc == Merge(catalog.doc, uploads.doc, uploads.mode)
       IN \/ /\ fits
             /\ catalog' = [rev |-> catalog.rev + 1, doc |-> doc]
             /\ applied' = applied \cup {[rev |-> catalog.rev, was |-> catalog.doc, now |-> doc]}
             /\ uploads' = [uploads EXCEPT !.state = "committed", !.doc = doc]
             /\ Reply([state |-> "committed", doc |-> doc]) \/ Refused
          \/ /\ uploads.state # "none"
             /\ uploads' = [uploads EXCEPT !.state = IF @ = "uploading" THEN "failed" ELSE @]
             /\ Reply([state |-> uploads'.state, doc |-> uploads.doc])
             /\ UNCHANGED <<catalog, applied>>
    /\ UNCHANGED <<runtime, loading, favorites, played, merged, changes, client>>

TakePlay ==
    /\ Asked("play") /\ Current(network) /\ network.body = catalog.rev
    /\ played' = TRUE
    /\ Reply(0)
    /\ UNCHANGED <<runtime, catalog, uploads, loading, favorites, applied, merged, changes, client>>

Refuse == network.op # "none" /\ Refused /\ UNCHANGED <<player, client>>
Lose ==
    /\ \/ network.op # "none" /\ network' = None /\ answer' = answer
       \/ answer.op # "none" /\ answer' = None /\ network' = network
    /\ UNCHANGED <<player, client>>

\* Another client cancels the upload, or it expires.
Cancel ==
    /\ uploads.state = "uploading"
    /\ uploads' = [uploads EXCEPT !.state = "cancelled"]
    /\ UNCHANGED <<runtime, catalog, loading, favorites, applied, played, merged, changes,
                   network, answer, client>>

Others ==
    /\ changes < MaxChanges /\ changes' = changes + 1
    /\ \/ /\ \E doc \in Docs : catalog' = [rev |-> catalog.rev + 1, doc |-> doc]
          /\ favorites' = favorites
       \/ /\ favorites' \in {"free", "conflict"} \ {favorites}
          /\ catalog' = catalog
    /\ UNCHANGED <<runtime, uploads, loading, applied, played, merged, network, answer, client>>

\* A restart forgets every operation; what was committed stays.
Restart ==
    /\ runtime <= MaxRestarts /\ runtime' = runtime + 1
    /\ loading' = "none"
    /\ uploads' = [uploads EXCEPT !.state = IF @ = "none" THEN "none" ELSE "forgotten"]
    /\ UNCHANGED <<catalog, favorites, applied, played, merged, changes, network, answer, client>>

----------------------------------------------------------------------------
Client ==
    \/ Discover \/ Discovered \/ Operate \/ Operated
    \/ Read \/ HasRead \/ Fetch \/ Fetched \/ Shown
    \/ RecordMetadata \/ UseKnown \/ Metadata \/ Status \/ Loaded \/ StillPending
    \/ Contents \/ Described \/ NotLoaded
    \/ Plan \/ DryRun \/ Unchanged
    \/ RecordWrite \/ Begin \/ Begun \/ Upload \/ Uploaded \/ Commit \/ Committed
    \/ NotCommitted \/ ReadBack \/ Checked \/ ApplyFavorites
    \/ RecordPlay \/ Play \/ Played
    \/ Fail \/ Interrupt

World ==
    \/ TakeRead \/ TakeMetadata \/ MetadataEnds \/ TakeBegin \/ TakeChunk \/ TakeCommit
    \/ TakePlay \/ Refuse \/ Lose \/ Cancel \/ Others \/ Restart

Next == Client \/ World
Spec == Init /\ [][Next]_vars

----------------------------------------------------------------------------
\* What the command says of the catalogue is true and stays true whatever
\* arrives late: a failure means that it never changes it, a success that it
\* replaced exactly the content it had read by exactly the content it planned,
\* with the favorites merged where it carried them.  And the player never
\* holds an operation of this command that has no record on disk.
ExactlyThePlan == \A a \in applied : a.was = before.doc /\ a.now = final
HonestCatalog ==
    /\ ExactlyThePlan /\ \A a, b \in applied : a = b
    /\ outcome \in {"failed", "unchanged", "planned", "ready", "pending", "cancelled"} =>
         applied = {} /\ ~played
    /\ outcome = "unchanged" => final = before.doc
    /\ outcome = "committed" => (applied # {} \/ final = before.doc) /\ (command.with => merged)
    /\ outcome = "partial" => applied # {} \/ final = before.doc
    /\ outcome = "accepted" => played
    /\ uploads.state # "none" => "write" \in durable
    /\ played => "play" \in durable
=============================================================================
