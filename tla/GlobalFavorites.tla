--------------------------- MODULE GlobalFavorites ---------------------------
(***************************************************************************)
(* The favorites a player keeps across its providers, listed and changed   *)
(* from the command line: cli/global_favorites_commands.py, _items.py,     *)
(* _items_commands.py, _remote.py, _protocol.py, _document.py,             *)
(* _recovery.py and _operations.py.                                        *)
(*                                                                         *)
(* A run reads a snapshot, plans the new document itself, has the player   *)
(* stage the same change, compares the player's preview with its own plan  *)
(* and commits.  The viewer and other runs change the favorites meanwhile, *)
(* requests and answers are lost, and one given up may still be executed.  *)
(*                                                                         *)
(* A row is a portable item and its title; a document is a sequence of     *)
(* rows with different items.  One number stands for the pair of revisions *)
(* (document and context) that the player gives.  Chunks, pages of an      *)
(* immutable snapshot and digests are left out: a snapshot is read whole   *)
(* or not at all.  The file of a recovery record is FavoritesReplace's.    *)
(***************************************************************************)
EXTENDS Naturals, Sequences, FiniteSets

CONSTANTS
    Run, NoRun,
    Item, Title,
    Goals,         \* what a run may be asked for
    Saved,         \* documents saved with a preset, to be loaded
    MaxRevision    \* bound of the model: changes of the player's favorites

Row == [id : Item, title : Title]
Ids(d) == {d[i].id : i \in DOMAIN d}
Document == {d \in UNION {[1..n -> Row] : n \in 0..Cardinality(Item)} :
                Cardinality(Ids(d)) = Len(d)}

GlobalAssumption ==
    /\ IsFiniteSet(Item) /\ IsFiniteSet(Title)
    /\ NoRun \notin Run
    /\ Goals \subseteq {"list", "play", "add", "remove", "merge", "replace", "clear",
                        "preview", "acknowledge"}
    /\ Saved \subseteq Document
    /\ MaxRevision \in Nat \ {0}

VARIABLES
    \* the player
    doc, rev,
    stage,         \* the one transaction: its run, revision and result
    fate,          \* what the player knows of each run's transaction
    acked,         \* runs whose commit was acknowledged as uncertain
    net, reply,    \* requests that may yet be executed, and their answers
    \* the runs
    goal, pc,
    rows, fence,   \* rows listed so far, and the revision of the first page
    first,         \* history: the favorites when the first page was read
    picked,        \* the row to add, remove or play
    basis, base,   \* the snapshot and its revision
    wanted,        \* the incoming document
    expected,      \* the revision begin names
    about          \* the run whose commit is acknowledged

player == <<doc, rev, stage, fate, acked>>
inputs == <<goal, rows, fence, first, picked, basis, base, wanted, about>>
vars == <<player, net, reply, inputs, pc, expected>>

NoRow == [id |-> "none", title |-> "none"]
NoStage == [run |-> NoRun, rev |-> 0, result |-> <<>>, shown |-> FALSE]
Requests == {"begin", "preview", "commit", "abort", "play", "acknowledge"}
Fates == {"none", "open", "closed", "committed", "unresolved"}

TypeOK ==
    /\ doc \in Document /\ rev \in 1..MaxRevision
    /\ stage \in [run : Run \cup {NoRun}, rev : 0..MaxRevision, result : Document,
                  shown : BOOLEAN]
    /\ fate \in [Run -> Fates] /\ acked \subseteq Run
    /\ net \subseteq Run \X Requests
    /\ reply \in [Run -> {"none", "ok", "rejected"}]
    /\ goal \in [Run -> Goals \cup {"none"}]
    /\ rows \in [Run -> Document] /\ first \in [Run -> Document] /\ fence \in [Run -> 0..MaxRevision]
    /\ picked \in [Run -> Row \cup {NoRow}]
    /\ basis \in [Run -> Document] /\ base \in [Run -> 0..MaxRevision]
    /\ wanted \in [Run -> Document] /\ expected \in [Run -> 0..MaxRevision]
    /\ about \in [Run -> Run \cup {NoRun}]

-----------------------------------------------------------------------------
(* The plan of a change (plan_documents)                                   *)

\* The numbers of S in their order.
InOrder(S) ==
    CHOOSE f \in [1..Cardinality(S) -> S] : \A i, j \in DOMAIN f : i < j => f[i] < f[j]

\* The rows of d without those of the items given.
Without(d, items) ==
    LET left == InOrder({i \in DOMAIN d : d[i].id \notin items}) IN
    [n \in DOMAIN left |-> d[left[n]]]

\* New items are appended; the title of a known one stands, and it is a conflict if
\* another one comes in.
Plan(current, incoming, mode) ==
    LET old == IF mode = "merge" THEN current ELSE <<>> IN
    [rows |-> old \o Without(incoming, Ids(old)),
     conflict |-> \E i \in DOMAIN incoming :
                     /\ incoming[i].id \in Ids(old)
                     /\ \A j \in DOMAIN old : old[j] # incoming[i]]

\* The counts a preview has to agree on.
Place(d, i) == CHOOSE n \in DOMAIN d : d[n].id = i
Summary(old, new) ==
    LET kept == Ids(old) \cap Ids(new) IN
    [before |-> Len(old), after |-> Len(new), retained |-> Cardinality(kept),
     moved |-> Cardinality({i \in kept : Place(old, i) # Place(new, i)}),
     retitled |-> Cardinality({i \in kept : old[Place(old, i)] # new[Place(new, i)]})]

Mode(r) == IF goal[r] \in {"add", "merge", "preview"} THEN "merge" ELSE "replace"
Planned(r) == Plan(basis[r], wanted[r], Mode(r)).rows

-----------------------------------------------------------------------------
(* Control                                                                 *)

Init ==
    /\ doc \in Document /\ rev = 1
    /\ stage = NoStage /\ fate = [r \in Run |-> "none"] /\ acked = {}
    /\ net = {} /\ reply = [r \in Run |-> "none"]
    /\ goal = [r \in Run |-> "none"] /\ pc = [r \in Run |-> "start"]
    /\ rows = [r \in Run |-> <<>>] /\ fence = [r \in Run |-> 0]
    /\ first = [r \in Run |-> <<>>]
    /\ picked = [r \in Run |-> NoRow] /\ basis = [r \in Run |-> <<>>]
    /\ base = [r \in Run |-> 0] /\ wanted = [r \in Run |-> <<>>]
    /\ expected = [r \in Run |-> 0] /\ about = [r \in Run |-> NoRun]

Go(r, p) == pc' = [pc EXCEPT ![r] = p]
Post(r, k) ==
    /\ Go(r, k)
    /\ net' = net \cup {<<r, k>>}
    /\ reply' = [reply EXCEPT ![r] = "none"]

\* parse, run and discover: the capability of the operation is there.
Invoke(r, g) ==
    /\ goal[r] = "none"
    /\ goal' = [goal EXCEPT ![r] = g]
    /\ Go(r, CASE g \in {"list", "play", "remove"} -> "list"
               [] g = "add"                        -> "capture"
               [] g = "acknowledge"                -> "inspect"
               [] OTHER                            -> "export")
    /\ UNCHANGED <<player, net, reply, rows, fence, first, picked, basis, base, wanted, about, expected>>

\* A refused or invalid answer, no answer in time, a conflict of titles or a
\* limit, before anything was staged.
Refuse(r) ==
    /\ pc[r] \in {"list", "listed", "capture", "export", "planned", "inspect", "intent",
                  "play", "acknowledge"}
    /\ Go(r, "done")
    /\ UNCHANGED <<player, net, reply, inputs, expected>>

-----------------------------------------------------------------------------
(* Reading                                                                 *)

\* Mutant: a later page is taken whatever its revision.
SamePageUnchecked(r) == Len(rows[r]) < Len(doc)

\* ItemsPeer.list: a later page belongs to the revision of the first.
SamePage(r) == fence[r] = rev

\* One page; it holds one row.
ReadPage(r) ==
    /\ pc[r] = "list"
    /\ \/ /\ fence[r] = 0
          /\ fence' = [fence EXCEPT ![r] = rev]
          /\ first' = [first EXCEPT ![r] = doc]
       \/ /\ fence[r] # 0 /\ SamePage(r)
          /\ UNCHANGED <<fence, first>>
    /\ rows' = [rows EXCEPT ![r] = IF doc = <<>> THEN @ ELSE Append(@, doc[Len(@) + 1])]
    /\ Cardinality(Ids(rows'[r])) = Len(rows'[r])
    /\ Go(r, IF Len(rows'[r]) = Len(doc) THEN "listed" ELSE "list")
    /\ UNCHANGED <<player, net, reply, goal, picked, basis, base, wanted, about, expected>>

\* _select, and play: one request that names the row and the revision.
Select(r) ==
    /\ pc[r] = "listed" /\ goal[r] \in {"play", "remove"}
    /\ \E i \in DOMAIN rows[r] : picked' = [picked EXCEPT ![r] = rows[r][i]]
    /\ IF goal[r] = "play" THEN Post(r, "play") ELSE Go(r, "export") /\ UNCHANGED <<net, reply>>
    /\ UNCHANGED <<player, goal, rows, fence, first, basis, base, wanted, about, expected>>

\* current: what the player plays now, to be added under the title given.
Capture(r) ==
    /\ pc[r] = "capture"
    /\ \E row \in Row : picked' = [picked EXCEPT ![r] = row]
    /\ fence' = [fence EXCEPT ![r] = rev]
    /\ Go(r, "export")
    /\ UNCHANGED <<player, net, reply, goal, rows, first, basis, base, wanted, about, expected>>

\* _change: the snapshot is the one that add and remove were chosen from.
Fenced(r) ==
    /\ goal[r] \in {"add", "remove"} => fence[r] = rev
    /\ goal[r] = "remove" => rows[r] = doc

\* The document that is sent.
Incoming(r) ==
    CASE goal[r] = "add"    -> {<<picked[r]>>}
      [] goal[r] = "remove" -> {Without(doc, {picked[r].id})}
      [] goal[r] = "clear"  -> {<<>>}
      [] OTHER              -> Saved

\* describe and the pages of its snapshot, then the plan without conflict.
Export(r) ==
    /\ pc[r] = "export" /\ Fenced(r)
    /\ basis' = [basis EXCEPT ![r] = doc] /\ base' = [base EXCEPT ![r] = rev]
    /\ \E w \in Incoming(r) :
          /\ wanted' = [wanted EXCEPT ![r] = w]
          /\ ~Plan(doc, w, Mode(r)).conflict
    /\ Go(r, "planned")
    /\ UNCHANGED <<player, net, reply, goal, rows, fence, first, picked, about, expected>>

-----------------------------------------------------------------------------
(* Staging and committing                                                  *)

\* require_write_ready: RecoveryPeer.list shows every uncertain commit
\* acknowledged.
Recovered == \A o \in Run : fate[o] = "unresolved" => o \in acked

\* Mutant: the description is renewed but not compared with the snapshot.
RefreshedUnchecked(r) == TRUE

\* _stage: the renewed description is that of the snapshot.
Refreshed(r) == rev = base[r] /\ doc = basis[r]

\* _preflight, and begin under the revision of the renewed description.
Stage(r) ==
    /\ pc[r] = "planned"
    /\ goal[r] = "preview" \/ Recovered
    /\ Refreshed(r)
    /\ expected' = [expected EXCEPT ![r] = rev]
    /\ Post(r, "begin")
    /\ UNCHANGED <<player, inputs>>

\* begin was accepted; the chunks follow, and the preview.
Staged(r) ==
    /\ pc[r] = "begin" /\ reply[r] = "ok"
    /\ Post(r, "preview")
    /\ UNCHANGED <<player, inputs, expected>>

\* The preview's counts and result are those of the local plan.
Bound(r) ==
    /\ Summary(doc, stage.result) = Summary(basis[r], Planned(r))
    /\ stage.result = Planned(r)

\* The player answers the preview of its stage.  A preview of its own is then
\* aborted; otherwise the recovery record is stored.
Previewed(r) ==
    /\ pc[r] = "preview" /\ reply[r] = "ok" /\ stage.run = r /\ Bound(r)
    /\ \/ goal[r] = "preview" /\ Post(r, "abort")
       \/ goal[r] # "preview" /\ Go(r, "save") /\ UNCHANGED <<net, reply>>
    /\ UNCHANGED <<player, inputs, expected>>

\* A rejection, an answer that does not fit, none in time, or a record that
\* could not be stored: an abort when begin gave the transaction.
StageFails(r) ==
    /\ \/ /\ pc[r] = "begin" /\ Go(r, "not_applied") /\ UNCHANGED <<net, reply>>
       \/ /\ pc[r] \in {"preview", "save"} \/ (pc[r] = "begin" /\ reply[r] = "ok")
          /\ Post(r, "abort")
    /\ UNCHANGED <<player, inputs, expected>>

\* The answer of an abort only tells how the clean-up went.
Aborted(r) ==
    /\ pc[r] = "abort"
    /\ Go(r, "not_applied")
    /\ UNCHANGED <<player, net, reply, inputs, expected>>

\* The record is stored and the commit is sent, once.
Commit(r) ==
    /\ pc[r] = "save"
    /\ Post(r, "commit")
    /\ UNCHANGED <<player, inputs, expected>>

Committed(r) ==
    /\ pc[r] = "commit" /\ reply[r] = "ok"
    /\ Go(r, "verified")
    /\ UNCHANGED <<player, net, reply, inputs, expected>>

\* No verified answer: the status is asked, and never the commit again.
Reconcile(r) ==
    /\ pc[r] = "commit"
    /\ \/ Go(r, "unknown")
       \/ fate[r] = "committed" /\ Go(r, "verified")
       \/ fate[r] \in {"open", "closed"} /\ Go(r, "not_applied")
    /\ UNCHANGED <<player, net, reply, inputs, expected>>

-----------------------------------------------------------------------------
(* Acknowledging an uncertain commit                                       *)

\* inspect, and the confirmation of its plan by the user.
Inspect(r) ==
    /\ pc[r] = "inspect"
    /\ \E o \in Run :
          /\ fate[o] = "unresolved" /\ o \notin acked
          /\ about' = [about EXCEPT ![r] = o]
    /\ Go(r, "intent")
    /\ UNCHANGED <<player, net, reply, goal, rows, fence, first, picked, basis, base, wanted, expected>>

\* RecoveryPeer.acknowledge: the intent is stored, then one request.
Acknowledge(r) ==
    /\ pc[r] = "intent"
    /\ Post(r, "acknowledge")
    /\ UNCHANGED <<player, inputs, expected>>

\* Its answer, or what one inspection shows after a lost one.
Acknowledged(r) ==
    /\ pc[r] = "acknowledge"
    /\ reply[r] = "ok" \/ about[r] \in acked
    /\ Go(r, "done")
    /\ UNCHANGED <<player, net, reply, inputs, expected>>

-----------------------------------------------------------------------------
(* The player, the network and the viewer                                  *)

Take(r, k) == <<r, k>> \in net /\ net' = net \ {<<r, k>>}
Answer(r, v) == reply' = [reply EXCEPT ![r] = v]
Replace(d) ==
    /\ rev < MaxRevision
    /\ doc' = d /\ rev' = rev + 1

PlayerBegins(r) ==
    /\ Take(r, "begin")
    /\ \/ /\ stage = NoStage /\ expected[r] = rev
          /\ stage' = [NoStage EXCEPT !.run = r, !.rev = rev]
          /\ fate' = [fate EXCEPT ![r] = "open"]
          /\ Answer(r, "ok")
       \/ Answer(r, "rejected") /\ UNCHANGED <<stage, fate>>
    /\ UNCHANGED <<doc, rev, acked, inputs, pc, expected>>

\* It plans the change itself; another planner may have another result.
PlayerPreviews(r) ==
    /\ Take(r, "preview")
    /\ stage.run = r /\ stage.rev = rev
    /\ \E d \in {Plan(doc, wanted[r], Mode(r)).rows, wanted[r]} :
          stage' = [stage EXCEPT !.result = d, !.shown = TRUE]
    /\ Answer(r, "ok")
    /\ UNCHANGED <<doc, rev, fate, acked, inputs, pc, expected>>

\* Applied with proof; or not proved, and then perhaps not applied.
PlayerCommits(r) ==
    /\ Take(r, "commit")
    /\ stage.run = r /\ stage.shown /\ stage.rev = rev
    /\ \/ /\ Replace(stage.result) /\ Answer(r, "ok")
          /\ fate' = [fate EXCEPT ![r] = "committed"]
       \/ /\ Replace(stage.result) \/ UNCHANGED <<doc, rev>>
          /\ fate' = [fate EXCEPT ![r] = "unresolved"]
          /\ UNCHANGED reply
    /\ stage' = NoStage
    /\ UNCHANGED <<acked, inputs, pc, expected>>

PlayerAborts(r) ==
    /\ Take(r, "abort")
    /\ IF stage.run = r
       THEN stage' = NoStage /\ fate' = [fate EXCEPT ![r] = "closed"]
       ELSE UNCHANGED <<stage, fate>>
    /\ UNCHANGED <<doc, rev, acked, reply, inputs, pc, expected>>

\* Playing the item changes no favorite; the revision must be the listed one.
PlayerPlays(r) ==
    /\ Take(r, "play")
    /\ Answer(r, IF fence[r] = rev THEN "ok" ELSE "rejected")
    /\ UNCHANGED <<player, inputs, pc, expected>>

PlayerAcknowledges(r) ==
    /\ Take(r, "acknowledge")
    /\ acked' = acked \cup {about[r]}
    /\ Answer(r, "ok")
    /\ UNCHANGED <<doc, rev, stage, fate, inputs, pc, expected>>

\* The transaction's time is over, or the player restarts.
PlayerExpires ==
    /\ stage # NoStage
    /\ fate' = [fate EXCEPT ![stage.run] = "closed"]
    /\ stage' = NoStage
    /\ UNCHANGED <<doc, rev, acked, net, reply, inputs, pc, expected>>

\* The viewer adds, removes, renames or moves a favorite.
ViewerChanges ==
    /\ \E d \in Document :
          /\ d # doc
          /\ Cardinality({i \in Item : (i \in Ids(doc)) # (i \in Ids(d))}) <= 1
          /\ Replace(d)
    /\ UNCHANGED <<stage, fate, acked, net, reply, inputs, pc, expected>>

Next ==
    \/ \E r \in Run :
          \/ \E g \in Goals : Invoke(r, g)
          \/ Refuse(r) \/ ReadPage(r) \/ Select(r) \/ Capture(r) \/ Export(r)
          \/ Stage(r) \/ Staged(r) \/ Previewed(r) \/ StageFails(r) \/ Aborted(r)
          \/ Commit(r) \/ Committed(r) \/ Reconcile(r)
          \/ Inspect(r) \/ Acknowledge(r) \/ Acknowledged(r)
          \/ PlayerBegins(r) \/ PlayerPreviews(r) \/ PlayerCommits(r) \/ PlayerAborts(r)
          \/ PlayerPlays(r) \/ PlayerAcknowledges(r)
    \/ PlayerExpires \/ ViewerChanges

Spec == Init /\ [][Next]_vars

-----------------------------------------------------------------------------
(* Properties                                                              *)

\* What a commit changes is what the user was told: the favorites were those of
\* the snapshot, and become those of the plan.  Nothing the viewer or another
\* run changed in between is lost, however late the commit is executed.
CommitsThePlan ==
    \A r \in Run :
        stage.run = r /\ stage'.run = NoRun /\ doc' # doc
            => doc = basis[r] /\ doc' = Planned(r)

\* A list that is shown was the player's at one moment, also when favorites
\* change between its pages.
ListedAtOnce ==
    \A r \in Run : pc[r] = "listed" => rows[r] = first[r]

=============================================================================
