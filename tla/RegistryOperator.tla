-------------------------- MODULE RegistryOperator --------------------------
(***************************************************************************)
(* "ott registry add | approve | revoke | rotate | reconcile | resume |    *)
(* forget", "ott remove" and "ott unalias" of cli/device_registry.py: an   *)
(* administrator changes one identity of the controller's device registry. *)
(*                                                                         *)
(* A request and the alias that goes with it are saved in a checkpoint     *)
(* before anything is sent.  The command may be killed, or give up, at any *)
(* step; its request may still reach the controller.  A later "resume"     *)
(* reads the receipt of the operation, and sends the same request again    *)
(* when there is none, within 24 hours: the controller keeps receipts as   *)
(* long.  The controller may turn any request away (429) before it looks   *)
(* for a receipt, and the command retires the checkpoint on every answer   *)
(* below 500.  Other administrators change the same identity.              *)
(***************************************************************************)
EXTENDS Naturals, FiniteSets

CONSTANTS
    MaxOperations,  \* operations this administrator prepares
    MaxPosts,       \* times the request of one of them is sent
    MaxChanges,     \* changes by other administrators
    MaxDays         \* how long it is watched, in recovery windows

OperatorAssumption ==
    MaxOperations \in Nat /\ MaxPosts \in Nat /\ MaxChanges \in Nat /\ MaxDays \in Nat

VARIABLES
    row,            \* the identity in the registry: [gen, state]
    receipts,       \* of the operations of this administrator, by operation
    effects,        \* history: by operation, how often it changed the registry
    day,            \* recovery windows passed
    changes,
    flight,         \* what is on its way: [request, nth], the nth of its operation
    posts,          \* by operation, how often its request was sent
    reply,          \* to the command at work: a receipt, "refused", "unknown" or "none"
    checkpoint,     \* the file, or None
    alias,          \* whether the local alias is there
    pc,
    at,             \* the operation the command works on, or None
    receipt,        \* the receipt it holds, or None
    prepared,       \* operations prepared
    settled,        \* history: by operation, "done", "refused", "forgotten" or "open"
    unaliased       \* history: generations whose removal took the alias away

registry == <<row, receipts, effects, changes>>
command == <<pc, at, receipt>>
local == <<checkpoint, alias, prepared, settled, unaliased>>
network == <<flight, posts, reply>>
vars == <<registry, day, network, command, local>>

None == [op |-> 0]
Operations == 1..MaxOperations
Kinds == {"add", "approve", "rotate", "revoke", "remove"}
NoReceipt == [gen |-> 0, state |-> "none", on |-> 0]

Init ==
    /\ row \in {[gen |-> 0, state |-> "absent"], [gen |-> 1, state |-> "active"]}
    /\ changes = 0 /\ day = 0
    /\ receipts = [o \in Operations |-> NoReceipt]
    /\ effects = [o \in Operations |-> 0]
    /\ flight = {} /\ posts = [o \in Operations |-> 0] /\ reply = "none"
    /\ checkpoint = None /\ alias \in BOOLEAN
    /\ pc = "idle" /\ at = None /\ receipt = NoReceipt
    /\ prepared = 0 /\ settled = [o \in Operations |-> "open"] /\ unaliased = {}

----------------------------------------------------------------------------
(* The command; two of them exclude each other by a lock. *)

\* A new request names the generation it was planned for and is refused while a
\* checkpoint is left.  "remove" is a revocation that takes the alias too; what
\* "rotate" does stands for "reconcile", which asks the same of a static identity.
Prepare(kind) ==
    /\ pc = "idle" /\ checkpoint = None /\ prepared < MaxOperations
    /\ kind = "remove" => alias
    /\ kind \in {"rotate", "revoke", "remove"} => row.state # "absent"
    /\ prepared' = prepared + 1
    /\ at' = [op |-> prepared + 1, kind |-> kind, gen |-> row.gen, on |-> day]
    /\ pc' = "prepared"
    /\ UNCHANGED <<registry, day, network, receipt, checkpoint, alias, settled, unaliased>>

Save ==
    /\ pc = "prepared" /\ checkpoint' = at /\ pc' = "send"
    /\ UNCHANGED <<registry, day, network, at, receipt, alias, prepared, settled, unaliased>>

\* Bounded by MaxPosts.
Send ==
    /\ pc = "send" /\ posts[at.op] < MaxPosts
    /\ posts' = [posts EXCEPT ![at.op] = @ + 1]
    /\ flight' = flight \cup {[request |-> at, nth |-> posts[at.op] + 1]}
    /\ reply' = "none" /\ pc' = "sent"
    /\ UNCHANGED <<registry, day, at, receipt, local>>

\* A variant that resumes a checkpoint of any age.
ResumeAnytime ==
    /\ pc = "idle" /\ checkpoint # None
    /\ at' = checkpoint
    /\ pc' = "lookup"
    /\ UNCHANGED <<registry, day, network, receipt, local>>

\* "resume", within the window.
Resume ==
    /\ pc = "idle" /\ checkpoint # None /\ checkpoint.on = day
    /\ at' = checkpoint /\ pc' = "lookup"
    /\ UNCHANGED <<registry, day, network, receipt, local>>

Kept(op) == receipts[op] # NoReceipt /\ receipts[op].on = day

\* The receipt is read first; where there is none the request is sent again.
Lookup ==
    /\ pc = "lookup"
    /\ IF Kept(at.op) THEN receipt' = receipts[at.op] /\ pc' = "confirm"
                      ELSE receipt' = receipt /\ pc' = "send"
    /\ UNCHANGED <<registry, day, network, at, local>>

HasReceipt ==
    /\ pc = "sent" /\ reply = "receipt"
    /\ receipt' = receipts[at.op] /\ pc' = "confirm"
    /\ UNCHANGED <<registry, day, network, at, local>>

\* Any status below 500 retires the checkpoint, whatever it was answered to.
Refused ==
    /\ pc = "sent" /\ reply = "refused"
    /\ checkpoint' = None /\ settled' = [settled EXCEPT ![at.op] = "refused"]
    /\ pc' = "idle" /\ at' = None /\ receipt' = NoReceipt
    /\ UNCHANGED <<registry, day, network, alias, prepared, unaliased>>

\* The registry must still show what the receipt says before the alias moves.
Confirm ==
    /\ pc = "confirm" /\ receipt.gen = row.gen /\ receipt.state = row.state
    /\ pc' = "confirmed"
    /\ UNCHANGED <<registry, day, network, at, receipt, local>>

SetAlias ==
    /\ pc = "confirmed"
    /\ alias' = IF at.kind \in {"add", "approve"} THEN TRUE ELSE alias /\ at.kind # "remove"
    /\ unaliased' = IF at.kind = "remove" THEN unaliased \cup {at.gen} ELSE unaliased
    /\ pc' = "settle"
    /\ UNCHANGED <<registry, day, network, at, receipt, checkpoint, prepared, settled>>

Settle ==
    /\ pc = "settle"
    /\ checkpoint' = None /\ settled' = [settled EXCEPT ![at.op] = "done"]
    /\ pc' = "idle" /\ at' = None /\ receipt' = NoReceipt
    /\ UNCHANGED <<registry, day, network, alias, prepared, unaliased>>

\* The command is killed, or ends on an error; the file stays as it is.
Stop ==
    /\ pc # "idle" /\ pc' = "idle" /\ at' = None /\ receipt' = NoReceipt
    /\ UNCHANGED <<registry, day, network, local>>

Forget ==
    /\ pc = "idle" /\ checkpoint # None
    /\ settled' = [settled EXCEPT ![checkpoint.op] = "forgotten"] /\ checkpoint' = None
    /\ UNCHANGED <<registry, day, network, command, alias, prepared, unaliased>>

\* "unalias" and "alias" change the name alone.
Rename ==
    /\ pc = "idle" /\ (alias \/ row.state = "active") /\ alias' = ~alias
    /\ UNCHANGED <<registry, day, network, command, checkpoint, prepared, settled, unaliased>>

----------------------------------------------------------------------------
(* The controller, other administrators and time. *)

\* "add" is for a new device, "approve" for a new or an active one; the others are
\* for the generation they name, whether it is active or was revoked.
Fits(request) ==
    CASE request.kind = "add" -> row.state = "absent"
      [] request.kind = "approve" -> row.state # "revoked"
      [] OTHER -> row.state # "absent" /\ row.gen = request.gen

\* What has changed has a new generation.
NewRow(state) == [gen |-> row.gen + 1, state |-> state]
After(request) ==
    IF request.kind = "rotate" \/ row.state = "absent" THEN NewRow("active")
    ELSE IF request.kind = "approve" \/ row.state = "revoked" THEN row
    ELSE NewRow("revoked")

\* The reply reaches the command that still waits for it, or nobody.
Reply(post, value) ==
    /\ reply' \in IF pc = "sent" /\ at = post.request /\ posts[at.op] = post.nth
                  THEN {value, "unknown"} ELSE {reply}
    /\ UNCHANGED posts

\* A request is turned away before anything is looked up (the rate is exceeded,
\* the administrator is not known) or because it does not fit or finds no room; it
\* is answered with the receipt of its operation, where there is one; or it is
\* carried out.
Handle(post) ==
    LET request == post.request IN
    /\ flight' = flight \ {post}
    /\ \/ Reply(post, "refused") /\ UNCHANGED registry
       \/ Kept(request.op) /\ Reply(post, "receipt") /\ UNCHANGED registry
       \/ /\ ~Kept(request.op) /\ Fits(request)
          /\ row' = After(request)
          /\ receipts' = [receipts EXCEPT ![request.op] =
                             [gen |-> row'.gen, state |-> row'.state, on |-> day]]
          /\ effects' = [effects EXCEPT ![request.op] = @ + 1]
          /\ Reply(post, "receipt")
          /\ UNCHANGED changes
    /\ UNCHANGED <<day, command, local>>

Lose(post) ==
    /\ flight' = flight \ {post}
    /\ UNCHANGED <<registry, day, posts, reply, command, local>>

Others ==
    /\ changes < MaxChanges /\ changes' = changes + 1
    /\ row' \in {NewRow("active")} \cup (IF row.state = "absent" THEN {} ELSE {NewRow("revoked")})
    /\ UNCHANGED <<receipts, effects, day, network, command, local>>

\* A window passes: receipts expire, and no request or command lasts as long.
NextDay ==
    /\ day < MaxDays /\ flight = {} /\ pc = "idle" /\ day' = day + 1
    /\ UNCHANGED <<registry, network, command, local>>

----------------------------------------------------------------------------
Next ==
    \/ \E kind \in Kinds : Prepare(kind)
    \/ Save \/ Send \/ Resume \/ Lookup \/ HasReceipt \/ Refused \/ Confirm \/ SetAlias
    \/ Settle \/ Stop \/ Forget \/ Rename
    \/ \E post \in flight : Handle(post) \/ Lose(post)
    \/ Others \/ NextDay

Spec == Init /\ [][Next]_vars

----------------------------------------------------------------------------
\* However often a command is killed and resumed, an operation changes the
\* registry at most once: nothing others revoked since is brought back.
EffectOnce == \A o \in Operations : effects[o] <= 1

\* However its command ends, an operation that has been sent is in the checkpoint
\* until it is settled: confirmed, refused or forgotten.
InDoubtKept == \A o \in Operations : posts[o] > 0 /\ settled[o] = "open" => checkpoint.op = o

\* One reported done took effect.  One refused the first time it was sent did not,
\* nor will.  One that a "resume" sent again may be refused although it took effect,
\* or may yet: the refusal may have come before the look at the receipts.
HonestRefusal ==
    \A o \in Operations :
        /\ settled[o] = "done" => effects[o] > 0
        /\ settled[o] = "refused" /\ posts[o] = 1 =>
             effects[o] = 0 /\ \A post \in flight : post.request.op # o

\* "remove" takes the alias of a generation away only once its access ended.
RemovedMeansRevoked == \A g \in unaliased : ~(row.gen = g /\ row.state = "active")

SafeRecovery == EffectOnce /\ InDoubtKept /\ HonestRefusal /\ RemovedMeansRevoked
=============================================================================
