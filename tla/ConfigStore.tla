----------------------------- MODULE ConfigStore -----------------------------
(***************************************************************************)
(* cli.json, the private configuration every command of the CLI shares.    *)
(*                                                                         *)
(* It holds player aliases and groups, bindings, presets and, attached to  *)
(* a preset, documents of favorites.  Commands that run at the same time   *)
(* each read it, work for a while and replace it as a whole:               *)
(*   - a favorites command (cli/preset_favorites.py) plans a change of one *)
(*     document, then replaces the file under a lock, after a backup and a *)
(*     last comparison of its bytes and identity;                          *)
(*   - a group command compares what it read before it writes, and so does *)
(*     a device-power binding, under a lock of its own;                    *)
(*   - "alias", and "android bind", write what they loaded when they began,*)
(*     "add" what it reads at the end of the provisioning.                 *)
(* Nothing keeps commands apart that share no lock: what one of them wrote *)
(* after the last look of another is lost.  A command may be killed        *)
(* between any two of its steps.                                           *)
(***************************************************************************)
EXTENDS Naturals

CONSTANTS
    Updates,        \* the commands
    Kind,           \* by command: "favorites", "group", "power", "alias" or "add"
    Field,          \* by command: the part of the configuration it changes
    Together        \* the sets of commands that may run at the same time

ConfigAssumption ==
    /\ Kind \in [Updates -> {"favorites", "group", "power", "alias", "add"}]
    /\ "free" \notin Updates
    /\ Together \subseteq SUBSET Updates

VARIABLES
    file,           \* the configuration: what every field holds, and its inode
    backups,        \* contents kept beside it
    lock,           \* by lock file: the command that holds it, or "free"
    pc,             \* by command
    seen,           \* by command: the file as it read it
    outcome,        \* by command
    since,          \* history: by command, those that replaced the file since its last look
    replaced        \* history: by command, the content it replaced

vars == <<file, backups, lock, pc, seen, outcome, since, replaced>>

Fields == {Field[u] : u \in Updates}
Locks == {"favorites", "power"}
Old == [content |-> [f \in Fields |-> "old"], inode |-> 0]

Init ==
    /\ file = Old /\ backups = {} /\ lock = [l \in Locks |-> "free"]
    /\ \E some \in Together : pc = [u \in Updates |-> IF u \in some THEN "start" ELSE "done"]
    /\ seen = [u \in Updates |-> Old]
    /\ outcome = [u \in Updates |-> "none"]
    /\ since = [u \in Updates |-> {}]
    /\ replaced = [u \in Updates |-> Old.content]

----------------------------------------------------------------------------
At(u, kind, step) == Kind[u] = kind /\ pc[u] = step
Goes(u, step) == pc' = [pc EXCEPT ![u] = step]
Released(u) == [l \in Locks |-> IF lock[l] = u THEN "free" ELSE lock[l]]

\* What it read is still there, byte for byte.
Same(u) == file.content = seen[u].content
\* And is still the same file.
SameFile(u) == file = seen[u]

\* It looks at the file as it is now.
Looks(u) == since' = [since EXCEPT ![u] = {}]

Load(u) ==
    /\ pc[u] = "start" /\ Goes(u, "loaded")
    /\ seen' = [seen EXCEPT ![u] = file] /\ Looks(u)
    /\ UNCHANGED <<file, backups, lock, outcome, replaced>>

\* The command works: it verifies a device, or collects favorites from
\* players.  A plan of favorites is made against an unchanged file.
Work(u) ==
    /\ pc[u] = "loaded" /\ Kind[u] # "add" /\ Goes(u, "planned")
    /\ Kind[u] = "favorites" => Same(u)
    /\ UNCHANGED <<file, backups, lock, seen, outcome, since, replaced>>

\* "add" provisions the device and reads the file again.
ReadAgain(u) ==
    /\ At(u, "add", "loaded") /\ Goes(u, "planned")
    /\ seen' = [seen EXCEPT ![u] = file] /\ Looks(u)
    /\ UNCHANGED <<file, backups, lock, outcome, replaced>>

\* A variant that takes no lock.
TakeNoLock(u) ==
    /\ Kind[u] \in Locks /\ pc[u] = "planned" /\ Same(u)
    /\ Goes(u, "locked")
    /\ UNCHANGED <<file, backups, lock, seen, outcome, since, replaced>>

\* A lock that is held ends the command; the plan is compared before and
\* after it is taken.
TakeLock(u) ==
    /\ Kind[u] \in Locks /\ pc[u] = "planned"
    /\ Kind[u] = "favorites" => Same(u)
    /\ lock[Kind[u]] = "free"
    /\ lock' = [lock EXCEPT ![Kind[u]] = u]
    /\ Goes(u, "locked")
    /\ UNCHANGED <<file, backups, seen, outcome, since, replaced>>

Check(u) ==
    /\ At(u, "favorites", "locked") /\ Same(u) /\ Goes(u, "checked")
    /\ seen' = [seen EXCEPT ![u] = file] /\ Looks(u)
    /\ UNCHANGED <<file, backups, lock, outcome, replaced>>

BackUp(u) ==
    /\ At(u, "favorites", "checked") /\ Goes(u, "saved")
    /\ backups' = backups \cup {seen[u].content}
    /\ UNCHANGED <<file, lock, seen, outcome, since, replaced>>

\* The last look before the replacement, where there is one.
Verified(u) == Goes(u, "verified") /\ UNCHANGED <<file, backups, lock, seen, outcome, replaced>>
LookFavorites(u) == At(u, "favorites", "saved") /\ SameFile(u) /\ Looks(u) /\ Verified(u)
LookGroup(u) == At(u, "group", "planned") /\ Same(u) /\ Looks(u) /\ Verified(u)
LookPower(u) == At(u, "power", "locked") /\ Same(u) /\ Looks(u) /\ Verified(u)
LookNot(u) ==
    /\ Kind[u] \in {"alias", "add"} /\ pc[u] = "planned"
    /\ Verified(u) /\ UNCHANGED since

\* The rename over the configuration; when the directory cannot be synced
\* afterwards, a favorites command says that it does not know.
Replace(u) ==
    /\ pc[u] = "verified" /\ Goes(u, "done")
    /\ file' = [content |-> [seen[u].content EXCEPT ![Field[u]] = u], inode |-> file.inode + 1]
    /\ \/ outcome' = [outcome EXCEPT ![u] = "changed"]
       \/ Kind[u] = "favorites" /\ outcome' = [outcome EXCEPT ![u] = "uncertain"]
    /\ since' = [v \in Updates |-> IF v # u /\ pc[v] \notin {"start", "done"}
                                    THEN since[v] \cup {u} ELSE since[v]]
    /\ replaced' = [replaced EXCEPT ![u] = file.content]
    /\ lock' = Released(u)
    /\ UNCHANGED <<backups, seen>>

\* A check that fails, an error or a kill: nothing is replaced, and what it
\* held is free.
End(u) ==
    /\ pc[u] # "done" /\ Goes(u, "done")
    /\ outcome' = [outcome EXCEPT ![u] = "refused"]
    /\ lock' = Released(u)
    /\ UNCHANGED <<file, backups, seen, since, replaced>>

Next ==
    \E u \in Updates :
        \/ Load(u) \/ Work(u) \/ ReadAgain(u) \/ TakeLock(u) \/ Check(u) \/ BackUp(u)
        \/ LookFavorites(u) \/ LookGroup(u) \/ LookPower(u) \/ LookNot(u)
        \/ Replace(u) \/ End(u)

Spec == Init /\ [][Next]_vars

----------------------------------------------------------------------------
\* Only commands of one kind share a lock.
Exclude(u, v) == Kind[u] = Kind[v] /\ Kind[u] \in Locks

\* What a command replaced is what it saw when it last looked, unless another wrote
\* after that look: one that no lock keeps away.  The content that a favorites
\* command saw is in a backup, however its replacement ends.
SafeReplacement ==
    \A u \in Updates : outcome[u] \in {"changed", "uncertain"} =>
        /\ since[u] = {} => replaced[u] = seen[u].content
        /\ \A v \in since[u] : ~Exclude(u, v)
        /\ Kind[u] = "favorites" => seen[u].content \in backups
=============================================================================
