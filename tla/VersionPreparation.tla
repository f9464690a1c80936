-------------------------- MODULE VersionPreparation --------------------------
(***************************************************************************)
(* scripts/prepare_version.py: choose the next version, commit the version *)
(* files of the current default branch to release/version-X and open one   *)
(* pull request for it.                                                    *)
(*                                                                         *)
(* Nothing is locked.  Several preparations run at once, each may stop     *)
(* between any two steps and be started again, and meanwhile other people  *)
(* merge, tag, push to the same branch, and delete it.  The branch is      *)
(* pushed without force, so git accepts a push only when it keeps what is  *)
(* there.                                                                  *)
(***************************************************************************)
EXTENDS Naturals, Sequences

CONSTANTS
    Preparers,
    MaxVersion,     \* the patch numbers considered
    MaxMain,        \* commits of the default branch
    MaxCommits      \* commits of the preparation branches

PreparationAssumption == MaxVersion \in Nat /\ MaxMain \in Nat /\ MaxCommits \in Nat

Versions == 1..MaxVersion
NoCommit == 0

VARIABLES
    main,           \* the default branch, for each commit: [version, sources], where
                    \* sources numbers what the tree holds apart from the version
    tags,           \* the versions released: [version, at: commit of main]
    commits,        \* preparation commits: id -> [main, foreign, before: their ancestors]
    topic,          \* version -> the tip of its branch, or NoCommit
    pulls,          \* the versions with an open pull request
    merged,         \* those in the default branch: [commit, at]
    gone,           \* history: commits of branches that were closed or merged
    pc, head, target, tip, opened, report

remote == <<main, tags, commits, topic, pulls, merged, gone>>
local == <<pc, head, target, tip, opened, report>>
vars == <<remote, local>>

Init ==
    /\ main \in {<<[version |-> b, sources |-> 0]>> : b \in Versions}
    /\ tags = {} /\ commits = <<>> /\ topic = [v \in Versions |-> NoCommit] /\ pulls = {}
    /\ merged = {} /\ gone = {}
    /\ pc = [p \in Preparers |-> "start"]
    /\ head = [p \in Preparers |-> 0] /\ target = [p \in Preparers |-> 0]
    /\ tip = [p \in Preparers |-> NoCommit] /\ opened = [p \in Preparers |-> FALSE]
    /\ report = [p \in Preparers |-> "none"]

----------------------------------------------------------------------------
(* The version. *)

Stable(at) == {t.version : t \in {x \in tags : x.at <= at}}
Occupied == {t.version : t \in tags}
Highest(S) == CHOOSE x \in S : \A y \in S : y <= x
Lowest(S) == CHOOSE x \in S : \A y \in S : x <= y

\* A prepared cycle that is not released yet is kept; a version asked for must
\* not be taken, nor be older than the one in the source.
Base(at) == main[at].version
Bumped(at) ==
    IF Stable(at) = {} \/ Base(at) > Highest(Stable(at)) THEN Base(at) ELSE Highest(Stable(at)) + 1

Free(v) == {x \in Versions : x >= v /\ x \notin Occupied}
NextPatch(at) == {v \in Free(Bumped(at)) : v = Lowest(Free(Bumped(at)))}
Requested(at) == Free(Base(at))

----------------------------------------------------------------------------
(* A preparation. *)

At(p, from, to) == pc[p] = from /\ pc' = [pc EXCEPT ![p] = to]

Fetch(p) ==
    /\ At(p, "start", "choose")
    /\ head' = [head EXCEPT ![p] = Len(main)]
    /\ UNCHANGED <<remote, target, tip, opened, report>>

Choose(p) ==
    /\ At(p, "choose", "pulls")
    /\ \E v \in NextPatch(head[p]) \cup Requested(head[p]) : target' = [target EXCEPT ![p] = v]
    /\ UNCHANGED <<remote, head, tip, opened, report>>

Pulls(p) ==
    /\ At(p, "pulls", "topic")
    /\ opened' = [opened EXCEPT ![p] = target[p] \in pulls]
    /\ UNCHANGED <<remote, head, target, tip, report>>

\* A variant that adopts the branch whatever is on it.
TopicUnverified(p) ==
    /\ At(p, "topic", "commit")
    /\ tip' = [tip EXCEPT ![p] = topic[target[p]]]
    /\ opened[p] => topic[target[p]] # NoCommit
    /\ UNCHANGED <<remote, head, target, opened, report>>

Ancestors(c) == IF c = NoCommit THEN {} ELSE commits[c].before \cup {c}
Merged(at) == {m.commit : m \in {x \in merged : x.at <= at}}

\* The trees of two commits of main differ at most by the version.
SameSources(at, other) == main[at].sources = main[other].sources

\* An existing branch is adopted when it adds nothing to the commit checked out but
\* the version files as they are generated: a branch cut from a later commit adds what
\* main gained until then.  An open pull request has its branch.
Topic(p) ==
    /\ At(p, "topic", "commit")
    /\ tip' = [tip EXCEPT ![p] = topic[target[p]]]
    /\ opened[p] => topic[target[p]] # NoCommit
    /\ topic[target[p]] \notin Merged(head[p]) \cup {NoCommit} =>
         LET c == commits[topic[target[p]]]
         IN  ~c.foreign /\ (c.main > head[p] => SameSources(c.main, head[p]))
    /\ UNCHANGED <<remote, head, target, opened, report>>

\* The tree is that of the commit checked out, with the version; the branch may
\* have it already, and so may the default branch.
Unchanged(p) ==
    /\ pc[p] = "commit" /\ ~opened[p] /\ Base(head[p]) = target[p]
    /\ pc' = [pc EXCEPT ![p] = "done"] /\ report' = [report EXCEPT ![p] = "unchanged"]
    /\ UNCHANGED <<remote, head, target, tip, opened>>

\* The tree is the one the branch has.
UpToDate(p) == tip[p] # NoCommit /\ SameSources(commits[tip[p]].main, head[p])

\* The new commit follows the branch that was verified, and git refuses it when
\* the branch has moved, unless it has moved to where the commit comes from.
Push(p) ==
    /\ At(p, "commit", "pull")
    /\ ~(~opened[p] /\ Base(head[p]) = target[p])
    /\ IF UpToDate(p) THEN UNCHANGED <<commits, topic>>
       ELSE /\ Len(commits) < MaxCommits
            /\ topic[target[p]] = NoCommit \/ topic[target[p]] \in Ancestors(tip[p]) \cup Merged(head[p])
            /\ commits' = Append(commits, [main |-> head[p], foreign |-> FALSE, 
                                          before |-> Ancestors(tip[p]) \cup Merged(head[p])])
            /\ topic' = [topic EXCEPT ![target[p]] = Len(commits')]
    /\ UNCHANGED <<main, tags, pulls, merged, gone, head, target, tip, opened, report>>

\* GitHub keeps one pull request for a branch.
Pull(p) ==
    /\ pc[p] = "pull" /\ pc' = [pc EXCEPT ![p] = "done"]
    /\ IF opened[p] THEN UNCHANGED pulls
       ELSE target[p] \notin pulls /\ topic[target[p]] # NoCommit /\ pulls' = pulls \cup {target[p]}
    /\ report' = [report EXCEPT ![p] = "prepared"]
    /\ UNCHANGED <<main, tags, commits, topic, merged, gone, head, target, tip, opened>>

\* An error or a crash; the preparation is run again from the start.
Stop(p) ==
    /\ pc[p] # "start" /\ pc' = [pc EXCEPT ![p] = "start"]
    /\ head' = [head EXCEPT ![p] = 0] /\ target' = [target EXCEPT ![p] = 0]
    /\ tip' = [tip EXCEPT ![p] = NoCommit] /\ opened' = [opened EXCEPT ![p] = FALSE]
    /\ report' = [report EXCEPT ![p] = "none"]
    /\ UNCHANGED remote

----------------------------------------------------------------------------
(* Other people. *)

\* Bounded by MaxMain.
MergeOther ==
    /\ Len(main) < MaxMain
    /\ main' = Append(main, [main[Len(main)] EXCEPT !.sources = @ + 1])
    /\ UNCHANGED <<tags, commits, topic, pulls, merged, gone, local>>

MergePull(v) ==
    /\ v \in pulls /\ topic[v] # NoCommit /\ Len(main) < MaxMain
    /\ LET adds == \E c \in Ancestors(topic[v]) \ Merged(Len(main)) : commits[c].foreign
           old == main[Len(main)].sources
       IN  main' = Append(main, [version |-> v, sources |-> IF adds THEN old + 1 ELSE old])
    /\ pulls' = pulls \ {v}
    /\ gone' = gone \cup Ancestors(topic[v])
    \* As a merge or in one commit of its own; the branch is deleted or left.
    /\ merged' \in {merged, merged \cup {[commit |-> c, at |-> Len(main')] : c \in Ancestors(topic[v])}}
    /\ topic' \in {topic, [topic EXCEPT ![v] = NoCommit]}
    /\ UNCHANGED <<tags, commits, local>>

Release ==
    /\ Base(Len(main)) \notin Occupied
    /\ tags' = tags \cup {[version |-> Base(Len(main)), at |-> Len(main)]}
    /\ UNCHANGED <<main, commits, topic, pulls, merged, gone, local>>

\* Bounded by MaxCommits.
PushForeign(v) ==
    /\ Len(commits) < MaxCommits
    /\ commits' = Append(commits, [main |-> Len(main), foreign |-> TRUE, before |-> Ancestors(topic[v])])
    /\ topic' = [topic EXCEPT ![v] = Len(commits')]
    /\ UNCHANGED <<main, tags, pulls, merged, gone, local>>

Close(v) ==
    /\ v \in pulls /\ pulls' = pulls \ {v}
    /\ topic' \in {topic, [topic EXCEPT ![v] = NoCommit]}
    /\ gone' = gone \cup Ancestors(topic[v])
    /\ UNCHANGED <<main, tags, commits, merged, local>>

----------------------------------------------------------------------------
Next ==
    \/ \E p \in Preparers :
         Fetch(p) \/ Choose(p) \/ Pulls(p) \/ Topic(p) \/ Unchanged(p) \/ Push(p) \/ Pull(p) \/ Stop(p)
    \/ MergeOther \/ Release
    \/ \E v \in Versions : MergePull(v) \/ PushForeign(v) \/ Close(v)

Spec == Init /\ [][Next]_vars

----------------------------------------------------------------------------
\* A preparation never builds on, and so never reverts, what somebody else has
\* pushed to the branch and not merged; no commit of a branch is lost unless the
\* branch was merged or closed; and no version is below the one it was cut from.
OwnedTopic ==
    /\ \A c \in DOMAIN commits :
         ~commits[c].foreign => \A b \in commits[c].before : commits[b].foreign => b \in Merged(commits[c].main)
    /\ \A c \in DOMAIN commits : c \in gone \/ \E v \in Versions : c \in Ancestors(topic[v])
    /\ \A p \in Preparers : target[p] # 0 => target[p] >= Base(head[p])
=============================================================================
