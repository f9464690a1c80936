--------------------------- MODULE ImagePublication ---------------------------
(***************************************************************************)
(* The container images of a release: scripts/publish_ghcr.py, which copies*)
(* the archive of any release to its exact tag, scripts/publish_verified.py*)
(* containers, which copies those of a stable release to their version and *)
(* then to latest, and scripts/verified_images.py, which writes the digests*)
(* of a version for a later deployment.                                    *)
(*                                                                         *)
(* They start when a workflow or an operator starts them and share nothing *)
(* but the registry, whose answers fail; a copy that failed may have been  *)
(* made.  Any of them may stop for good between any two steps.  The archive*)
(* of a version is the same for every image here, and a digest is the      *)
(* version whose approved bytes it is.                                     *)
(***************************************************************************)
EXTENDS Naturals, Sequences

CONSTANTS
    Exact,      \* runs of publish_ghcr.py
    Stable,     \* runs of publish_verified.py containers
    Resolve,    \* runs of verified_images.py
    Images,     \* the destinations of the policy's container_assets, in their order
    Versions

Foreign == "foreign"       \* bytes of somebody else
Replaced == "replaced"     \* bytes that are not those of the evidence
Nothing == "nothing"

Runs == Exact \cup Stable \cup Resolve
Image == {Images[i] : i \in DOMAIN Images}

ImageAssumption ==
    Images \in Seq(Image) /\ Images # <<>> /\ {Foreign, Replaced, Nothing} \cap Versions = {}

Ghcr == Head(Images)       \* IMAGE
ExactTag(v) == <<"exact", v>>
VersionTag(v) == <<"version", v>>
Latest == <<"latest", Nothing>>
Tags == {ExactTag(v) : v \in Versions} \cup {VersionTag(v) : v \in Versions} \cup {Latest}

VARIABLES
    payload,    \* version -> the archive its public release has, or "draft"
    registry,   \* image -> tag -> digest
    known,      \* images whose namespace exists in the registry
    output,     \* the verified references at the path of --output
    pc,
    job         \* the arguments of a run, its download and how far it is

remote == <<payload, registry, known>>
vars == <<remote, output, pc, job>>

NoJob == [version |-> Nothing, latest |-> FALSE, execute |-> FALSE, local |-> Nothing, at |-> 1]

\* A tag of the registry may be somebody else's from the beginning.
Init ==
    /\ payload \in [Versions -> {"draft", "approved"}]
    /\ \E taken \in SUBSET (Tags \ {Latest}) :
          /\ registry = [i \in Image |-> [t \in Tags |->
                IF i = Ghcr /\ t \in taken THEN Foreign ELSE Nothing]]
          /\ known = IF taken = {} THEN {} ELSE {Ghcr}
    /\ output = Nothing
    /\ pc = [p \in Runs |-> "idle"]
    /\ job = [p \in Runs |-> NoJob]

-----------------------------------------------------------------------------
(* The release. *)

Publish(v) ==
    /\ payload[v] = "draft"
    /\ payload' = [payload EXCEPT ![v] = "approved"]
    /\ UNCHANGED <<registry, known, output, pc, job>>

\* An asset of a public release is uploaded again.
ReplaceAsset(v) ==
    /\ payload[v] = "approved"
    /\ payload' = [payload EXCEPT ![v] = Replaced]
    /\ UNCHANGED <<registry, known, output, pc, job>>

Go(p, step) == pc' = [pc EXCEPT ![p] = step]

\* A variant that takes what the release has.
VerifiedUnchecked(v) == payload[v] # "draft"

\* Public, and byte by byte what its immutable evidence lists.
VerifiedRelease(v) == payload[v] = "approved"
VerifiedStable(v) == VerifiedRelease(v)

Bytes(v) == IF payload[v] = "approved" THEN v ELSE Replaced

Fetch(p, v, verified, step) ==
    /\ pc[p] = "idle"
    /\ \E latest \in BOOLEAN, execute \in BOOLEAN :
          job' = [job EXCEPT ![p] = [version |-> v, latest |-> latest /\ p \in Stable,
                                     execute |-> execute \/ p \in Resolve,
                                     local |-> Bytes(v), at |-> 1]]
    /\ Go(p, IF verified THEN step ELSE "failed")
    /\ UNCHANGED <<remote, output>>

-----------------------------------------------------------------------------
(* The registry. *)

\* What skopeo list-tags says of an image: its tags, that there is no such
\* repository, or anything else.  A namespace that does not exist may as well
\* deny access to it.
Answers(i) == {"denied", IF i \in known THEN "tags" ELSE "unknown"}

\* skopeo copy, which fails before or after the tag was written.
Copy(p, i, tag, next) ==
    \/ /\ registry' = [registry EXCEPT ![i][tag] = job[p].local]
       /\ known' = known \cup {i}
       /\ \E step \in {next, "failed"} : Go(p, step)
    \/ UNCHANGED <<registry, known>> /\ Go(p, "failed")

-----------------------------------------------------------------------------
(* publish_ghcr.py *)

\* What the run that triggers it published, if it is a beta, a candidate or a
\* stable release: where it is found authorizes nothing.
StartExact(p) == \E v \in Versions : Fetch(p, v, VerifiedRelease(v), "list")

Listed(p) ==
    IF registry[Ghcr][ExactTag(job[p].version)] # Nothing THEN "existing"
    ELSE IF job[p].execute THEN "copy" ELSE "verified-only"

\* A variant that takes a repository it cannot list for one without the tag.
ListHopefully(p) ==
    /\ pc[p] \in {"list", "again"}
    /\ \E answer \in Answers(Ghcr) :
          Go(p, IF answer = "tags" THEN Listed(p)
                ELSE IF job[p].execute THEN "copy"
                ELSE IF answer = "unknown" /\ pc[p] = "list" THEN "verified-only" ELSE "failed")
    /\ UNCHANGED <<remote, output, job>>

\* No error proves a tag absent: an execution creates the namespace first.
List(p) ==
    /\ pc[p] \in {"list", "again"}
    /\ \E answer \in Answers(Ghcr) :
          Go(p, IF answer = "tags" THEN Listed(p)
                ELSE IF pc[p] = "again" THEN "failed"
                ELSE IF job[p].execute THEN "bootstrap"
                ELSE IF answer = "unknown" THEN "verified-only" ELSE "failed")
    /\ UNCHANGED <<remote, output, job>>

\* Objects named by their digest only, copied and read back.
Bootstrap(p) ==
    /\ pc[p] = "bootstrap"
    /\ \E created \in BOOLEAN :
          /\ known' = IF created THEN known \cup {Ghcr} ELSE known
          /\ \E step \in {"again", "failed"} : (step = "again" => created) /\ Go(p, step)
    /\ UNCHANGED <<payload, registry, output, job>>

CopyExact(p) ==
    /\ pc[p] = "copy"
    /\ Copy(p, Ghcr, ExactTag(job[p].version), "verify")
    /\ UNCHANGED <<payload, output, job>>

\* A tag that was there, or was just written, is reported if it has the bytes.
Inspect(p) ==
    /\ pc[p] \in {"existing", "verify"}
    /\ \E read \in BOOLEAN :
          Go(p, IF read /\ registry[Ghcr][ExactTag(job[p].version)] = job[p].local
                THEN (IF pc[p] = "verify" THEN "published" ELSE "already-published")
                ELSE "failed")
    /\ UNCHANGED <<remote, output, job>>

-----------------------------------------------------------------------------
(* publish_verified.py containers *)

StartStable(p) == \E v \in Versions : Fetch(p, v, VerifiedStable(v), "preflight")

Unpublished(p, i, answer) ==
    \/ answer = "tags" /\ registry[i][VersionTag(job[p].version)] = Nothing
    \/ answer = "unknown"

\* A variant that moves latest of an image as soon as its version is copied.
CommandsByImage(p) ==
    LET Of(i) == <<<<i, VersionTag(job[p].version)>>>> \o
                 (IF job[p].latest THEN <<<<i, Latest>>>> ELSE <<>>)
        From[n \in 1..(Len(Images) + 1)] ==
            IF n > Len(Images) THEN <<>> ELSE Of(Images[n]) \o From[n + 1]
    IN From[1]

\* Every version first, and then latest.
Commands(p) ==
    LET Each(tag) == [n \in DOMAIN Images |-> <<Images[n], tag>>]
    IN Each(VersionTag(job[p].version)) \o (IF job[p].latest THEN Each(Latest) ELSE <<>>)

\* All destinations are checked before the first copy.
Preflight(p) ==
    /\ pc[p] = "preflight"
    /\ LET image == Images[job[p].at]
           last == job[p].at = Len(Images)
       IN \E answer \in Answers(image) :
             /\ Go(p, IF ~Unpublished(p, image, answer) THEN "failed"
                      ELSE IF ~last THEN "preflight"
                      ELSE IF job[p].execute THEN "command" ELSE "displayed")
             /\ job' = [job EXCEPT ![p].at = IF last THEN 1 ELSE @ + 1]
    /\ UNCHANGED <<remote, output>>

\* The commands run one by one, and the first that fails is the last.
Command(p) ==
    /\ pc[p] = "command"
    /\ LET command == Commands(p)[job[p].at]
           last == job[p].at = Len(Commands(p))
       IN /\ Copy(p, command[1], command[2], IF last THEN "done" ELSE "command")
          /\ job' = [job EXCEPT ![p].at = @ + 1]
    /\ UNCHANGED <<payload, output>>

-----------------------------------------------------------------------------
(* verified_images.py *)

StartResolve(p) == \E v \in Versions : Fetch(p, v, VerifiedStable(v), "compare")

\* A variant that takes a version the registry has for the one it approved.
SameExists(p, image) == registry[image][VersionTag(job[p].version)] # Nothing

SameBytes(p, image) == registry[image][VersionTag(job[p].version)] = job[p].local

Compare(p) ==
    /\ pc[p] = "compare"
    /\ LET image == Images[job[p].at]
           last == job[p].at = Len(Images)
       IN /\ \E read \in BOOLEAN :
                Go(p, IF ~(read /\ SameBytes(p, image)) THEN "failed"
                      ELSE IF last THEN "write" ELSE "compare")
          /\ job' = [job EXCEPT ![p].at = IF last THEN 1 ELSE @ + 1]
    /\ UNCHANGED <<remote, output>>

\* A temporary file of its own is synchronized and renamed to the path.
WriteOutput(p) ==
    /\ pc[p] = "write"
    /\ \/ output' = job[p].version /\ Go(p, "done")
       \/ UNCHANGED output /\ Go(p, "failed")
    /\ UNCHANGED <<remote, job>>

-----------------------------------------------------------------------------

Next ==
    \/ \E v \in Versions : Publish(v) \/ ReplaceAsset(v)
    \/ \E p \in Exact : StartExact(p) \/ List(p) \/ Bootstrap(p) \/ CopyExact(p) \/ Inspect(p)
    \/ \E p \in Stable : StartStable(p) \/ Preflight(p) \/ Command(p)
    \/ \E p \in Resolve : StartResolve(p) \/ Compare(p) \/ WriteOutput(p)

Spec == Init /\ [][Next]_vars

-----------------------------------------------------------------------------
(* Properties                                                              *)

TypeOK ==
    /\ payload \in [Versions -> {"draft", "approved", Replaced}]
    /\ registry \in [Image -> [Tags -> Versions \cup {Foreign, Replaced, Nothing}]]
    /\ known \subseteq Image /\ output \in Versions \cup {Nothing}
    /\ pc \in [Runs -> {"idle", "list", "again", "bootstrap", "copy", "existing", "verify",
                       "preflight", "command", "compare", "write", "published",
                       "already-published", "verified-only", "displayed", "done", "failed"}]
    /\ job \in [Runs -> [version : Versions \cup {Nothing}, latest : BOOLEAN, execute : BOOLEAN,
                        local : Versions \cup {Replaced, Nothing}, at : Nat]]

\* Whatever the registry answers and whoever publishes at the same time, the tag
\* of a version never changes once it has bytes, somebody else's included
\* (publish_archive, require_unpublished_version).
TagsKept ==
    \A i \in Image, t \in Tags \ {Latest} :
        registry[i][t] # Nothing => registry'[i][t] = registry[i][t]

\* What is reported as published is what was approved, and latest of an image is
\* a version that every image has (publish_archive, container_commands).
PublishedIsApproved ==
    /\ \A p \in Exact : pc[p] \in {"published", "already-published"} =>
          registry[Ghcr][ExactTag(job[p].version)] = job[p].version
    /\ \A i, j \in Image : registry[i][Latest] # Nothing =>
          registry[i][Latest] \in Versions /\ registry[j][VersionTag(registry[i][Latest])] = registry[i][Latest]

\* References that were written for a deployment name approved bytes that every
\* image still has under its version (resolve, write_output).
OutputDeployable ==
    output # Nothing => \A i \in Image : registry[i][VersionTag(output)] = output
=============================================================================
