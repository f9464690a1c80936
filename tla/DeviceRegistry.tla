--------------------------- MODULE DeviceRegistry ---------------------------
(***************************************************************************)
(* The durable device registry of the control server                       *)
(* (internal/control/device_registry_*.go): who may authenticate as which  *)
(* device, and how administrators and pairing players change it.           *)
(*                                                                         *)
(* A mutation plans a new registry, saves it and only then publishes the   *)
(* identities that follow from it and the static configuration.  Approving *)
(* and claiming a pairing look up DNS between two critical sections, so    *)
(* everything may change under them.  The server may crash at any time and *)
(* start again with another configuration.                                 *)
(*                                                                         *)
(* A fresh number stands for a random generation and for a random token    *)
(* minted with it; the generation of a static identity is derived from its *)
(* id and token.  A fingerprint is modelled by what it fingerprints, the   *)
(* static token; an address stands for the address a player selected and   *)
(* the controller it was discovered under.  Diagnostics policy, scopes,    *)
(* the size of the file in bytes and the rate limits are left out.         *)
(***************************************************************************)
EXTENDS Naturals, FiniteSets

CONSTANTS
    Devices, Pairings, Operations,  \* ids
    Addresses,       \* addresses a player may select
    Configs,         \* configurations the server may be started with
    StaticTokens,    \* tokens in configurations
    None,
    MaxDevices,      \* active devices (64)
    MaxRecords,      \* records and tombstones (1024)
    MaxHashes,       \* revoked tokens of a record (64)
    MaxOrdinary,     \* receipts before only revocation is served (128)
    MaxPairings,     \* pairings, and approved claims (64)
    MaxFresh,        \* bound of the model: generations minted
    MaxFlights       \* bound of the model: lookups in progress

MaxOperations == MaxOrdinary + MaxDevices

Fresh == 1..MaxFresh
Tokens == StaticTokens \cup Fresh
Generations == Devices \X Tokens

\* Configuration.Validate: static tokens are distinct.
ASSUME ConfigAssumption ==
    \A c \in Configs :
        /\ c.static \in [Devices -> StaticTokens \cup {None}]
        /\ c.addresses \subseteq Addresses
        /\ \A d, e \in Devices :
             c.static[d] = c.static[e] => d = e \/ c.static[d] = None

ASSUME ConstantsAssumption ==
    /\ MaxDevices \in Nat /\ MaxRecords \in Nat /\ MaxHashes \in Nat
    /\ MaxOrdinary \in Nat /\ MaxPairings \in Nat /\ MaxFresh \in Nat
    /\ None \notin Tokens
    /\ StaticTokens \cap Nat = {}
    /\ Pairings \cap Operations = {}      \* `lapsed` holds both
    /\ IsFiniteSet(Devices) /\ IsFiniteSet(Pairings) /\ IsFiniteSet(Operations)

VARIABLES
    config,     \* the configuration of the running server
    registry,   \* deviceRegistry.disk: records, approved claims, operations
    file,       \* the registry on disk
    failed,     \* deviceRegistry.failed, or the server did not start
    view,       \* registryView: the identities published
    pairings,   \* Server.pairings
    flights,    \* approvals and claims between their two critical sections
    lapsed,     \* pairings and operations whose expiry has passed
    minted,     \* generations and tokens minted so far
    \* history
    created,    \* pairings that were ever created
    retired,    \* tokens whose replacement or revocation was confirmed
    applied,    \* what was applied, or was found to have been at a restart
    cancelled,  \* pairings whose cancellation was confirmed
    delivered   \* credentials that claims were answered with

vars == <<config, registry, file, failed, view, pairings, flights, lapsed,
          minted, created, retired, applied, cancelled, delivered>>

-----------------------------------------------------------------------------
(* The registry and the identities that follow from it                     *)

States == {"active", "revoked"}
NoRecord == [state |-> "none"]

\* The records validateRegistryDisk accepts.
Records ==
    {row \in [generation : Generations, state : States, token : Fresh \cup {None},
              origin : {"dynamic", "static_override"},
              fingerprint : StaticTokens \cup {None}, revoked : SUBSET Tokens] :
       /\ row.state = "active" <=> row.token # None
       /\ row.origin = "static_override" <=> row.fingerprint # None
       /\ row.token \notin row.revoked}

\* What an operation id stands for: an administrator's mutation or an approval.
Mutations ==
    [kind : {"add"}, device : Devices, expected : {None}, fingerprint : {None}]
    \cup [kind : {"convert", "revoke", "rotate"}, device : Devices,
          expected : Generations, fingerprint : {None}]
    \cup [kind : {"reconcile"}, device : Devices, expected : Generations,
          fingerprint : StaticTokens]
Approval(p) == [kind |-> "approve", pairing |-> p]
Requests == Mutations \cup {Approval(p) : p \in Pairings}

NoReceipt == [kind |-> "none"]
Receipts == [request : Requests, device : Devices, generation : Generations,
             state : States]

NoClaim == [device |-> None]
Claims == [device : Devices, generation : Generations, operation : Operations,
           address : Addresses]

Registries == [records : [Devices -> Records \cup {NoRecord}],
               claims : [Pairings -> Claims \cup {NoClaim}],
               operations : [Operations -> Receipts \cup {NoReceipt}]]

NoIdentity == [generation |-> None, state |-> "unknown", token |-> None,
               fingerprint |-> None]
Identities == [generation : Generations, state : States \cup {"conflict"},
               token : Tokens \cup {None}, fingerprint : StaticTokens \cup {None}]

Recorded(r) == {d \in Devices : r.records[d] # NoRecord}
Claimed(r) == {p \in Pairings : r.claims[p] # NoClaim}
Received(r) == {o \in Operations : r.operations[o] # NoReceipt}

\* The static configuration contradicts the record.
Conflicts(c, d, row) ==
    \/ row.origin = "static_override" /\ row.fingerprint # c.static[d]
    \/ row.origin = "dynamic" /\ c.static[d] # None

Identity(c, r, d) ==
    LET row == r.records[d]
    IN  IF row = NoRecord
        THEN IF c.static[d] = None THEN NoIdentity
             ELSE [generation |-> <<d, c.static[d]>>, state |-> "active",
                   token |-> c.static[d], fingerprint |-> c.static[d]]
        ELSE IF Conflicts(c, d, row)
        THEN [generation |-> row.generation, state |-> "conflict", token |-> None,
              fingerprint |-> c.static[d]]
        ELSE [generation |-> row.generation, state |-> row.state,
              token |-> row.token, fingerprint |-> c.static[d]]

Merged(c, r) == [d \in Devices |-> Identity(c, r, d)]

Active(v) == {d \in Devices : v[d].state = "active"}

Revoked(r) == UNION {r.records[d].revoked : d \in Recorded(r)}

\* Mutant: the history of revoked credentials is not consulted.
ConsistentNow(c, r) ==
    LET v == Merged(c, r)
    IN  /\ \A d, e \in Active(v) : v[d].token = v[e].token => d = e
        /\ Cardinality(Active(v)) <= MaxDevices

\* registryIdentities refuses an active credential that was revoked or is used
\* twice, and too many active devices.
Consistent(c, r) ==
    LET v == Merged(c, r)
    IN  /\ \A d \in Active(v) : v[d].token \notin Revoked(r)
        /\ \A d, e \in Active(v) : v[d].token = v[e].token => d = e
        /\ Cardinality(Active(v)) <= MaxDevices

\* cloneRegistry drops what has expired.
Pruned(r) ==
    [r EXCEPT
       !.claims = [p \in Pairings |-> IF p \in lapsed THEN NoClaim ELSE @[p]],
       !.operations = [o \in Operations |-> IF o \in lapsed THEN NoReceipt ELSE @[o]]]

\* The tokens that revoking an identity adds to its history.
Exposed(c, v, d) == {v[d].token, c.static[d]} \ {None}

History(r, d) == IF r.records[d] = NoRecord THEN {} ELSE r.records[d].revoked

\* Mutant: receipts are not reserved.
ReservesNoReceipt(c, r) ==
    LET v == Merged(c, r)
    IN  /\ Cardinality(Recorded(r) \cup Active(v)) <= MaxRecords
        /\ \A d \in Active(v) :
             Cardinality(History(r, d) \cup Exposed(c, v, d)) <= MaxHashes

\* registryRevocationReserve: every active identity can still be revoked, all of
\* them together.
Reserved(c, r) ==
    LET v == Merged(c, r)
    IN  /\ Cardinality(Recorded(r) \cup Active(v)) <= MaxRecords
        /\ Cardinality(Received(r)) + Cardinality(Active(v)) <= MaxOperations
        /\ \A d \in Active(v) :
             Cardinality(History(r, d) \cup Exposed(c, v, d)) <= MaxHashes

Acceptable(r) ==
    /\ Cardinality(Claimed(r)) <= MaxPairings
    /\ Cardinality(Received(r)) <= MaxOperations
    /\ Consistent(config, r)
    /\ Reserved(config, r)

-----------------------------------------------------------------------------
(* Saving and publishing                                                   *)

Nobody == [d \in Devices |-> NoIdentity]

Credentials(v) == {[device |-> d, generation |-> v[d].generation,
                    token |-> v[d].token] : d \in Active(v)}

\* Mutant: the pairings of a device survive a new credential.
PublishKeepsPairings(v) == view' = v /\ UNCHANGED pairings

\* publishRegistry replaces the devices that changed and drops their pairings.
Publish(v) ==
    LET removed == {d \in Active(view) : v[d].state # "active"
                                         \/ v[d].token # view[d].token
                                         \/ v[d].generation # view[d].generation}
    IN  /\ view' = v
        /\ pairings' = [p \in Pairings |->
             IF pairings[p] # NoClaim /\ pairings[p].device \in removed
             THEN NoClaim ELSE pairings[p]]

\* Mutant: the view survives a save that failed.
KeepServing(r) ==
    /\ failed' = TRUE
    /\ UNCHANGED <<registry, view, pairings>>
    /\ file' \in {file, r}

\* A save that failed may have replaced the file: nobody authenticates any more.
CommitFails(r) ==
    /\ failed' = TRUE
    /\ Publish(Nobody)
    /\ file' \in {file, r}
    /\ UNCHANGED registry

\* Mutant: the rename may be lost.
CommitUnsynced(r) ==
    /\ registry' = r /\ file' \in {file, r}
    /\ Publish(Merged(config, r))
    /\ UNCHANGED failed

CommitSucceeds(r) ==
    /\ registry' = r /\ file' = r
    /\ Publish(Merged(config, r))
    /\ UNCHANGED failed

-----------------------------------------------------------------------------
(* Administrator mutations: registryRequest and mutateRegistry             *)

\* The tokens that mutating m.device adds to its history.
Replaced(m) ==
    Exposed(config, view, m.device) \cup
    (IF registry.records[m.device] = NoRecord THEN {}
     ELSE {registry.records[m.device].token} \ {None})

\* The operation slots that are left, for revocation and for the rest.
HasSlot(r, kind) ==
    LET taken == Cardinality(Received(r))
    IN  /\ taken < MaxOperations
        /\ kind # "revoke" => taken < MaxOrdinary

\* The identity the mutation expects is the one there is.
Matches(m) ==
    LET current == view[m.device]
        static  == config.static[m.device]
    IN  /\ m.kind = "add" => current = NoIdentity
        /\ m.kind # "add" => current # NoIdentity /\ current.generation = m.expected
        /\ m.kind = "convert" => current.state = "conflict" /\ static = None
        /\ m.kind = "reconcile" => static = m.fingerprint
        /\ m.kind \in {"revoke", "rotate"} => current.state # "conflict"

HasRoom(r, m) ==
    /\ r.records[m.device] = NoRecord => Cardinality(Recorded(r)) < MaxRecords
    /\ Cardinality(History(r, m.device) \cup Replaced(m)) <= MaxHashes

\* Mutant: a device keeps its generation.
KeepsGeneration(m) ==
    IF view[m.device] # NoIdentity THEN view[m.device].generation
    ELSE <<m.device, minted + 1>>

NewGeneration(m) ==
    IF m.kind = "revoke" /\ view[m.device].state = "revoked"
    THEN view[m.device].generation
    ELSE <<m.device, minted + 1>>

NewToken(m) == IF m.kind = "revoke" THEN None ELSE minted + 1

NewRecord(m) ==
    LET row     == registry.records[m.device]
        override == \/ m.kind = "reconcile"
                    \/ m.kind \in {"revoke", "rotate"} /\ row = NoRecord
    IN  [generation |-> NewGeneration(m),
         state  |-> IF m.kind = "revoke" THEN "revoked" ELSE "active",
         token  |-> NewToken(m),
         origin |-> IF override THEN "static_override"
                    ELSE IF m.kind \in {"add", "convert"} THEN "dynamic"
                    ELSE row.origin,
         fingerprint |-> IF override THEN config.static[m.device]
                         ELSE IF m.kind \in {"add", "convert"} THEN None
                         ELSE row.fingerprint,
         revoked |-> History(registry, m.device) \cup Replaced(m)]

\* The registry that mutateRegistry plans: the record, no claim for the device,
\* and the receipt.
Planned(o, m) ==
    LET kept == Pruned(registry)
        row  == NewRecord(m)
    IN  [records |-> [kept.records EXCEPT ![m.device] = row],
         claims |-> [p \in Pairings |->
           IF kept.claims[p].device = m.device THEN NoClaim ELSE kept.claims[p]],
         operations |-> [kept.operations EXCEPT ![o] =
           [request |-> m, device |-> m.device, generation |-> row.generation,
            state |-> row.state]]]

Admitted(o, m) ==
    /\ HasSlot(Pruned(registry), m.kind)
    /\ Matches(m)
    /\ HasRoom(Pruned(registry), m)
    /\ Acceptable(Planned(o, m))

Live(o) == registry.operations[o] # NoReceipt /\ o \notin lapsed

Mutate(o, m) ==
    /\ ~failed /\ ~Live(o)
    /\ minted < MaxFresh
    /\ Admitted(o, m)
    /\ minted' = minted + 1
    /\ \/ /\ CommitSucceeds(Planned(o, m))
          /\ retired' = retired \cup Replaced(m)
          /\ applied' = applied \cup {m}
          /\ lapsed' = lapsed \ {o}
       \/ /\ CommitFails(Planned(o, m))
          /\ UNCHANGED <<retired, applied, lapsed>>
    /\ UNCHANGED <<config, flights, created, cancelled, delivered>>

\* A repeated mutation is answered with the receipt there is.
Replay(o) ==
    /\ ~failed /\ Live(o)
    /\ registry.operations[o].request \in Mutations
    /\ UNCHANGED vars

-----------------------------------------------------------------------------
(* Pairing: createPairing, approveRegistryPairing, finishRegistryApproval, *)
(* claimRegistryPairing                                                    *)

Pending(p) == pairings[p] # NoClaim

\* A player asks to be paired; ids are random and never used again.
CreatePairing(p, d, a) ==
    /\ ~failed
    /\ p \notin created
    /\ a \in config.addresses
    /\ Cardinality({q \in Pairings : Pending(q)}) < MaxPairings
    /\ Cardinality({q \in Pairings : pairings[q].device = d}) < 2
    /\ created' = created \cup {p}
    /\ pairings' = [pairings EXCEPT ![p] = [device |-> d, address |-> a]]
    /\ UNCHANGED <<config, registry, file, failed, view, flights, lapsed, minted,
                   retired, applied, cancelled, delivered>>

LiveClaim(p) == registry.claims[p] # NoClaim /\ p \notin lapsed

Take(f) ==
    /\ Cardinality(flights \cup {f}) <= MaxFlights
    /\ flights' = flights \cup {f}
    /\ UNCHANGED <<config, registry, file, failed, view, pairings, lapsed, minted,
                   created, retired, applied, cancelled, delivered>>

\* The first critical section of an approval with the right code selects the
\* approved claim, to confirm it again, or the pending pairing.
BeginApproval(p, o) ==
    /\ ~failed
    /\ \/ /\ LiveClaim(p) /\ registry.claims[p].operation = o
          /\ Take([kind |-> "approve", pairing |-> p, operation |-> o,
                   device |-> registry.claims[p].device,
                   address |-> registry.claims[p].address])
       \/ /\ ~LiveClaim(p) /\ Pending(p)
          /\ Take([kind |-> "approve", pairing |-> p, operation |-> o,
                   device |-> pairings[p].device,
                   address |-> pairings[p].address])

\* Too many wrong codes retire a pairing.
GuessedOut(p) ==
    /\ ~failed /\ ~LiveClaim(p) /\ Pending(p)
    /\ pairings' = [pairings EXCEPT ![p] = NoClaim]
    /\ UNCHANGED <<config, registry, file, failed, view, flights, lapsed, minted,
                   created, retired, applied, cancelled, delivered>>

\* The registry that an approval plans, with a record for an unknown device.
PlannedApproval(f) ==
    LET kept  == Pruned(registry)
        known == view[f.device] # NoIdentity
        fresh == <<f.device, minted + 1>>
        generation == IF known THEN view[f.device].generation ELSE fresh
    IN  [records |-> IF known THEN kept.records
           ELSE [kept.records EXCEPT ![f.device] =
             [generation |-> fresh, state |-> "active", token |-> minted + 1,
              origin |-> "dynamic", fingerprint |-> None, revoked |-> {}]],
         claims |-> [kept.claims EXCEPT ![f.pairing] =
           [device |-> f.device, generation |-> generation,
            operation |-> f.operation, address |-> f.address]],
         operations |-> [kept.operations EXCEPT ![f.operation] =
           [request |-> Approval(f.pairing), device |-> f.device,
            generation |-> generation, state |-> "active"]]]

AdmittedApproval(f) ==
    LET kept == Pruned(registry)
    IN  /\ Cardinality(Claimed(kept)) < MaxPairings
        /\ Cardinality(Received(kept)) < MaxOrdinary
        /\ kept.operations[f.operation] = NoReceipt
        /\ view[f.device].state \in {"active", "unknown"}
        /\ view[f.device] = NoIdentity =>
             Cardinality(Recorded(kept)) < MaxRecords
        /\ Acceptable(PlannedApproval(f))

\* Mutant: the pairing is not looked up again after DNS.
WasPending(f) == TRUE

StillPending(f) == Pending(f.pairing)

\* The second critical section commits the approval.
FinishApproval(f) ==
    /\ f \in flights /\ f.kind = "approve"
    /\ ~failed
    /\ f.address \in config.addresses
    /\ f.pairing \notin lapsed
    /\ registry.operations[f.operation] # NoReceipt =>
         registry.operations[f.operation].request = Approval(f.pairing)
    /\ registry.claims[f.pairing] = NoClaim
    /\ StillPending(f)
    /\ AdmittedApproval(f)
    /\ minted < MaxFresh
    /\ minted' = IF view[f.device] = NoIdentity THEN minted + 1 ELSE minted
    /\ flights' = flights \ {f}
    /\ \/ /\ CommitSucceeds(PlannedApproval(f))
          /\ lapsed' = lapsed \ {f.operation}
       \/ /\ CommitFails(PlannedApproval(f))
          /\ UNCHANGED lapsed
    /\ UNCHANGED <<config, created, retired, applied, cancelled, delivered>>

\* A player claims an approved pairing: it asks, and after DNS it is answered.
BeginClaim(p) ==
    /\ ~failed /\ LiveClaim(p)
    /\ Take([kind |-> "claim", pairing |-> p,
             device |-> registry.claims[p].device,
             address |-> registry.claims[p].address,
             generation |-> registry.claims[p].generation])

\* Mutant: the claim is not looked up again after DNS.
WasClaimed(f) == TRUE

StillClaimed(f) ==
    /\ LiveClaim(f.pairing)
    /\ registry.claims[f.pairing].generation = f.generation

StillActive(f) ==
    /\ view[f.device].state = "active"
    /\ view[f.device].generation = f.generation

FinishClaim(f) ==
    /\ f \in flights /\ f.kind = "claim"
    /\ ~failed
    /\ f.address \in config.addresses
    /\ StillClaimed(f) /\ StillActive(f)
    /\ delivered' = delivered \cup
         {[pairing |-> f.pairing, device |-> f.device, token |-> view[f.device].token]}
    /\ flights' = flights \ {f}
    /\ UNCHANGED <<config, registry, file, failed, view, pairings, lapsed, minted,
                   created, retired, applied, cancelled>>

\* DNS failed or changed, the client went away, or the second critical section
\* refuses: the handler ends and nothing has changed.
Abandon(f) ==
    /\ f \in flights
    /\ flights' = flights \ {f}
    /\ UNCHANGED <<config, registry, file, failed, view, pairings, lapsed, minted,
                   created, retired, applied, cancelled, delivered>>

WithoutClaim(p) == [Pruned(registry) EXCEPT !.claims[p] = NoClaim]

Cancel(p) ==
    /\ ~failed /\ (LiveClaim(p) \/ Pending(p))
    /\ \/ /\ LiveClaim(p) /\ Acceptable(WithoutClaim(p))
          /\ registry' = WithoutClaim(p) /\ file' = WithoutClaim(p)
          /\ pairings' = [pairings EXCEPT ![p] = NoClaim]
          /\ view' = Merged(config, WithoutClaim(p))
          /\ cancelled' = cancelled \cup {p}
          /\ UNCHANGED failed
       \/ /\ LiveClaim(p) /\ Acceptable(WithoutClaim(p))
          /\ CommitFails(WithoutClaim(p))
          /\ UNCHANGED cancelled
       \/ /\ ~LiveClaim(p)
          /\ pairings' = [pairings EXCEPT ![p] = NoClaim]
          /\ cancelled' = cancelled \cup {p}
          /\ UNCHANGED <<registry, file, failed, view>>
    /\ UNCHANGED <<config, flights, lapsed, minted, created, retired, applied,
                   delivered>>

-----------------------------------------------------------------------------
(* Time and restarts                                                       *)

\* Ten minutes after its creation a pairing expires, and with it its claim.
LapsePairing(p) ==
    /\ p \notin lapsed
    /\ Pending(p) \/ registry.claims[p] # NoClaim \/ file.claims[p] # NoClaim
    /\ lapsed' = lapsed \cup {p}
    /\ pairings' = [pairings EXCEPT ![p] = NoClaim]
    /\ UNCHANGED <<config, registry, file, failed, view, flights, minted,
                   created, retired, applied, cancelled, delivered>>

\* A day after it was written a receipt expires; so has the pairing it approved.
LapseOperation(o) ==
    /\ o \notin lapsed
    /\ \E r \in {registry, file} :
         /\ r.operations[o] # NoReceipt
         /\ \A p \in Pairings \ lapsed :
              r.operations[o].request # Approval(p)
    /\ lapsed' = lapsed \cup {o}
    /\ UNCHANGED <<config, registry, file, failed, view, pairings, flights, minted,
                   created, retired, applied, cancelled, delivered>>

\* pruneConfiguredClaims retires the claims of addresses that were removed, and
\* saves the registry if that, or expiry, left fewer of them.
Started(c) ==
    LET kept == Pruned(file)
        next == [kept EXCEPT !.claims = [p \in Pairings |->
                   IF kept.claims[p] # NoClaim /\ kept.claims[p].address \in c.addresses
                   THEN kept.claims[p] ELSE NoClaim]]
    IN  IF Claimed(next) = Claimed(file) THEN file ELSE next

\* The process ends at any time and starts again with a configuration that New
\* accepts; with any other, or when pruning cannot be saved, it does not start.
Restart(c) ==
    /\ Consistent(c, file) /\ Reserved(c, Pruned(file))
    /\ config' = c
    /\ registry' = Started(c) /\ file' = Started(c)
    /\ failed' = FALSE
    /\ view' = Merged(c, Started(c))
    /\ pairings' = [p \in Pairings |-> NoClaim]
    /\ flights' = {}
    /\ applied' = applied \cup {file.operations[o].request : o \in Received(file)}
    /\ UNCHANGED <<lapsed, minted, created, retired, cancelled, delivered>>

-----------------------------------------------------------------------------
EmptyRegistry == [records |-> [d \in Devices |-> NoRecord],
                  claims |-> [p \in Pairings |-> NoClaim],
                  operations |-> [o \in Operations |-> NoReceipt]]

\* InitDeviceRegistry wrote an empty registry; the server starts with it.
Init ==
    /\ lapsed = {}
    /\ registry = EmptyRegistry /\ file = EmptyRegistry
    /\ config \in {c \in Configs : Consistent(c, file) /\ Reserved(c, file)}
    /\ failed = FALSE
    /\ view = Merged(config, EmptyRegistry)
    /\ pairings = [p \in Pairings |-> NoClaim]
    /\ flights = {} /\ minted = 0
    /\ created = {} /\ retired = {} /\ applied = {} /\ cancelled = {}
    /\ delivered = {}

Next ==
    \/ \E o \in Operations : Replay(o) \/ LapseOperation(o)
    \/ \E o \in Operations, m \in Mutations : Mutate(o, m)
    \/ \E p \in Pairings :
         \/ \E d \in Devices, a \in Addresses : CreatePairing(p, d, a)
         \/ \E o \in Operations : BeginApproval(p, o)
         \/ GuessedOut(p) \/ BeginClaim(p) \/ Cancel(p) \/ LapsePairing(p)
    \/ \E f \in flights : FinishApproval(f) \/ FinishClaim(f) \/ Abandon(f)
    \/ \E c \in Configs : Restart(c)

Spec == Init /\ [][Next]_vars

-----------------------------------------------------------------------------
(* Properties                                                              *)

Flights ==
    [kind : {"approve"}, pairing : Pairings, operation : Operations,
     device : Devices, address : Addresses] \cup
    [kind : {"claim"}, pairing : Pairings, device : Devices,
     address : Addresses, generation : Generations]

TypeOK ==
    /\ config \in Configs
    /\ registry \in Registries /\ file \in Registries
    /\ failed \in BOOLEAN
    /\ view \in [Devices -> Identities \cup {NoIdentity}]
    /\ pairings \in [Pairings -> [device : Devices, address : Addresses] \cup {NoClaim}]
    /\ flights \subseteq Flights
    /\ lapsed \subseteq Pairings \cup Operations
    /\ minted \in 0..MaxFresh
    /\ retired \subseteq Tokens /\ applied \subseteq Requests
    /\ created \subseteq Pairings /\ cancelled \subseteq Pairings

\* Whoever may authenticate is in the file: no credential is served before it is
\* durable, and none after a save whose outcome is unknown.
ProvenOnly == Credentials(view) \subseteq Credentials(Merged(config, file))

\* A token whose replacement or revocation was confirmed never authenticates
\* again, whatever is configured and however often the server restarts.
NeverRevived == \A d \in Active(view) : view[d].token \notin retired

\* The receipt of a confirmed operation stays in the file until it expires.
ReceiptsKept ==
    [][\A o \in Operations :
         Live(o) /\ o \notin lapsed' =>
             file'.operations[o] = registry.operations[o]]_vars

\* Nothing but revocation can use up what revoking every active device takes.
Revocable ==
    ~failed => \A d \in Active(view), o \in Operations :
        ~Live(o) => Admitted(o, [kind |-> "revoke", device |-> d,
                                 expected |-> view[d].generation,
                                 fingerprint |-> None])

\* A mutation is applied once, under whatever operation id and however late it
\* is repeated; only the revocation of a revoked device can be confirmed again.
AppliedOnce ==
    [][\A m \in applied, o \in Operations :
         /\ ~failed
         /\ registry'.operations[o] # registry.operations[o]
         /\ registry'.operations[o] # NoReceipt
         /\ registry'.operations[o].request = m
         => m \in Mutations /\ m.kind = "revoke" /\ view[m.device].state = "revoked"]_vars

\* No approval takes effect after the cancellation of its pairing was confirmed,
\* or after the pairing expired, however long it waits for DNS.
NoLateApproval ==
    [][\A p \in Pairings :
         ~failed /\ registry.claims[p] = NoClaim /\ registry'.claims[p] # NoClaim
             => p \notin cancelled \cup lapsed]_vars

\* A claim is answered with a credential that is current and durable, and never
\* after its cancellation was confirmed.
NoLateDelivery ==
    [][\A c \in delivered' \ delivered :
         /\ c.pairing \notin cancelled
         /\ c.token \notin retired
         /\ \E k \in Credentials(Merged(config, file)) :
              k.device = c.device /\ k.token = c.token]_vars

\* However often it is claimed, one pairing gives out one credential.
OneCredential ==
    \A a, b \in delivered : a.pairing = b.pairing => a = b

\* The credentials in force are durable ones that nobody confirmed as replaced.
CredentialsSound == ProvenOnly /\ NeverRevived

\* However often an administrator repeats it, a mutation takes effect once and is
\* remembered; there is always room for the ones that revoke.
MutationsSound == []Revocable /\ AppliedOnce /\ ReceiptsKept

\* A pairing that was cancelled or expired gives nothing, and any other gives out
\* one credential, in force, however approvals and claims wait for DNS.
PairingSound == []OneCredential /\ NoLateDelivery /\ NoLateApproval
=============================================================================
