------------------------ MODULE DeviceRegistryProofs ------------------------
(***************************************************************************)
(* Theorems about DeviceRegistry, for every number of devices, pairings    *)
(* and operations, every limit and every set of configurations.            *)
(*                                                                         *)
(* The inductive invariant IInv says what each registry, in memory and on  *)
(* disk, remembers, and that a server which has not failed serves exactly  *)
(* the identities of a consistent registry that is on disk.  Two more,     *)
(* inductive with it, are about histories: MInv, that records and receipts *)
(* show which mutations and pairings are over, for the properties of       *)
(* mutations; and Agreed and Given, that lookups, claims and answers are   *)
(* about the pairing's device and credential, for those of pairing.        *)
(***************************************************************************)
EXTENDS DeviceRegistry, FiniteSetTheorems, TLAPS

\* No registry holds a token that has not been minted.
Unminted(r, n) ==
    \A d \in Recorded(r) :
        /\ r.records[d].token # None => r.records[d].token <= n
        /\ \A t \in r.records[d].revoked \cap Nat : t <= n

Minted == Unminted(registry, minted) /\ Unminted(file, minted)

\* A server that has not failed serves the registry that is on disk, and could
\* revoke everything it serves.
Serving ==
    IF failed THEN view = Nobody
    ELSE /\ view = Merged(config, registry)
         /\ file = registry
         /\ Consistent(config, registry)
         /\ Reserved(config, Pruned(registry))

\* Both registries remember what was retired.
Remembered == retired \subseteq Revoked(registry) \cap Revoked(file)

IInv == TypeOK /\ Minted /\ Serving /\ Remembered

-----------------------------------------------------------------------------
(* Registries                                                              *)

LEMMA Distinct ==
    /\ None \notin Tokens /\ None \notin StaticTokens /\ None \notin Fresh
    /\ StaticTokens \cap Fresh = {}
    /\ NoRecord \notin Records /\ NoIdentity.state = "unknown"
BY ConstantsAssumption DEF Tokens, Fresh, NoRecord, Records, States, NoIdentity

LEMMA PrunedType ==
    ASSUME NEW r \in Registries
    PROVE  /\ Pruned(r) \in Registries
           /\ Pruned(r).records = r.records
BY DEF Pruned, Registries

LEMMA MergedType ==
    ASSUME NEW c \in Configs, NEW r \in Registries
    PROVE  /\ Merged(c, r) \in [Devices -> Identities \cup {NoIdentity}]
           /\ \A d \in Devices : Merged(c, r)[d] = Identity(c, r, d)
           /\ \A d \in Devices : Identity(c, r, d) = NoIdentity =>
                 r.records[d] = NoRecord /\ c.static[d] = None
<1> SUFFICES ASSUME NEW d \in Devices
             PROVE  /\ Identity(c, r, d) \in Identities \cup {NoIdentity}
                    /\ Identity(c, r, d) = NoIdentity =>
                         r.records[d] = NoRecord /\ c.static[d] = None
  BY DEF Merged
<1>1. c.static[d] \in StaticTokens \cup {None}
  BY ConfigAssumption
<1>2. CASE r.records[d] = NoRecord
  BY <1>1, <1>2 DEF Identity, Identities, NoIdentity, Generations, Tokens, States
<1>3. CASE r.records[d] # NoRecord
  <2>1. r.records[d] \in Records
    BY <1>3 DEF Registries
  <2> QED
    BY <1>1, <1>3, <2>1 DEF Identity, Identities, NoIdentity, Records, Tokens, States
<1> QED
  BY <1>2, <1>3

LEMMA MutationType ==
    ASSUME NEW m \in Mutations
    PROVE  /\ m.device \in Devices
           /\ m.kind \in {"add", "convert", "revoke", "rotate", "reconcile"}
           /\ m.kind = "reconcile" => m.fingerprint \in StaticTokens
BY DEF Mutations

LEMMA ReplacedType ==
    ASSUME TypeOK, NEW m \in Mutations
    PROVE  /\ Replaced(m) \subseteq Tokens
           /\ History(registry, m.device) \subseteq Tokens
<1>1. m.device \in Devices
  BY MutationType
<1>2. config.static[m.device] \in StaticTokens \cup {None}
  BY <1>1, ConfigAssumption DEF TypeOK
<1>3. view[m.device].token \in Tokens \cup {None}
  BY <1>1 DEF TypeOK, Identities, NoIdentity
<1>4. CASE registry.records[m.device] = NoRecord
  BY <1>2, <1>3, <1>4 DEF Replaced, Exposed, Tokens, History
<1>5. CASE registry.records[m.device] # NoRecord
  <2>1. registry.records[m.device] \in Records
    BY <1>1, <1>5 DEF TypeOK, Registries
  <2> QED
    BY <1>2, <1>3, <1>5, <2>1 DEF Replaced, Exposed, Tokens, History, Records
<1> QED
  BY <1>4, <1>5

\* Every token that a mutation replaces was minted, or is static.
LEMMA ReplacedMinted ==
    ASSUME TypeOK, Minted, Serving, ~failed, NEW m \in Mutations
    PROVE  \A t \in (History(registry, m.device) \cup Replaced(m)) \cap Nat :
             t <= minted
<1>1. m.device \in Devices
  BY MutationType
<1>2. config.static[m.device] \notin Nat \/ config.static[m.device] = None
  BY <1>1, ConfigAssumption, ConstantsAssumption DEF TypeOK
<1>3. view[m.device] = Identity(config, registry, m.device)
  BY <1>1 DEF Serving, Merged
<1>4. CASE registry.records[m.device] = NoRecord
  BY <1>2, <1>3, <1>4 DEF Replaced, Exposed, History, Identity, NoIdentity
<1>5. CASE registry.records[m.device] # NoRecord
  <2>1. m.device \in Recorded(registry)
    BY <1>1, <1>5 DEF Recorded
  <2>2. view[m.device].token \in {None, registry.records[m.device].token}
    BY <1>3, <1>5 DEF Identity
  <2> QED
    BY <1>2, <1>5, <2>1, <2>2 DEF Replaced, Exposed, History, Minted, Unminted
<1> QED
  BY <1>4, <1>5

LEMMA NewRecordType ==
    ASSUME TypeOK, Minted, Serving, ~failed, NEW m \in Mutations, Matches(m),
           minted < MaxFresh
    PROVE  /\ NewRecord(m) \in Records
           /\ NewRecord(m).generation \in Generations
           /\ NewRecord(m).state \in States
<1> DEFINE row == registry.records[m.device]
           h == History(registry, m.device) \cup Replaced(m)
           override == \/ m.kind = "reconcile"
                       \/ m.kind \in {"revoke", "rotate"} /\ row = NoRecord
<1>1. m.device \in Devices
  BY MutationType
<1>2. minted + 1 \in Fresh /\ minted + 1 \in Nat
  BY ConstantsAssumption DEF TypeOK, Fresh
<1>3. NewGeneration(m) \in Generations
  <2>1. CASE m.kind = "revoke" /\ view[m.device].state = "revoked"
    BY <1>1, <2>1 DEF NewGeneration, TypeOK, Identities, NoIdentity
  <2>2. CASE ~(m.kind = "revoke" /\ view[m.device].state = "revoked")
    BY <1>1, <1>2, <2>2 DEF NewGeneration, Generations, Tokens
  <2> QED
    BY <2>1, <2>2
<1>4. h \in SUBSET Tokens
  BY ReplacedType
<1>5. minted + 1 \notin h
  BY <1>2, ReplacedMinted DEF TypeOK
<1>6. None \notin h
  BY <1>4, Distinct
<1>7. override => config.static[m.device] \in StaticTokens
  <2>1. view[m.device] = Identity(config, registry, m.device)
    BY <1>1 DEF Serving, Merged
  <2>2. config.static[m.device] \in StaticTokens \cup {None}
    BY <1>1, ConfigAssumption DEF TypeOK
  <2>3. CASE m.kind = "reconcile"
    BY <2>3, MutationType DEF Matches
  <2>4. CASE m.kind \in {"revoke", "rotate"} /\ row = NoRecord
    BY <2>1, <2>2, <2>4 DEF Matches, Identity
  <2> QED
    BY <2>3, <2>4
<1>8. ~override /\ m.kind \notin {"add", "convert"} => row \in Records
  BY <1>1, MutationType DEF TypeOK, Registries
<1> DEFINE new == NewRecord(m)
<1>9. /\ new.generation \in Generations /\ new.state \in States
      /\ new.token \in Fresh \cup {None}
      /\ new.state = "active" <=> new.token # None
  BY <1>2, <1>3, Distinct DEF NewRecord, NewToken, States
<1>10. new.revoked = h /\ new.token \notin new.revoked
  BY <1>5, <1>6 DEF NewRecord, NewToken
<1>11. /\ new.origin \in {"dynamic", "static_override"}
       /\ new.fingerprint \in StaticTokens \cup {None}
       /\ new.origin = "static_override" <=> new.fingerprint # None
  <2>1. CASE override
    BY <1>7, <2>1, Distinct, MutationType DEF NewRecord
  <2>2. CASE ~override /\ m.kind \in {"add", "convert"}
    BY <2>2 DEF NewRecord
  <2>3. CASE ~override /\ m.kind \notin {"add", "convert"}
    BY <1>8, <2>3 DEF NewRecord, Records
  <2> QED
    BY <2>1, <2>2, <2>3
<1>12. new = [generation |-> new.generation, state |-> new.state,
              token |-> new.token, origin |-> new.origin,
              fingerprint |-> new.fingerprint, revoked |-> new.revoked]
  BY DEF NewRecord
<1> QED
  BY <1>4, <1>9, <1>10, <1>11, <1>12 DEF Records

LEMMA PlannedType ==
    ASSUME TypeOK, Minted, Serving, ~failed, NEW o \in Operations,
           NEW m \in Mutations, Matches(m), minted < MaxFresh
    PROVE  /\ Planned(o, m) \in Registries
           /\ Planned(o, m).records =
                [registry.records EXCEPT ![m.device] = NewRecord(m)]
           /\ Unminted(Planned(o, m), minted + 1)
<1>1. m.device \in Devices /\ registry \in Registries /\ minted \in Nat
  BY MutationType DEF TypeOK
<1>2. Pruned(registry) \in Registries /\ Pruned(registry).records = registry.records
  BY <1>1, PrunedType
<1> DEFINE new == NewRecord(m)
           receipt == [request |-> m, device |-> m.device,
                       generation |-> new.generation, state |-> new.state]
<1>3. new \in Records /\ new.generation \in Generations /\ new.state \in States
  BY NewRecordType
<1>4. receipt \in Receipts
  BY <1>1, <1>3 DEF Receipts, Requests
<1>5. Planned(o, m).records = [registry.records EXCEPT ![m.device] = new]
  BY <1>2 DEF Planned
<1>6. Planned(o, m).records \in [Devices -> Records \cup {NoRecord}]
  BY <1>1, <1>3, <1>5 DEF Registries
<1>7. Planned(o, m).claims \in [Pairings -> Claims \cup {NoClaim}]
  BY <1>2 DEF Planned, Registries
<1>8. Planned(o, m).operations \in [Operations -> Receipts \cup {NoReceipt}]
  BY <1>2, <1>4 DEF Planned, Registries
<1>9. Planned(o, m) \in Registries
  BY <1>6, <1>7, <1>8 DEF Planned, Registries
<1>10. ASSUME NEW d \in Recorded(Planned(o, m))
       PROVE  /\ Planned(o, m).records[d].token # None =>
                   Planned(o, m).records[d].token <= minted + 1
              /\ \A t \in Planned(o, m).records[d].revoked \cap Nat : t <= minted + 1
  <2>1. CASE d = m.device
    <3>1. Planned(o, m).records[d] = new
      BY <1>1, <1>5, <2>1 DEF Registries
    <3>2. new.token = None \/ new.token = minted + 1
      BY DEF NewRecord, NewToken
    <3>3. new.revoked = History(registry, m.device) \cup Replaced(m)
      BY DEF NewRecord
    <3>4. \A t \in new.revoked \cap Nat : t <= minted
      BY <3>3, ReplacedMinted
    <3> QED
      BY <1>1, <3>1, <3>2, <3>4
  <2>2. CASE d # m.device
    <3>1. d \in Devices /\ Planned(o, m).records[d] = registry.records[d]
      BY <1>1, <1>5, <2>2 DEF Registries, Recorded
    <3>2. d \in Recorded(registry) /\ registry.records[d] \in Records
      BY <1>1, <1>10, <3>1 DEF Recorded, Registries
    <3>3. registry.records[d].token # None => registry.records[d].token \in Nat
      BY <3>2 DEF Records, Fresh
    <3> QED
      BY <1>1, <3>1, <3>2, <3>3 DEF Minted, Unminted
  <2> QED
    BY <2>1, <2>2
<1> QED
  BY <1>5, <1>9, <1>10 DEF Unminted

\* A mutation forgets nothing that was revoked, and adds what it replaces.
LEMMA PlannedRevoked ==
    ASSUME TypeOK, Minted, Serving, ~failed, NEW o \in Operations,
           NEW m \in Mutations, Matches(m), minted < MaxFresh
    PROVE  Revoked(Planned(o, m)) = Revoked(registry) \cup Replaced(m)
<1> DEFINE next == Planned(o, m)
<1>1. m.device \in Devices /\ registry \in Registries
  BY MutationType DEF TypeOK
<1>2. next.records = [registry.records EXCEPT ![m.device] = NewRecord(m)]
  BY PlannedType
<1>3. NewRecord(m) # NoRecord
  BY NewRecordType, Distinct
<1>4. next.records[m.device] = NewRecord(m)
      /\ \A d \in Devices \ {m.device} : next.records[d] = registry.records[d]
  BY <1>1, <1>2 DEF Registries
<1>5. Recorded(next) = Recorded(registry) \cup {m.device}
  BY <1>1, <1>3, <1>4 DEF Recorded
<1>6. NewRecord(m).revoked = History(registry, m.device) \cup Replaced(m)
  BY DEF NewRecord
<1>7. ASSUME NEW t \in Revoked(next)
      PROVE  t \in Revoked(registry) \cup Replaced(m)
  <2>1. PICK d \in Recorded(next) : t \in next.records[d].revoked
    BY <1>7 DEF Revoked
  <2>2. CASE d = m.device
    <3>1. t \in History(registry, m.device) \cup Replaced(m)
      BY <1>4, <1>6, <2>1, <2>2
    <3> QED
      BY <1>1, <3>1 DEF History, Revoked, Recorded
  <2>3. CASE d # m.device
    BY <1>4, <1>5, <2>1, <2>3 DEF Revoked, Recorded
  <2> QED
    BY <2>2, <2>3
<1>8. ASSUME NEW t \in Revoked(registry) \cup Replaced(m)
      PROVE  t \in Revoked(next)
  <2>1. CASE t \in Replaced(m)
    BY <1>4, <1>5, <1>6, <2>1 DEF Revoked
  <2>2. CASE t \in Revoked(registry)
    <3>1. PICK d \in Recorded(registry) : t \in registry.records[d].revoked
      BY <2>2 DEF Revoked
    <3>2. CASE d = m.device
      <4>1. t \in History(registry, m.device)
        BY <3>1, <3>2 DEF History, Recorded
      <4> QED
        BY <1>4, <1>5, <1>6, <4>1 DEF Revoked
    <3>3. CASE d # m.device
      <4>1. d \in Recorded(next) /\ next.records[d] = registry.records[d]
        BY <1>4, <1>5, <3>1, <3>3 DEF Recorded
      <4> QED
        BY <3>1, <4>1 DEF Revoked
    <3> QED
      BY <3>2, <3>3
  <2> QED
    BY <2>1, <2>2
<1> QED
  BY <1>7, <1>8

-----------------------------------------------------------------------------
(* The registry an approval plans                                          *)

LEMMA ApprovalType ==
    ASSUME TypeOK, Minted, Serving, ~failed, NEW f \in Flights,
           f.kind = "approve", AdmittedApproval(f), minted < MaxFresh
    PROVE  /\ PlannedApproval(f) \in Registries
           /\ Unminted(PlannedApproval(f), minted + 1)
           /\ \A d \in Recorded(registry) :
                /\ d \in Recorded(PlannedApproval(f))
                /\ PlannedApproval(f).records[d] = registry.records[d]
<1> DEFINE next == PlannedApproval(f)
           known == view[f.device] # NoIdentity
           fresh == <<f.device, minted + 1>>
           new == [generation |-> fresh, state |-> "active", token |-> minted + 1,
                   origin |-> "dynamic", fingerprint |-> None, revoked |-> {}]
           generation == IF known THEN view[f.device].generation ELSE fresh
<1>1. /\ f.device \in Devices /\ f.pairing \in Pairings
      /\ f.operation \in Operations /\ f.address \in Addresses
  BY DEF Flights
<1>2. registry \in Registries /\ Pruned(registry) \in Registries
      /\ Pruned(registry).records = registry.records
  BY PrunedType DEF TypeOK
<1>3. minted + 1 \in Fresh /\ minted \in Nat
  BY ConstantsAssumption DEF TypeOK, Fresh
<1>4. fresh \in Generations
  BY <1>1, <1>3 DEF Generations, Tokens
<1>5. known => view[f.device].generation \in Generations
  BY <1>1 DEF TypeOK, Identities
<1>6. new \in Records
  BY <1>3, <1>4, Distinct DEF Records, States
<1>7. ~known => registry.records[f.device] = NoRecord
  <2>1. view[f.device] = Identity(config, registry, f.device)
    BY <1>1 DEF Serving, Merged
  <2> QED
    BY <1>1, <1>2, <2>1, MergedType DEF TypeOK
<1>8. next.records = IF known THEN registry.records
                     ELSE [registry.records EXCEPT ![f.device] = new]
  BY <1>2 DEF PlannedApproval
<1>9. next.records \in [Devices -> Records \cup {NoRecord}]
  BY <1>1, <1>2, <1>6, <1>8 DEF Registries
<1>10. next.claims \in [Pairings -> Claims \cup {NoClaim}]
  <2>1. [device |-> f.device, generation |-> generation,
         operation |-> f.operation, address |-> f.address] \in Claims
    BY <1>1, <1>4, <1>5 DEF Claims
  <2>2. next.claims = [Pruned(registry).claims EXCEPT ![f.pairing] =
          [device |-> f.device, generation |-> generation,
           operation |-> f.operation, address |-> f.address]]
    BY DEF PlannedApproval
  <2> HIDE DEF generation
  <2> QED
    BY <1>2, <2>1, <2>2 DEF Registries
<1>11. next.operations \in [Operations -> Receipts \cup {NoReceipt}]
  <2>1. [request |-> Approval(f.pairing), device |-> f.device,
         generation |-> generation, state |-> "active"] \in Receipts
    BY <1>1, <1>4, <1>5 DEF Receipts, Requests, States
  <2>2. next.operations = [Pruned(registry).operations EXCEPT ![f.operation] =
          [request |-> Approval(f.pairing), device |-> f.device,
           generation |-> generation, state |-> "active"]]
    BY DEF PlannedApproval
  <2> HIDE DEF generation
  <2> QED
    BY <1>2, <2>1, <2>2 DEF Registries
<1>12. next \in Registries
  BY <1>9, <1>10, <1>11 DEF PlannedApproval, Registries
<1>13. \A d \in Recorded(registry) : d \in Recorded(next)
                                     /\ next.records[d] = registry.records[d]
  BY <1>1, <1>2, <1>7, <1>8 DEF Recorded, Registries
<1>14. ASSUME NEW d \in Recorded(next)
       PROVE  /\ next.records[d].token # None => next.records[d].token <= minted + 1
              /\ \A t \in next.records[d].revoked \cap Nat : t <= minted + 1
  <2>1. CASE d \in Recorded(registry)
    <3>1. registry.records[d] \in Records
      BY <1>2, <2>1 DEF Recorded, Registries
    <3>2. registry.records[d].token # None => registry.records[d].token \in Nat
      BY <3>1 DEF Records, Fresh
    <3> QED
      BY <1>3, <1>13, <2>1, <3>2 DEF Minted, Unminted
  <2>2. CASE d \notin Recorded(registry)
    <3>1. next.records[d] = new
      BY <1>1, <1>2, <1>8, <2>2 DEF Recorded, Registries
    <3> QED
      BY <1>3, <3>1
  <2> QED
    BY <2>1, <2>2
<1> QED
  BY <1>12, <1>13, <1>14 DEF Unminted

-----------------------------------------------------------------------------
(* What a commit and a restart serve                                       *)

LEMMA ReceivedFinite ==
    ASSUME NEW r
    PROVE  IsFiniteSet(Received(r)) /\ Cardinality(Received(r)) \in Nat
<1>1. Received(r) \subseteq Operations
  BY DEF Received
<1> QED
  BY <1>1, ConstantsAssumption, FS_Subset, FS_CardinalityType

\* Consistency and the reserve depend on the records, and on no more than the
\* number of receipts.
LEMMA ReservedLess ==
    ASSUME NEW c, NEW r, NEW q, q.records = r.records,
           Received(q) \subseteq Received(r), Reserved(c, r)
    PROVE  Reserved(c, q)
<1>1. Merged(c, q) = Merged(c, r) /\ Recorded(q) = Recorded(r)
  BY DEF Merged, Identity, Recorded
<1>2. \A d \in Devices : History(q, d) = History(r, d)
  BY DEF History
<1> DEFINE v == Merged(c, r)
<1>3. Active(v) \subseteq Devices
  BY DEF Active
<1>4. IsFiniteSet(Active(v)) /\ Cardinality(Active(v)) \in Nat
  BY <1>3, ConstantsAssumption, FS_Subset, FS_CardinalityType
<1>5. Cardinality(Received(q)) <= Cardinality(Received(r))
  BY ReceivedFinite, FS_Subset
<1>6. /\ Cardinality(Recorded(r) \cup Active(v)) <= MaxRecords
      /\ Cardinality(Received(r)) + Cardinality(Active(v)) <= MaxOperations
      /\ \A d \in Active(v) :
           Cardinality(History(r, d) \cup Exposed(c, v, d)) <= MaxHashes
  BY DEF Reserved
<1>7. Cardinality(Received(q)) + Cardinality(Active(v)) <= MaxOperations
  BY <1>4, <1>5, <1>6, ReceivedFinite, ConstantsAssumption DEF MaxOperations
<1> HIDE DEF v
<1>8. Merged(c, q) = v
  BY <1>1 DEF v
<1>9. \A d \in Active(v) :
        Cardinality(History(q, d) \cup Exposed(c, v, d)) <= MaxHashes
  BY <1>2, <1>3, <1>6
<1> QED
  BY <1>1, <1>6, <1>7, <1>8, <1>9 DEF Reserved

LEMMA ConsistentSame ==
    ASSUME NEW c, NEW r, NEW q, q.records = r.records, Consistent(c, r)
    PROVE  Consistent(c, q) /\ Merged(c, q) = Merged(c, r) /\ Revoked(q) = Revoked(r)
<1>1. Merged(c, q) = Merged(c, r) /\ Revoked(q) = Revoked(r)
  BY DEF Merged, Identity, Revoked, Recorded
<1> QED
  BY <1>1 DEF Consistent

LEMMA ServesWhatIsSaved ==
    ASSUME NEW c \in Configs, NEW r \in Registries,
           config' = c, registry' = r, file' = r, failed' = FALSE,
           view' = Merged(c, r), Consistent(c, r), Reserved(c, r)
    PROVE  Serving'
<1>1. Pruned(registry)'.records = r.records
  BY DEF Pruned, Registries
<1>2. Received(Pruned(registry)') \subseteq Received(r)
  BY DEF Pruned, Received, Registries
<1>3. Reserved(c, Pruned(registry)')
  BY <1>1, <1>2, ReservedLess
<1>4. Consistent(config', registry') /\ Reserved(config', Pruned(registry)')
  BY <1>3
<1>5. view' = Merged(config, registry)'
  BY DEF Merged, Identity, Recorded
<1> QED
  BY <1>4, <1>5 DEF Serving

-----------------------------------------------------------------------------
(* Commits                                                                 *)

LEMMA PublishType ==
    ASSUME TypeOK, NEW v, Publish(v)
    PROVE  pairings' \in [Pairings -> [device : Devices, address : Addresses]
                                      \cup {NoClaim}]
BY DEF TypeOK, Publish

LEMMA NobodyType == Nobody \in [Devices -> Identities \cup {NoIdentity}]
BY DEF Nobody

\* What a successful commit of a registry that was accepted does.
LEMMA Committed ==
    ASSUME IInv, NEW r \in Registries, Acceptable(r), CommitSucceeds(r), ~failed,
           config' = config
    PROVE  /\ registry' \in Registries /\ file' \in Registries /\ ~failed'
           /\ failed' \in BOOLEAN
           /\ view' \in [Devices -> Identities \cup {NoIdentity}]
           /\ pairings' \in [Pairings -> [device : Devices, address : Addresses]
                                         \cup {NoClaim}]
           /\ Serving'
<1>1. config \in Configs /\ failed = FALSE
  BY DEF IInv, TypeOK
<1>2. /\ registry' = r /\ file' = r /\ failed' = FALSE /\ view' = Merged(config, r)
      /\ Publish(Merged(config, r))
  BY <1>1 DEF CommitSucceeds, Publish
<1>3. Serving'
  BY <1>1, <1>2, ServesWhatIsSaved DEF Acceptable
<1> QED
  BY <1>1, <1>2, <1>3, MergedType, PublishType DEF IInv

\* A commit that failed leaves the old or the new registry on disk and nobody
\* served.
LEMMA Uncertain ==
    ASSUME IInv, NEW r \in Registries, CommitFails(r)
    PROVE  /\ registry' = registry /\ file' \in {file, r} /\ file' \in Registries
           /\ failed' = TRUE
           /\ view' \in [Devices -> Identities \cup {NoIdentity}]
           /\ pairings' \in [Pairings -> [device : Devices, address : Addresses]
                                         \cup {NoClaim}]
           /\ Serving'
<1>1. /\ registry' = registry /\ file' \in {file, r} /\ failed' = TRUE
      /\ view' = Nobody /\ Publish(Nobody)
  BY DEF CommitFails, Publish
<1>2. Nobody' = Nobody
  BY DEF Nobody
<1>3. Serving'
  BY <1>1 DEF Serving, Nobody
<1> QED
  BY <1>1, <1>3, NobodyType, PublishType DEF IInv, TypeOK

\* Minting more contradicts nothing.
LEMMA UnmintedMore ==
    ASSUME NEW r \in Registries, NEW n \in Nat, NEW k \in Nat, n <= k,
           Unminted(r, n)
    PROVE  Unminted(r, k)
<1> SUFFICES ASSUME NEW d \in Recorded(r)
             PROVE  /\ r.records[d].token # None => r.records[d].token <= k
                    /\ \A t \in r.records[d].revoked \cap Nat : t <= k
  BY DEF Unminted
<1>1. r.records[d] \in Records
  BY DEF Recorded, Registries
<1>2. r.records[d].token # None => r.records[d].token \in Nat
  BY <1>1 DEF Records, Fresh
<1> QED
  BY <1>2 DEF Unminted

-----------------------------------------------------------------------------
(* Steps                                                                   *)

LEMMA MutateStep ==
    ASSUME IInv, NEW o \in Operations, NEW m \in Mutations, Mutate(o, m)
    PROVE  IInv'
<1> DEFINE next == Planned(o, m)
<1>1. /\ ~failed /\ minted < MaxFresh /\ Matches(m) /\ Acceptable(next)
      /\ minted' = minted + 1 /\ config' = config
  BY DEF Mutate, Admitted
<1>2. minted \in Nat /\ minted' \in Nat /\ minted' \in 0..MaxFresh
  BY <1>1, ConstantsAssumption DEF IInv, TypeOK
<1>3. next \in Registries /\ Unminted(next, minted + 1)
  BY <1>1, PlannedType DEF IInv
<1>4. Revoked(next) = Revoked(registry) \cup Replaced(m)
  BY <1>1, PlannedRevoked DEF IInv
<1>5. Unminted(registry, minted + 1) /\ Unminted(file, minted + 1)
  BY <1>2, UnmintedMore DEF IInv, Minted, TypeOK
<1>6. file = registry
  BY <1>1 DEF IInv, Serving
<1>7. Replaced(m) \subseteq Tokens
  BY ReplacedType DEF IInv
<1> HIDE DEF next
<1>8. CASE CommitSucceeds(next)
           /\ retired' = retired \cup Replaced(m)
           /\ applied' = applied \cup {m}
           /\ lapsed' = lapsed \ {o}
  <2>1. /\ registry' \in Registries /\ file' \in Registries
        /\ failed' \in BOOLEAN
        /\ view' \in [Devices -> Identities \cup {NoIdentity}]
        /\ pairings' \in [Pairings -> [device : Devices, address : Addresses]
                                      \cup {NoClaim}]
        /\ Serving'
    BY <1>1, <1>3, <1>8, Committed
  <2>2. registry' = next /\ file' = next
    BY <1>8 DEF CommitSucceeds
  <2>3. Remembered'
    BY <1>4, <1>8, <2>2 DEF IInv, Remembered
  <2>4. Minted'
    BY <1>1, <1>3, <2>2 DEF Minted
  <2>5. TypeOK'
    BY <1>1, <1>2, <1>7, <1>8, <2>1 DEF IInv, TypeOK, Mutate, Requests
  <2> QED
    BY <2>1, <2>3, <2>4, <2>5 DEF IInv
<1>9. CASE CommitFails(next) /\ UNCHANGED <<retired, applied, lapsed>>
  <2>1. /\ registry' = registry /\ file' \in {file, next} /\ file' \in Registries
        /\ failed' = TRUE
        /\ view' \in [Devices -> Identities \cup {NoIdentity}]
        /\ pairings' \in [Pairings -> [device : Devices, address : Addresses]
                                      \cup {NoClaim}]
        /\ Serving'
    BY <1>3, <1>9, Uncertain
  <2>2. Remembered'
    BY <1>4, <1>6, <1>9, <2>1 DEF IInv, Remembered
  <2>3. Minted'
    BY <1>1, <1>3, <1>5, <2>1 DEF Minted
  <2>4. TypeOK'
    BY <1>1, <1>2, <1>9, <2>1 DEF IInv, TypeOK, Mutate
  <2> QED
    BY <2>1, <2>2, <2>3, <2>4 DEF IInv
<1> QED
  BY <1>8, <1>9 DEF Mutate, next

LEMMA FinishApprovalStep ==
    ASSUME IInv, NEW f \in flights, FinishApproval(f)
    PROVE  IInv'
<1> DEFINE next == PlannedApproval(f)
<1>1. /\ ~failed /\ minted < MaxFresh /\ f.kind = "approve"
      /\ AdmittedApproval(f) /\ Acceptable(next) /\ config' = config
      /\ f \in Flights
  BY DEF FinishApproval, AdmittedApproval, IInv, TypeOK
<1>2. /\ minted \in Nat /\ minted' \in {minted, minted + 1}
      /\ minted' \in 0..MaxFresh
  BY <1>1, ConstantsAssumption DEF FinishApproval, IInv, TypeOK
<1>3. next \in Registries /\ Unminted(next, minted + 1)
  BY <1>1, ApprovalType DEF IInv
<1>4. Revoked(registry) \subseteq Revoked(next)
  BY <1>1, ApprovalType DEF IInv, Revoked
<1>5. file = registry /\ registry \in Registries
  BY <1>1 DEF IInv, Serving, TypeOK
<1>6. Unminted(registry, minted')
  BY <1>2, <1>5, UnmintedMore DEF IInv, Minted
<1>7. Unminted(next, minted')
  <2>1. CASE view[f.device] = NoIdentity
    BY <1>3, <2>1 DEF FinishApproval
  <2>2. CASE view[f.device] # NoIdentity
    <3>1. next.records = registry.records
      BY <1>5, <2>2, PrunedType DEF PlannedApproval
    <3>2. Unminted(next, minted)
      BY <3>1 DEF IInv, Minted, Unminted, Recorded
    <3> QED
      BY <1>2, <1>3, <3>2, UnmintedMore
  <2> QED
    BY <2>1, <2>2
<1>8. flights' \subseteq Flights
  BY DEF FinishApproval, IInv, TypeOK
<1> HIDE DEF next
<1>9. CASE CommitSucceeds(next) /\ lapsed' = lapsed \ {f.operation}
  <2>1. /\ registry' \in Registries /\ file' \in Registries
        /\ failed' \in BOOLEAN
        /\ view' \in [Devices -> Identities \cup {NoIdentity}]
        /\ pairings' \in [Pairings -> [device : Devices, address : Addresses]
                                      \cup {NoClaim}]
        /\ Serving'
    BY <1>1, <1>3, <1>9, Committed
  <2>2. registry' = next /\ file' = next
    BY <1>9 DEF CommitSucceeds
  <2>3. Remembered' /\ Minted'
    BY <1>4, <1>7, <2>2 DEF IInv, Remembered, Minted, FinishApproval
  <2>4. TypeOK'
    BY <1>1, <1>2, <1>8, <1>9, <2>1 DEF IInv, TypeOK, FinishApproval
  <2> QED
    BY <2>1, <2>3, <2>4 DEF IInv
<1>10. CASE CommitFails(next) /\ UNCHANGED lapsed
  <2>1. /\ registry' = registry /\ file' \in {file, next} /\ file' \in Registries
        /\ failed' = TRUE
        /\ view' \in [Devices -> Identities \cup {NoIdentity}]
        /\ pairings' \in [Pairings -> [device : Devices, address : Addresses]
                                      \cup {NoClaim}]
        /\ Serving'
    BY <1>3, <1>10, Uncertain
  <2>2. Remembered' /\ Minted'
    BY <1>4, <1>5, <1>6, <1>7, <2>1 DEF IInv, Remembered, Minted, FinishApproval
  <2>3. TypeOK'
    BY <1>1, <1>2, <1>8, <1>10, <2>1 DEF IInv, TypeOK, FinishApproval
  <2> QED
    BY <2>1, <2>2, <2>3 DEF IInv
<1> QED
  BY <1>9, <1>10 DEF FinishApproval, next

LEMMA WithoutClaimType ==
    ASSUME TypeOK, NEW p \in Pairings
    PROVE  /\ WithoutClaim(p) \in Registries
           /\ WithoutClaim(p).records = registry.records
BY PrunedType DEF TypeOK, WithoutClaim, Registries

LEMMA CancelStep ==
    ASSUME IInv, NEW p \in Pairings, Cancel(p)
    PROVE  IInv'
<1> DEFINE next == WithoutClaim(p)
<1>1. next \in Registries /\ next.records = registry.records
  BY WithoutClaimType DEF IInv
<1>2. ~failed /\ registry \in Registries /\ file = registry /\ config \in Configs
  BY DEF Cancel, IInv, Serving, TypeOK
<1>3. Revoked(next) = Revoked(registry) /\ Unminted(next, minted)
  BY <1>1 DEF IInv, Revoked, Recorded, Minted, Unminted
<1>4. /\ UNCHANGED <<config, flights, lapsed, minted, created, retired, applied,
                     delivered>>
      /\ cancelled' \subseteq cancelled \cup {p}
  BY DEF Cancel
<1> HIDE DEF next
<1>5. CASE /\ Acceptable(next) /\ registry' = next /\ file' = next
           /\ pairings' = [pairings EXCEPT ![p] = NoClaim]
           /\ view' = Merged(config, next) /\ UNCHANGED failed
  <2>1. Consistent(config, next) /\ Reserved(config, next)
    BY <1>5 DEF Acceptable
  <2>2. failed' = FALSE
    BY <1>2, <1>5 DEF IInv, TypeOK
  <2>3. Serving'
    BY <1>1, <1>2, <1>4, <1>5, <2>1, <2>2, ServesWhatIsSaved
  <2>4. Remembered' /\ Minted'
    BY <1>3, <1>4, <1>5 DEF IInv, Remembered, Minted
  <2>5. view' \in [Devices -> Identities \cup {NoIdentity}]
    BY <1>1, <1>2, <1>5, MergedType
  <2>6. pairings' \in [Pairings -> [device : Devices, address : Addresses]
                                   \cup {NoClaim}]
    BY <1>5 DEF IInv, TypeOK
  <2>7. TypeOK'
    BY <1>1, <1>4, <1>5, <2>2, <2>5, <2>6 DEF IInv, TypeOK
  <2> QED
    BY <2>3, <2>4, <2>7 DEF IInv
<1>6. CASE CommitFails(next) /\ UNCHANGED cancelled
  <2>1. /\ registry' = registry /\ file' \in {file, next} /\ file' \in Registries
        /\ failed' = TRUE
        /\ view' \in [Devices -> Identities \cup {NoIdentity}]
        /\ pairings' \in [Pairings -> [device : Devices, address : Addresses]
                                      \cup {NoClaim}]
        /\ Serving'
    BY <1>1, <1>6, Uncertain
  <2>2. Remembered' /\ Minted'
    BY <1>2, <1>3, <1>4, <2>1 DEF IInv, Remembered, Minted
  <2>3. TypeOK'
    BY <1>2, <1>4, <1>6, <2>1 DEF IInv, TypeOK
  <2> QED
    BY <2>1, <2>2, <2>3 DEF IInv
<1>7. CASE /\ pairings' = [pairings EXCEPT ![p] = NoClaim]
           /\ UNCHANGED <<registry, file, failed, view>>
  <2>1. TypeOK'
    BY <1>4, <1>7 DEF IInv, TypeOK
  <2>2. Serving'
    BY <1>2, <1>4, <1>7 DEF IInv, Serving, Pruned
  <2>3. Remembered' /\ Minted'
    BY <1>4, <1>7 DEF IInv, Remembered, Minted
  <2> QED
    BY <2>1, <2>2, <2>3 DEF IInv
<1> QED
  BY <1>5, <1>6, <1>7 DEF Cancel, next

\* Steps that touch neither the registries nor what is served: expiry can only
\* free receipts.
LEMMA QuietStep ==
    ASSUME IInv, TypeOK', lapsed \subseteq lapsed',
           UNCHANGED <<config, registry, file, failed, view, minted, retired>>
    PROVE  IInv'
<1>1. registry \in Registries
  BY DEF IInv, TypeOK
<1>2. Pruned(registry)'.records = Pruned(registry).records
  BY <1>1 DEF Pruned, Registries
<1>3. Received(Pruned(registry)') \subseteq Received(Pruned(registry))
  BY <1>1 DEF Pruned, Received, Registries
<1>4. Serving'
  <2>1. CASE failed
    BY <2>1 DEF IInv, Serving, Nobody
  <2>2. CASE ~failed
    <3>1. Reserved(config, Pruned(registry))
      BY <2>2 DEF IInv, Serving
    <3>2. Reserved(config', Pruned(registry)')
      BY <1>2, <1>3, <3>1, ReservedLess
    <3> QED
      BY <2>2, <3>2 DEF IInv, Serving
  <2> QED
    BY <2>1, <2>2
<1>5. Remembered' /\ Minted'
  BY DEF IInv, Remembered, Minted
<1> QED
  BY <1>4, <1>5 DEF IInv

LEMMA CreatePairingStep ==
    ASSUME IInv, NEW p \in Pairings, NEW d \in Devices, NEW a \in Addresses,
           CreatePairing(p, d, a)
    PROVE  IInv'
<1>1. TypeOK'
  BY DEF CreatePairing, IInv, TypeOK
<1> QED
  BY <1>1, QuietStep DEF CreatePairing

LEMMA BeginApprovalStep ==
    ASSUME IInv, NEW p \in Pairings, NEW o \in Operations, BeginApproval(p, o)
    PROVE  IInv'
<1>1. ASSUME NEW f \in Flights, Take(f) PROVE IInv'
  <2>1. TypeOK'
    BY <1>1 DEF Take, IInv, TypeOK
  <2> QED
    BY <1>1, <2>1, QuietStep DEF Take
<1>2. CASE LiveClaim(p)
  <2>1. registry.claims[p] \in Claims
    BY <1>2 DEF LiveClaim, IInv, TypeOK, Registries
  <2>2. [kind |-> "approve", pairing |-> p, operation |-> o,
         device |-> registry.claims[p].device,
         address |-> registry.claims[p].address] \in Flights
    BY <2>1 DEF Claims, Flights
  <2> QED
    BY <1>1, <1>2, <2>2 DEF BeginApproval
<1>3. CASE ~LiveClaim(p)
  <2>1. pairings[p] \in [device : Devices, address : Addresses]
    BY <1>3 DEF BeginApproval, Pending, IInv, TypeOK
  <2>2. [kind |-> "approve", pairing |-> p, operation |-> o,
         device |-> pairings[p].device, address |-> pairings[p].address] \in Flights
    BY <2>1 DEF Flights
  <2> QED
    BY <1>1, <1>3, <2>2 DEF BeginApproval
<1> QED
  BY <1>2, <1>3

LEMMA BeginClaimStep ==
    ASSUME IInv, NEW p \in Pairings, BeginClaim(p)
    PROVE  IInv'
<1>1. registry.claims[p] \in Claims
  BY DEF BeginClaim, LiveClaim, IInv, TypeOK, Registries
<1> DEFINE f == [kind |-> "claim", pairing |-> p,
                 device |-> registry.claims[p].device,
                 address |-> registry.claims[p].address,
                 generation |-> registry.claims[p].generation]
<1>2. f \in Flights
  BY <1>1 DEF Claims, Flights
<1>3. Take(f)
  BY DEF BeginClaim
<1> HIDE DEF f
<1>4. TypeOK'
  BY <1>2, <1>3 DEF Take, IInv, TypeOK
<1> QED
  BY <1>3, <1>4, QuietStep DEF Take

LEMMA FinishClaimStep ==
    ASSUME IInv, NEW f \in flights, FinishClaim(f)
    PROVE  IInv'
<1>1. TypeOK'
  BY DEF FinishClaim, IInv, TypeOK
<1> QED
  BY <1>1, QuietStep DEF FinishClaim

LEMMA OtherStep ==
    ASSUME IInv,
           \/ \E o \in Operations : LapseOperation(o)
           \/ \E p \in Pairings : GuessedOut(p) \/ LapsePairing(p)
           \/ \E f \in flights : Abandon(f)
    PROVE  IInv'
<1>1. ASSUME NEW o \in Operations, LapseOperation(o) PROVE IInv'
  <2>1. TypeOK'
    BY <1>1 DEF LapseOperation, IInv, TypeOK
  <2> QED
    BY <1>1, <2>1, QuietStep DEF LapseOperation
<1>2. ASSUME NEW p \in Pairings, GuessedOut(p) PROVE IInv'
  <2>1. TypeOK'
    BY <1>2 DEF GuessedOut, IInv, TypeOK
  <2> QED
    BY <1>2, <2>1, QuietStep DEF GuessedOut
<1>3. ASSUME NEW p \in Pairings, LapsePairing(p) PROVE IInv'
  <2>1. TypeOK'
    BY <1>3 DEF LapsePairing, IInv, TypeOK
  <2> QED
    BY <1>3, <2>1, QuietStep DEF LapsePairing
<1>4. ASSUME NEW f \in flights, Abandon(f) PROVE IInv'
  <2>1. TypeOK'
    BY <1>4 DEF Abandon, IInv, TypeOK
  <2> QED
    BY <1>4, <2>1, QuietStep DEF Abandon
<1> QED
  BY <1>1, <1>2, <1>3, <1>4

LEMMA RestartStep ==
    ASSUME IInv, NEW c \in Configs, Restart(c)
    PROVE  IInv'
<1> DEFINE next == Started(c)
<1>1. file \in Registries
  BY DEF IInv, TypeOK
<1>2. /\ next \in Registries /\ next.records = file.records
      /\ Received(next) \subseteq Received(file)
  BY <1>1 DEF Started, Pruned, Registries, Received
<1>3. next = file \/ Received(next) = Received(Pruned(file))
  BY <1>1 DEF Started, Received
<1>4. /\ config' = c /\ registry' = next /\ file' = next /\ failed' = FALSE
      /\ view' = Merged(c, next)
      /\ pairings' = [p \in Pairings |-> NoClaim] /\ flights' = {}
      /\ UNCHANGED <<lapsed, minted, created, retired, cancelled, delivered>>
      /\ applied' = applied \cup {file.operations[o].request : o \in Received(file)}
  BY DEF Restart
<1>5. Consistent(c, file) /\ Reserved(c, Pruned(file))
  BY DEF Restart
<1>6. Consistent(c, next) /\ Revoked(next) = Revoked(file)
  BY <1>2, <1>5, ConsistentSame
<1>7. Unminted(next, minted)
  BY <1>2 DEF IInv, Minted, Unminted, Recorded
<1> HIDE DEF next
<1>8. Remembered' /\ Minted'
  BY <1>4, <1>6, <1>7 DEF IInv, Remembered, Minted
<1>9. Serving'
  <2>1. Pruned(next) \in Registries /\ Pruned(next).records = file.records
    BY <1>2, PrunedType
  <2>2. Pruned(file).records = file.records
    BY <1>1, PrunedType
  <2>3. Received(Pruned(next)) \subseteq Received(Pruned(file))
    BY <1>1, <1>2, <1>3 DEF Pruned, Received, Registries
  <2>4. Reserved(c, Pruned(next))
    BY <1>5, <2>1, <2>2, <2>3, ReservedLess
  <2>5. Pruned(registry)' = Pruned(next)
    BY <1>4 DEF Pruned
  <2>6. Reserved(config', Pruned(registry)')
    BY <1>4, <2>4, <2>5
  <2> QED
    BY <1>4, <1>6, <2>6 DEF Serving
<1>10. view' \in [Devices -> Identities \cup {NoIdentity}]
  BY <1>2, <1>4, MergedType
<1>11. applied' \subseteq Requests
  <2>1. \A o \in Received(file) : file.operations[o] \in Receipts
    BY <1>1 DEF Received, Registries
  <2> QED
    BY <1>4, <2>1 DEF IInv, TypeOK, Receipts
<1>12. TypeOK'
  BY <1>2, <1>4, <1>10, <1>11 DEF IInv, TypeOK
<1> QED
  BY <1>8, <1>9, <1>12 DEF IInv

-----------------------------------------------------------------------------
LEMMA Initially == Init => IInv
<1> SUFFICES ASSUME Init PROVE IInv
  OBVIOUS
<1>1. /\ registry = EmptyRegistry /\ file = EmptyRegistry /\ failed = FALSE
      /\ config \in Configs /\ view = Merged(config, registry) /\ lapsed = {}
      /\ Consistent(config, registry) /\ Reserved(config, registry)
      /\ pairings = [p \in Pairings |-> NoClaim] /\ minted = 0
      /\ flights = {} /\ created = {} /\ retired = {} /\ applied = {}
      /\ cancelled = {}
  BY DEF Init
<1>2. EmptyRegistry \in Registries /\ Recorded(EmptyRegistry) = {}
  BY DEF EmptyRegistry, Registries, Recorded
<1>3. TypeOK
  <2>1. view \in [Devices -> Identities \cup {NoIdentity}]
    BY <1>1, <1>2, MergedType
  <2>2. minted \in 0..MaxFresh
    BY <1>1, ConstantsAssumption
  <2> QED
    BY <1>1, <1>2, <2>1, <2>2 DEF TypeOK
<1>4. Minted /\ Remembered
  BY <1>1, <1>2 DEF Minted, Unminted, Remembered
<1>5. Reserved(config, Pruned(registry))
  <2>1. Pruned(registry).records = registry.records
        /\ Received(Pruned(registry)) \subseteq Received(registry)
    BY <1>1, <1>2 DEF Pruned, Received, Registries
  <2> QED
    BY <1>1, <2>1, ReservedLess
<1> QED
  BY <1>1, <1>3, <1>4, <1>5 DEF IInv, Serving

LEMMA Inductive == IInv /\ [Next]_vars => IInv'
<1> SUFFICES ASSUME IInv, [Next]_vars PROVE IInv'
  OBVIOUS
<1>1. CASE UNCHANGED vars
  <2>1. TypeOK'
    BY <1>1 DEF vars, IInv, TypeOK
  <2> QED
    BY <1>1, <2>1, QuietStep DEF vars
<1>2. ASSUME NEW o \in Operations, Replay(o) PROVE IInv'
  BY <1>1, <1>2 DEF Replay
<1>3. ASSUME NEW o \in Operations, NEW m \in Mutations, Mutate(o, m) PROVE IInv'
  BY <1>3, MutateStep
<1>4. ASSUME NEW p \in Pairings, NEW d \in Devices, NEW a \in Addresses,
             CreatePairing(p, d, a)
      PROVE  IInv'
  BY <1>4, CreatePairingStep
<1>5. ASSUME NEW p \in Pairings, NEW o \in Operations, BeginApproval(p, o)
      PROVE  IInv'
  BY <1>5, BeginApprovalStep
<1>6. ASSUME NEW p \in Pairings, BeginClaim(p) PROVE IInv'
  BY <1>6, BeginClaimStep
<1>7. ASSUME NEW p \in Pairings, Cancel(p) PROVE IInv'
  BY <1>7, CancelStep
<1>8. ASSUME NEW f \in flights, FinishApproval(f) PROVE IInv'
  BY <1>8, FinishApprovalStep
<1>9. ASSUME NEW f \in flights, FinishClaim(f) PROVE IInv'
  BY <1>9, FinishClaimStep
<1>10. ASSUME NEW c \in Configs, Restart(c) PROVE IInv'
  BY <1>10, RestartStep
<1> QED
  BY <1>1, <1>2, <1>3, <1>4, <1>5, <1>6, <1>7, <1>8, <1>9, <1>10, OtherStep
     DEF Next

LEMMA Invariant == Spec => []IInv
  BY Initially, Inductive, PTL DEF Spec

\* A failed server serves nobody.
LEMMA NobodyActive == Active(Nobody) = {}
BY DEF Active, Nobody, NoIdentity

\* The registries, the identities, the pairings and the approvals in progress
\* stay well formed: an active record has a token that its own history lacks,
\* and only an override of a static identity has a fingerprint.
THEOREM TypeCorrect == Spec => []TypeOK
BY Invariant, PTL DEF IInv

\* commitRegistry and New: whoever may authenticate is in the file, before and
\* after every save, crash and restart.
THEOREM ProvenOnlyCorrect == Spec => []ProvenOnly
<1>1. IInv => ProvenOnly
  <2> SUFFICES ASSUME IInv PROVE ProvenOnly
    OBVIOUS
  <2>1. CASE failed
    BY <2>1, NobodyActive DEF IInv, Serving, ProvenOnly, Credentials
  <2>2. CASE ~failed
    BY <2>2 DEF IInv, Serving, ProvenOnly
  <2> QED
    BY <2>1, <2>2
<1> QED
  BY <1>1, Invariant, PTL

\* mutateRegistry, registryIdentities and New: a token that was confirmed as
\* replaced or revoked never authenticates again, under any configuration.
THEOREM NeverRevivedCorrect == Spec => []NeverRevived
<1>1. IInv => NeverRevived
  <2> SUFFICES ASSUME IInv PROVE NeverRevived
    OBVIOUS
  <2>1. CASE failed
    BY <2>1, NobodyActive DEF IInv, Serving, NeverRevived
  <2>2. CASE ~failed
    <3>1. retired \subseteq Revoked(registry)
      BY DEF IInv, Remembered
    <3>2. \A d \in Active(view) : view[d].token \notin Revoked(registry)
      BY <2>2 DEF IInv, Serving, Consistent
    <3> QED
      BY <3>1, <3>2 DEF NeverRevived
  <2> QED
    BY <2>1, <2>2
<1> QED
  BY <1>1, Invariant, PTL

\* commitRegistry, publishRegistry and New: the credentials in force are durable,
\* and none of them was confirmed as replaced or revoked.
THEOREM CredentialsSoundCorrect == Spec => []CredentialsSound
<1>1. ProvenOnly /\ NeverRevived => CredentialsSound
  BY DEF CredentialsSound
<1> QED
  BY <1>1, ProvenOnlyCorrect, NeverRevivedCorrect, PTL
-----------------------------------------------------------------------------
(* Kinds of step                                                           *)

\* What a commit of the registry next does to memory and file.
Commits(next) ==
    \/ registry' = next /\ file' = next /\ failed' = FALSE
    \/ registry' = registry /\ file' \in {registry, next} /\ failed' = TRUE

\* Steps that concern no registry: pairings, flights and expiry.
Quiet ==
    /\ UNCHANGED <<config, registry, file, failed, view, minted, retired, applied>>
    /\ lapsed \subseteq lapsed'

LEMMA KindOfStep ==
    ASSUME [Next]_vars
    PROVE  \/ \E o \in Operations, m \in Mutations : Mutate(o, m)
           \/ \E f \in flights : FinishApproval(f)
           \/ \E p \in Pairings : Cancel(p)
           \/ \E c \in Configs : Restart(c)
           \/ Quiet
<1>1. ASSUME NEW o \in Operations, Replay(o) \/ LapseOperation(o) PROVE Quiet
  BY <1>1 DEF Replay, LapseOperation, Quiet, vars
<1>2. ASSUME NEW p \in Pairings,
             \/ \E d \in Devices, a \in Addresses : CreatePairing(p, d, a)
             \/ \E o \in Operations : BeginApproval(p, o)
             \/ GuessedOut(p) \/ BeginClaim(p) \/ LapsePairing(p)
      PROVE  Quiet
  BY <1>2 DEF CreatePairing, BeginApproval, GuessedOut, BeginClaim, LapsePairing, Take, Quiet
<1>3. ASSUME NEW f \in flights, FinishClaim(f) \/ Abandon(f) PROVE Quiet
  BY <1>3 DEF FinishClaim, Abandon, Quiet
<1>4. CASE UNCHANGED vars
  BY <1>4 DEF vars, Quiet
<1> QED
  BY <1>1, <1>2, <1>3, <1>4 DEF Next

\* What each kind of step does to the registries.
LEMMA MutateCommits ==
    ASSUME IInv, NEW o \in Operations, NEW m \in Mutations, Mutate(o, m)
    PROVE  /\ ~failed /\ file = registry /\ ~Live(o) /\ minted < MaxFresh
           /\ Admitted(o, m) /\ Matches(m)
           /\ minted \in Nat /\ minted' = minted + 1
           /\ Commits(Planned(o, m))
           /\ \/ failed' = FALSE /\ applied' = applied \cup {m} /\ lapsed' = lapsed \ {o}
              \/ failed' = TRUE /\ applied' = applied /\ lapsed' = lapsed
<1>1. ~failed /\ file = registry /\ failed = FALSE
  BY DEF Mutate, IInv, Serving, TypeOK
<1> QED
  BY <1>1 DEF Mutate, Admitted, CommitSucceeds, CommitFails, Commits, IInv, TypeOK

LEMMA ApprovalCommits ==
    ASSUME IInv, NEW f \in flights, FinishApproval(f)
    PROVE  /\ ~failed /\ file = registry /\ minted < MaxFresh
           /\ f \in Flights /\ f.kind = "approve" /\ AdmittedApproval(f)
           /\ minted \in Nat
           /\ minted' = IF view[f.device] = NoIdentity THEN minted + 1 ELSE minted
           /\ Commits(PlannedApproval(f)) /\ applied' = applied
           /\ \/ failed' = FALSE /\ lapsed' = lapsed \ {f.operation}
              \/ failed' = TRUE /\ lapsed' = lapsed
<1>1. ~failed /\ file = registry /\ failed = FALSE
  BY DEF FinishApproval, IInv, Serving, TypeOK
<1>2. f \in Flights
  BY DEF IInv, TypeOK
<1> QED
  BY <1>1, <1>2 DEF FinishApproval, CommitSucceeds, CommitFails, Commits, IInv, TypeOK

LEMMA CancelCommits ==
    ASSUME IInv, NEW p \in Pairings, Cancel(p)
    PROVE  /\ ~failed /\ file = registry
           /\ UNCHANGED <<config, minted, lapsed, applied>>
           /\ \/ Commits(WithoutClaim(p)) /\ Acceptable(WithoutClaim(p))
              \/ registry' = registry /\ file' = file /\ failed' = failed
<1>1. ~failed /\ file = registry /\ failed = FALSE
  BY DEF Cancel, IInv, Serving, TypeOK
<1> QED
  BY <1>1 DEF Cancel, CommitFails, Commits

-----------------------------------------------------------------------------
(* Generations                                                             *)

\* A generation is minted with a token, and names its device; a record that is
\* active has the token it was minted with.
IssuedBy(r, n) ==
    \A d \in Recorded(r) :
        /\ r.records[d].generation \in {d} \X (1..n)
        /\ r.records[d].state = "active" => r.records[d].generation = <<d, r.records[d].token>>

Issued == IssuedBy(registry, minted) /\ IssuedBy(file, minted)

LEMMA IssuedSame ==
    ASSUME NEW r, NEW q, NEW n \in Nat, NEW k \in Nat, n <= k,
           q.records = r.records, IssuedBy(r, n)
    PROVE  IssuedBy(q, k)
<1>1. Recorded(q) = Recorded(r)
  BY DEF Recorded
<1> QED
  BY <1>1 DEF IssuedBy

\* The identity of a recorded device has the record's generation.
LEMMA RecordedIdentity ==
    ASSUME IInv, ~failed, NEW d \in Devices
    PROVE  /\ view[d] = Identity(config, registry, d)
           /\ registry.records[d] # NoRecord =>
                /\ view[d].generation = registry.records[d].generation
                /\ view[d].state \in {"conflict", registry.records[d].state}
                /\ registry.records[d] \in Records
           /\ registry.records[d] = NoRecord /\ view[d] # NoIdentity =>
                /\ config.static[d] \in StaticTokens
                /\ view[d].generation = <<d, config.static[d]>>
                /\ view[d].state = "active" /\ view[d].token = config.static[d]
<1>1. view[d] = Identity(config, registry, d)
  BY DEF IInv, Serving, Merged
<1>2. registry.records[d] # NoRecord => registry.records[d] \in Records
  BY DEF IInv, TypeOK, Registries
<1>3. config.static[d] \in StaticTokens \cup {None}
  BY ConfigAssumption DEF IInv, TypeOK
<1> QED
  BY <1>1, <1>2, <1>3 DEF Identity

LEMMA PlannedRecord ==
    ASSUME IInv, ~failed, NEW o \in Operations, NEW m \in Mutations, Matches(m)
    PROVE  /\ Planned(o, m).records[m.device] = NewRecord(m)
           /\ \A d \in Devices \ {m.device} : Planned(o, m).records[d] = registry.records[d]
           /\ NewRecord(m) # NoRecord
           /\ Recorded(Planned(o, m)) = Recorded(registry) \cup {m.device}
           /\ m.device \in Devices
<1>1. m.device \in Devices /\ registry \in Registries
  BY MutationType DEF IInv, TypeOK
<1>2. Pruned(registry).records = registry.records
  BY <1>1, PrunedType
<1>3. Planned(o, m).records = [registry.records EXCEPT ![m.device] = NewRecord(m)]
  BY <1>2 DEF Planned
<1>4. NewRecord(m) # NoRecord
  <2>1. NewRecord(m).state \in {"active", "revoked"}
    BY DEF NewRecord
  <2>2. NoRecord.state = "none"
    BY DEF NoRecord
  <2> QED
    BY <2>1, <2>2
<1>5. /\ Planned(o, m).records[m.device] = NewRecord(m)
      /\ \A d \in Devices \ {m.device} : Planned(o, m).records[d] = registry.records[d]
  BY <1>1, <1>3 DEF Registries
<1> QED
  BY <1>1, <1>4, <1>5 DEF Recorded

LEMMA PlannedIssued ==
    ASSUME IInv, Issued, NEW o \in Operations, NEW m \in Mutations, ~failed, Matches(m)
    PROVE  IssuedBy(Planned(o, m), minted + 1)
<1> DEFINE new == NewRecord(m)
<1>1. minted \in Nat
  BY DEF IInv, TypeOK
<1>2. new.generation \in {m.device} \X (1..(minted + 1))
  <2>1. CASE m.kind = "revoke" /\ view[m.device].state = "revoked"
    <3>1. m.device \in Recorded(registry) /\ new.generation = registry.records[m.device].generation
      BY <2>1, MutationType, RecordedIdentity DEF NewRecord, NewGeneration, NoIdentity, Recorded
    <3> QED
      BY <1>1, <3>1 DEF Issued, IssuedBy
  <2>2. CASE ~(m.kind = "revoke" /\ view[m.device].state = "revoked")
    BY <1>1, <2>2 DEF NewRecord, NewGeneration
  <2> QED
    BY <2>1, <2>2
<1>3. new.state = "active" => new.generation = <<m.device, new.token>>
  BY DEF NewRecord, NewGeneration, NewToken
<1>4. ASSUME NEW d \in Recorded(registry)
      PROVE  /\ registry.records[d].generation \in {d} \X (1..(minted + 1))
             /\ registry.records[d].state = "active" =>
                  registry.records[d].generation = <<d, registry.records[d].token>>
  BY <1>1 DEF Issued, IssuedBy
<1> HIDE DEF new
<1> QED
  BY <1>2, <1>3, <1>4, PlannedRecord DEF IssuedBy, Recorded, new
LEMMA ApprovalRecord ==
    ASSUME IInv, ~failed, NEW f \in Flights
    PROVE  /\ view[f.device] # NoIdentity => PlannedApproval(f).records = registry.records
           /\ view[f.device] = NoIdentity =>
                /\ registry.records[f.device] = NoRecord
                /\ config.static[f.device] = None
                /\ PlannedApproval(f).records[f.device] =
                     [generation |-> <<f.device, minted + 1>>, state |-> "active",
                      token |-> minted + 1, origin |-> "dynamic", fingerprint |-> None,
                      revoked |-> {}]
                /\ \A d \in Devices \ {f.device} :
                     PlannedApproval(f).records[d] = registry.records[d]
                /\ Recorded(PlannedApproval(f)) = Recorded(registry) \cup {f.device}
           /\ f.device \in Devices
<1> DEFINE new == [generation |-> <<f.device, minted + 1>>, state |-> "active",
                   token |-> minted + 1, origin |-> "dynamic", fingerprint |-> None,
                   revoked |-> {}]
<1>1. f.device \in Devices /\ registry \in Registries /\ config \in Configs
  BY DEF Flights, IInv, TypeOK
<1>2. Pruned(registry).records = registry.records
  BY <1>1, PrunedType
<1>3. view[f.device] # NoIdentity => PlannedApproval(f).records = registry.records
  BY <1>2 DEF PlannedApproval
<1>4. ASSUME view[f.device] = NoIdentity
      PROVE  registry.records[f.device] = NoRecord /\ config.static[f.device] = None
  BY <1>1, <1>4, RecordedIdentity, MergedType
<1>5. ASSUME view[f.device] = NoIdentity
      PROVE  PlannedApproval(f).records = [registry.records EXCEPT ![f.device] = new]
  BY <1>2, <1>5 DEF PlannedApproval
<1>6. new # NoRecord
  <2>1. new.state = "active" /\ NoRecord.state = "none"
    BY DEF NoRecord
  <2> QED
    BY <2>1
<1>7. ASSUME view[f.device] = NoIdentity
      PROVE  /\ PlannedApproval(f).records[f.device] = new
             /\ \A d \in Devices \ {f.device} :
                  PlannedApproval(f).records[d] = registry.records[d]
  <2> HIDE DEF new
  <2> QED
    BY <1>1, <1>5, <1>7 DEF Registries
<1>8. ASSUME view[f.device] = NoIdentity
      PROVE  Recorded(PlannedApproval(f)) = Recorded(registry) \cup {f.device}
  <2> HIDE DEF new
  <2> QED
    BY <1>1, <1>6, <1>7, <1>8 DEF Recorded
<1> QED
  BY <1>1, <1>3, <1>4, <1>7, <1>8

LEMMA ApprovalIssued ==
    ASSUME IInv, Issued, NEW f \in Flights, ~failed
    PROVE  IssuedBy(PlannedApproval(f),
                    IF view[f.device] = NoIdentity THEN minted + 1 ELSE minted)
<1>1. minted \in Nat
  BY DEF IInv, TypeOK
<1>2. CASE view[f.device] # NoIdentity
  <2>1. PlannedApproval(f).records = registry.records
    BY <1>2, ApprovalRecord
  <2>2. IssuedBy(PlannedApproval(f), minted)
    BY <1>1, <2>1, IssuedSame DEF Issued
  <2> QED
    BY <1>2, <2>2
<1>3. CASE view[f.device] = NoIdentity
  <2> DEFINE next == PlannedApproval(f)
  <2>1. /\ next.records[f.device].generation = <<f.device, minted + 1>>
        /\ next.records[f.device].token = minted + 1
        /\ \A d \in Devices \ {f.device} : next.records[d] = registry.records[d]
        /\ Recorded(next) = Recorded(registry) \cup {f.device}
    <3>1. next.records[f.device] =
            [generation |-> <<f.device, minted + 1>>, state |-> "active",
             token |-> minted + 1, origin |-> "dynamic", fingerprint |-> None,
             revoked |-> {}]
      BY <1>3, ApprovalRecord
    <3>2. /\ next.records[f.device].generation = <<f.device, minted + 1>>
          /\ next.records[f.device].token = minted + 1
      BY <3>1
    <3> QED
      BY <1>3, <3>2, ApprovalRecord
  <2> HIDE DEF next
  <2>2. ASSUME NEW d \in Recorded(next)
        PROVE  /\ next.records[d].generation \in {d} \X (1..(minted + 1))
               /\ next.records[d].state = "active" =>
                    next.records[d].generation = <<d, next.records[d].token>>
    <3>1. CASE d = f.device
      <4>1. /\ next.records[d].generation = <<d, minted + 1>>
            /\ next.records[d].token = minted + 1
        BY <2>1, <3>1
      <4>2. minted + 1 \in 1..(minted + 1)
        BY <1>1
      <4> QED
        BY <4>1, <4>2
    <3>2. CASE d # f.device
      <4>1. d \in Recorded(registry) /\ next.records[d] = registry.records[d]
        BY <2>1, <2>2, <3>2 DEF Recorded
      <4> QED
        BY <1>1, <4>1 DEF Issued, IssuedBy
    <3> QED
      BY <3>1, <3>2
  <2> QED
    BY <1>3, <2>2 DEF IssuedBy, next
<1> QED
  BY <1>2, <1>3

LEMMA StartedRecords ==
    ASSUME IInv, NEW c \in Configs
    PROVE  Started(c).records = file.records
BY PrunedType DEF IInv, TypeOK, Started

LEMMA IssuedStep ==
    ASSUME IInv, Issued, [Next]_vars
    PROVE  Issued'
<1>1. minted \in Nat
  BY DEF IInv, TypeOK
<1>2. ASSUME NEW next, IssuedBy(next, minted'), Commits(next), minted' \in {minted, minted + 1},
             file = registry
      PROVE  Issued'
  <2>1. IssuedBy(registry, minted')
    BY <1>1, <1>2, IssuedSame DEF Issued
  <2> QED
    BY <1>2, <2>1 DEF Commits, Issued
<1>3. ASSUME NEW o \in Operations, NEW m \in Mutations, Mutate(o, m) PROVE Issued'
  BY <1>2, <1>3, MutateCommits, PlannedIssued
<1>4. ASSUME NEW f \in flights, FinishApproval(f) PROVE Issued'
  BY <1>2, <1>4, ApprovalCommits, ApprovalIssued
<1>5. ASSUME NEW p \in Pairings, Cancel(p) PROVE Issued'
  <2>1. IssuedBy(WithoutClaim(p), minted)
    BY <1>1, WithoutClaimType, IssuedSame DEF IInv, Issued
  <2>2. CASE Commits(WithoutClaim(p))
    BY <1>2, <1>5, <2>1, <2>2, CancelCommits
  <2> QED
    BY <1>5, <2>2, CancelCommits DEF Issued
<1>6. ASSUME NEW c \in Configs, Restart(c) PROVE Issued'
  <2>1. registry' = Started(c) /\ file' = Started(c) /\ minted' = minted
    BY <1>6 DEF Restart
  <2>2. IssuedBy(Started(c), minted)
    BY <1>1, StartedRecords, IssuedSame DEF Issued
  <2> QED
    BY <2>1, <2>2 DEF Issued
<1>7. CASE Quiet
  BY <1>7 DEF Quiet, Issued
<1> QED
  BY <1>3, <1>4, <1>5, <1>6, <1>7, KindOfStep

-----------------------------------------------------------------------------
(* Mutations take effect once                                              *)

\* A record shows that a mutation was applied: what it expected is gone for good,
\* unless it revokes what is revoked.
Spent(r, m, n) ==
    /\ r.records[m.device] # NoRecord
    /\ m.kind # "add" =>
         /\ \A k \in Nat : m.expected = <<m.device, k>> => k <= n
         /\ r.records[m.device].generation = m.expected =>
              m.kind = "revoke" /\ r.records[m.device].state = "revoked"

PerformedBy(r, done, n) ==
    \A m \in Mutations :
        m \in done \/ (\E o \in Received(r) : r.operations[o].request = m) => Spent(r, m, n)

Performed == PerformedBy(registry, applied, minted) /\ PerformedBy(file, applied, minted)

LEMMA SpentSame ==
    ASSUME NEW r, NEW q, NEW m, NEW n \in Nat, NEW k \in Nat, n <= k,
           q.records[m.device] = r.records[m.device], Spent(r, m, n)
    PROVE  Spent(q, m, k)
BY DEF Spent

LEMMA PerformedSame ==
    ASSUME NEW r, NEW q, NEW done, NEW n \in Nat, NEW k \in Nat, n <= k,
           q.records = r.records, PerformedBy(r, done, n),
           \A o \in Operations : q.operations[o] \in {r.operations[o], NoReceipt}
    PROVE  PerformedBy(q, done, k)
<1> SUFFICES ASSUME NEW m \in Mutations,
                    m \in done \/ (\E o \in Received(q) : q.operations[o].request = m)
             PROVE  Spent(q, m, k)
  BY DEF PerformedBy
<1>1. m \in done \/ (\E o \in Received(r) : r.operations[o].request = m)
  BY DEF Received
<1>2. Spent(r, m, n)
  BY <1>1 DEF PerformedBy
<1> QED
  BY <1>2, SpentSame

\* A mutation that is planned is spent, and those that were remain so.
LEMMA PlannedSpends ==
    ASSUME IInv, Issued, ~failed, NEW o \in Operations, NEW m \in Mutations, Matches(m)
    PROVE  /\ Spent(Planned(o, m), m, minted + 1)
           /\ \A a \in Mutations : Spent(registry, a, minted) =>
                Spent(Planned(o, m), a, minted + 1)
<1> DEFINE next == Planned(o, m)
           d == m.device
           new == NewRecord(m)
<1>1. minted \in Nat /\ d \in Devices /\ next.records[d] = new /\ new # NoRecord
  BY PlannedRecord DEF IInv, TypeOK
<1>2. /\ new.generation = IF m.kind = "revoke" /\ view[d].state = "revoked"
                          THEN view[d].generation ELSE <<d, minted + 1>>
      /\ new.state = IF m.kind = "revoke" THEN "revoked" ELSE "active"
  BY DEF NewRecord, NewGeneration
<1>3. ASSUME NEW k \in Nat, view[d].generation = <<d, k>>, view[d] # NoIdentity
      PROVE  k <= minted
  <2>1. CASE registry.records[d] = NoRecord
    <3>1. config.static[d] \in StaticTokens /\ view[d].generation = <<d, config.static[d]>>
      BY <1>1, <1>3, <2>1, RecordedIdentity
    <3> QED
      BY <1>3, <3>1, ConstantsAssumption
  <2>2. CASE registry.records[d] # NoRecord
    <3>1. view[d].generation \in {d} \X (1..minted)
      BY <1>1, <2>2, RecordedIdentity DEF Issued, IssuedBy, Recorded
    <3> QED
      BY <1>1, <1>3, <3>1
  <2> QED
    BY <2>1, <2>2
<1>4. Spent(next, m, minted + 1)
  <2>1. CASE m.kind = "add"
    BY <1>1, <2>1 DEF Spent
  <2>2. CASE m.kind # "add"
    <3>1. view[d] # NoIdentity /\ view[d].generation = m.expected
      BY <2>2 DEF Matches
    <3>2. \A k \in Nat : m.expected = <<d, k>> => k <= minted + 1
      BY <1>1, <1>3, <3>1
    <3>3. new.generation = m.expected => m.kind = "revoke" /\ new.state = "revoked"
      BY <1>1, <1>2, <1>3, <3>1
    <3> QED
      BY <1>1, <3>2, <3>3 DEF Spent
  <2> QED
    BY <2>1, <2>2
<1>5. ASSUME NEW a \in Mutations, Spent(registry, a, minted)
      PROVE  Spent(next, a, minted + 1)
  <2>1. CASE a.device # d
    BY <1>1, <1>5, <2>1, PlannedRecord, MutationType, SpentSame
  <2>2. CASE a.device = d /\ a.kind = "add"
    BY <1>1, <2>2 DEF Spent
  <2>3. CASE a.device = d /\ a.kind # "add"
    <3>1. /\ registry.records[d] # NoRecord
          /\ \A k \in Nat : a.expected = <<d, k>> => k <= minted
          /\ registry.records[d].generation = a.expected =>
               a.kind = "revoke" /\ registry.records[d].state = "revoked"
      BY <1>5, <2>3 DEF Spent
    <3>2. view[d].generation = registry.records[d].generation
      BY <1>1, <3>1, RecordedIdentity
    <3>3. \A k \in Nat : a.expected = <<d, k>> => k <= minted + 1
      BY <1>1, <3>1
    <3>4. new.generation = a.expected => a.kind = "revoke" /\ new.state = "revoked"
      BY <1>1, <1>2, <3>1, <3>2
    <3> QED
      BY <1>1, <2>3, <3>3, <3>4 DEF Spent
  <2> QED
    BY <2>1, <2>2, <2>3
<1> QED
  BY <1>4, <1>5
LEMMA PrunedReceipts ==
    ASSUME NEW r \in Registries, NEW o \in Operations
    PROVE  Pruned(r).operations[o] = IF o \in lapsed THEN NoReceipt ELSE r.operations[o]
BY DEF Pruned, Registries

LEMMA PlannedReceipts ==
    ASSUME IInv, NEW o \in Operations, NEW m \in Mutations
    PROVE  /\ Planned(o, m).operations[o].request = m
           /\ \A x \in Operations \ {o} :
                Planned(o, m).operations[x] = IF x \in lapsed THEN NoReceipt
                                                              ELSE registry.operations[x]
<1> DEFINE receipt == [request |-> m, device |-> m.device,
                       generation |-> NewRecord(m).generation, state |-> NewRecord(m).state]
<1>1. registry \in Registries /\ Pruned(registry) \in Registries
  BY PrunedType DEF IInv, TypeOK
<1>2. Planned(o, m).operations = [Pruned(registry).operations EXCEPT ![o] = receipt]
  BY DEF Planned
<1>3. receipt.request = m
  OBVIOUS
<1> HIDE DEF receipt
<1>4. Planned(o, m).operations[o] = receipt
      /\ \A x \in Operations \ {o} : Planned(o, m).operations[x] = Pruned(registry).operations[x]
  BY <1>1, <1>2 DEF Registries
<1> QED
  BY <1>1, <1>3, <1>4, PrunedReceipts

LEMMA ApprovalReceipts ==
    ASSUME IInv, NEW f \in Flights, f.kind = "approve"
    PROVE  /\ f.operation \in Operations
           /\ PlannedApproval(f).operations[f.operation].request = Approval(f.pairing)
           /\ \A x \in Operations \ {f.operation} :
                PlannedApproval(f).operations[x] = IF x \in lapsed THEN NoReceipt
                                                                   ELSE registry.operations[x]
<1> DEFINE generation == IF view[f.device] # NoIdentity THEN view[f.device].generation
                                                        ELSE <<f.device, minted + 1>>
           receipt == [request |-> Approval(f.pairing), device |-> f.device,
                       generation |-> generation, state |-> "active"]
<1>1. registry \in Registries /\ Pruned(registry) \in Registries
  BY PrunedType DEF IInv, TypeOK
<1>2. f.operation \in Operations
  BY DEF Flights
<1>3. PlannedApproval(f).operations = [Pruned(registry).operations EXCEPT ![f.operation] = receipt]
  BY DEF PlannedApproval
<1>4. receipt.request = Approval(f.pairing)
  OBVIOUS
<1> HIDE DEF receipt
<1>5. PlannedApproval(f).operations[f.operation] = receipt
      /\ \A x \in Operations \ {f.operation} :
           PlannedApproval(f).operations[x] = Pruned(registry).operations[x]
  BY <1>1, <1>2, <1>3 DEF Registries
<1> QED
  BY <1>1, <1>2, <1>4, <1>5, PrunedReceipts

LEMMA WithoutClaimReceipts ==
    ASSUME IInv, NEW p \in Pairings, NEW o \in Operations
    PROVE  WithoutClaim(p).operations[o] = IF o \in lapsed THEN NoReceipt
                                                           ELSE registry.operations[o]
<1>1. registry \in Registries /\ Pruned(registry) \in Registries
  BY PrunedType DEF IInv, TypeOK
<1>2. WithoutClaim(p).operations = Pruned(registry).operations
  BY <1>1 DEF WithoutClaim, Registries
<1> QED
  BY <1>1, <1>2, PrunedReceipts

LEMMA StartedReceipts ==
    ASSUME IInv, NEW c \in Configs, NEW o \in Operations
    PROVE  /\ Started(c).operations[o] \in {file.operations[o], NoReceipt}
           /\ o \notin lapsed => Started(c).operations[o] = file.operations[o]
<1>1. file \in Registries /\ Pruned(file) \in Registries
  BY PrunedType DEF IInv, TypeOK
<1>2. Started(c).operations \in {file.operations, Pruned(file).operations}
  BY <1>1 DEF Started, Registries
<1> QED
  BY <1>1, <1>2, PrunedReceipts

LEMMA PlannedPerformed ==
    ASSUME IInv, Issued, Performed, ~failed, NEW o \in Operations, NEW m \in Mutations,
           Matches(m)
    PROVE  PerformedBy(Planned(o, m), applied \cup {m}, minted + 1)
<1> DEFINE next == Planned(o, m)
<1> SUFFICES ASSUME NEW a \in Mutations,
                    \/ a \in applied \cup {m}
                    \/ \E x \in Received(next) : next.operations[x].request = a
             PROVE  Spent(next, a, minted + 1)
  BY DEF PerformedBy
<1>1. CASE a = m
  BY <1>1, PlannedSpends
<1>2. CASE a # m
  <2>1. a \in applied \/ \E x \in Received(registry) : registry.operations[x].request = a
    BY <1>2, PlannedReceipts DEF Received
  <2>2. Spent(registry, a, minted)
    BY <2>1 DEF Performed, PerformedBy
  <2> QED
    BY <2>2, PlannedSpends
<1> QED
  BY <1>1, <1>2

LEMMA ApprovalPerformed ==
    ASSUME IInv, Performed, ~failed, NEW f \in Flights, f.kind = "approve"
    PROVE  PerformedBy(PlannedApproval(f), applied,
                       IF view[f.device] = NoIdentity THEN minted + 1 ELSE minted)
<1> DEFINE next == PlannedApproval(f)
           n == IF view[f.device] = NoIdentity THEN minted + 1 ELSE minted
<1>1. minted \in Nat /\ n \in Nat /\ minted <= n
  BY DEF IInv, TypeOK
<1> HIDE DEF n
<1> SUFFICES ASSUME NEW a \in Mutations,
                    \/ a \in applied
                    \/ \E x \in Received(next) : next.operations[x].request = a
             PROVE  Spent(next, a, n)
  BY DEF PerformedBy, n
<1>2. a # Approval(f.pairing)
  BY DEF Mutations, Approval
<1>3. a \in applied \/ \E x \in Received(registry) : registry.operations[x].request = a
  BY <1>2, ApprovalReceipts DEF Received
<1>4. Spent(registry, a, minted)
  BY <1>3 DEF Performed, PerformedBy
<1>5. registry.records[a.device] # NoRecord
  BY <1>4 DEF Spent
<1>6. next.records[a.device] = registry.records[a.device]
  BY <1>5, MutationType, ApprovalRecord
<1> QED
  BY <1>1, <1>4, <1>6, SpentSame

LEMMA PerformedStep ==
    ASSUME IInv, Issued, Performed, [Next]_vars
    PROVE  Performed'
<1>1. minted \in Nat
  BY DEF IInv, TypeOK
<1>2. ASSUME NEW next, NEW done, PerformedBy(next, done, minted'), applied \subseteq done
      PROVE  PerformedBy(next, applied, minted')
  BY <1>2 DEF PerformedBy
<1>3. ASSUME NEW next, PerformedBy(next, applied, minted'), Commits(next), failed' = TRUE,
             minted' \in {minted, minted + 1}, file = registry, applied' = applied
      PROVE  Performed'
  <2>1. PerformedBy(registry, applied, minted')
    BY <1>1, <1>3, PerformedSame DEF Performed
  <2>2. registry' \in {registry, next} /\ file' \in {registry, next}
    BY <1>3 DEF Commits
  <2> QED
    BY <1>3, <2>1, <2>2 DEF Performed
<1>4. ASSUME NEW next, PerformedBy(next, applied', minted'), Commits(next), failed' = FALSE
      PROVE  Performed'
  BY <1>4 DEF Performed, Commits
<1>5. ASSUME NEW o \in Operations, NEW m \in Mutations, Mutate(o, m) PROVE Performed'
  <2>1. PerformedBy(Planned(o, m), applied \cup {m}, minted')
    BY <1>5, MutateCommits, PlannedPerformed
  <2>2. PerformedBy(Planned(o, m), applied, minted')
    BY <2>1, <1>2
  <2>3. CASE failed' = FALSE
    <3>1. applied' = applied \cup {m} /\ Commits(Planned(o, m))
      BY <1>5, <2>3, MutateCommits
    <3>2. PerformedBy(Planned(o, m), applied', minted')
      BY <2>1, <3>1
    <3> QED
      BY <1>4, <2>3, <3>1, <3>2
  <2>4. CASE failed' = TRUE
    BY <1>3, <1>5, <2>2, <2>4, MutateCommits
  <2> QED
    BY <1>5, <2>3, <2>4, MutateCommits
<1>6. ASSUME NEW f \in flights, FinishApproval(f) PROVE Performed'
  <2>1. PerformedBy(PlannedApproval(f), applied, minted') /\ applied' = applied
    <3>1. /\ ~failed /\ f \in Flights /\ f.kind = "approve" /\ applied' = applied
          /\ minted' = IF view[f.device] = NoIdentity THEN minted + 1 ELSE minted
      BY <1>6, ApprovalCommits
    <3>2. PerformedBy(PlannedApproval(f), applied,
                      IF view[f.device] = NoIdentity THEN minted + 1 ELSE minted)
      BY <3>1, ApprovalPerformed
    <3> QED
      BY <3>1, <3>2
  <2>2. CASE failed' = FALSE
    BY <1>4, <1>6, <2>1, <2>2, ApprovalCommits
  <2>3. CASE failed' = TRUE
    BY <1>3, <1>6, <2>1, <2>3, ApprovalCommits
  <2> QED
    BY <1>6, <2>2, <2>3, ApprovalCommits
<1>7. ASSUME NEW p \in Pairings, Cancel(p) PROVE Performed'
  <2>1. PerformedBy(WithoutClaim(p), applied, minted)
    <3>1. WithoutClaim(p).records = registry.records
      BY WithoutClaimType DEF IInv
    <3>2. \A o \in Operations : WithoutClaim(p).operations[o] \in {registry.operations[o], NoReceipt}
      BY WithoutClaimReceipts
    <3> QED
      BY <1>1, <3>1, <3>2, PerformedSame DEF Performed
  <2>2. CASE registry' = registry /\ file' = file /\ failed' = failed
    BY <1>7, <2>2, CancelCommits DEF Performed
  <2>3. CASE Commits(WithoutClaim(p))
    <3>1. CASE failed' = FALSE
      BY <1>4, <1>7, <2>1, <2>3, <3>1, CancelCommits
    <3>2. CASE failed' = TRUE
      BY <1>3, <1>7, <2>1, <2>3, <3>2, CancelCommits
    <3> QED
      BY <2>3, <3>1, <3>2 DEF Commits
  <2> QED
    BY <1>7, <2>2, <2>3, CancelCommits
<1>8. ASSUME NEW c \in Configs, Restart(c) PROVE Performed'
  <2>1. /\ registry' = Started(c) /\ file' = Started(c) /\ minted' = minted
        /\ applied' = applied \cup {file.operations[o].request : o \in Received(file)}
    BY <1>8 DEF Restart
  <2>2. PerformedBy(file, applied', minted)
    BY <2>1 DEF Performed, PerformedBy
  <2>3. PerformedBy(Started(c), applied', minted)
    BY <1>1, <2>2, StartedRecords, StartedReceipts, PerformedSame
  <2> QED
    BY <2>1, <2>3 DEF Performed
<1>9. CASE Quiet
  BY <1>9 DEF Quiet, Performed
<1> QED
  BY <1>5, <1>6, <1>7, <1>8, <1>9, KindOfStep
-----------------------------------------------------------------------------
(* Claims and pairings                                                     *)

LEMMA PrunedClaims ==
    ASSUME NEW r \in Registries, NEW p \in Pairings
    PROVE  Pruned(r).claims[p] = IF p \in lapsed THEN NoClaim ELSE r.claims[p]
BY DEF Pruned, Registries

LEMMA PlannedClaims ==
    ASSUME IInv, NEW o \in Operations, NEW m \in Mutations, NEW p \in Pairings
    PROVE  Planned(o, m).claims[p] =
             IF p \in lapsed \/ registry.claims[p].device = m.device
             THEN NoClaim ELSE registry.claims[p]
<1>1. registry \in Registries
  BY DEF IInv, TypeOK
<1>2. Planned(o, m).claims[p] = IF Pruned(registry).claims[p].device = m.device
                                THEN NoClaim ELSE Pruned(registry).claims[p]
  BY DEF Planned
<1> QED
  BY <1>1, <1>2, PrunedClaims

LEMMA ApprovalClaims ==
    ASSUME IInv, NEW f \in Flights
    PROVE  /\ f.pairing \in Pairings
           /\ PlannedApproval(f).claims[f.pairing].device = f.device
           /\ \A p \in Pairings \ {f.pairing} :
                PlannedApproval(f).claims[p] = IF p \in lapsed THEN NoClaim
                                                               ELSE registry.claims[p]
<1> DEFINE generation == IF view[f.device] # NoIdentity THEN view[f.device].generation
                                                        ELSE <<f.device, minted + 1>>
           claim == [device |-> f.device, generation |-> generation,
                     operation |-> f.operation, address |-> f.address]
<1>1. registry \in Registries /\ Pruned(registry) \in Registries
  BY PrunedType DEF IInv, TypeOK
<1>2. f.pairing \in Pairings
  BY DEF Flights
<1>3. PlannedApproval(f).claims = [Pruned(registry).claims EXCEPT ![f.pairing] = claim]
  BY DEF PlannedApproval
<1>4. claim.device = f.device
  OBVIOUS
<1> HIDE DEF claim
<1>5. PlannedApproval(f).claims[f.pairing] = claim
      /\ \A p \in Pairings \ {f.pairing} :
           PlannedApproval(f).claims[p] = Pruned(registry).claims[p]
  BY <1>1, <1>2, <1>3 DEF Registries
<1> QED
  BY <1>1, <1>2, <1>4, <1>5, PrunedClaims

LEMMA WithoutClaimClaims ==
    ASSUME IInv, NEW p \in Pairings, NEW q \in Pairings
    PROVE  WithoutClaim(p).claims[q] = IF q = p \/ q \in lapsed THEN NoClaim
                                       ELSE registry.claims[q]
<1>1. registry \in Registries /\ Pruned(registry) \in Registries
  BY PrunedType DEF IInv, TypeOK
<1>2. WithoutClaim(p).claims = [Pruned(registry).claims EXCEPT ![p] = NoClaim]
  BY <1>1 DEF WithoutClaim, Registries
<1>3. WithoutClaim(p).claims[q] = IF q = p THEN NoClaim ELSE Pruned(registry).claims[q]
  BY <1>1, <1>2 DEF Registries
<1> QED
  BY <1>1, <1>3, PrunedClaims

LEMMA StartedClaims ==
    ASSUME IInv, NEW c \in Configs, NEW p \in Pairings
    PROVE  Started(c).claims[p] \in {file.claims[p], NoClaim}
<1> DEFINE kept == Pruned(file)
           some == [q \in Pairings |->
                      IF kept.claims[q] # NoClaim /\ kept.claims[q].address \in c.addresses
                      THEN kept.claims[q] ELSE NoClaim]
<1>1. file \in Registries /\ kept \in Registries
  BY PrunedType DEF IInv, TypeOK
<1>2. Started(c) = file \/ Started(c) = [kept EXCEPT !.claims = some]
  BY DEF Started
<1>3. some[p] \in {kept.claims[p], NoClaim}
  OBVIOUS
<1>4. kept.claims[p] \in {file.claims[p], NoClaim}
  BY <1>1, PrunedClaims
<1> HIDE DEF some, kept
<1>5. [kept EXCEPT !.claims = some].claims = some
  BY <1>1 DEF Registries
<1> QED
  BY <1>2, <1>3, <1>4, <1>5

LEMMA PublishDrops ==
    ASSUME NEW v, Publish(v), NEW p \in Pairings
    PROVE  pairings'[p] \in {pairings[p], NoClaim}
BY DEF Publish

LEMMA HistoryCreated ==
    ASSUME [Next]_vars
    PROVE  created \subseteq created'
BY DEF Next, Mutate, FinishApproval, Cancel, Restart, CreatePairing, GuessedOut,
       LapsePairing, BeginClaim, BeginApproval, Take, Replay, LapseOperation,
       FinishClaim, Abandon, vars

\* Only its creation makes a pairing pending.
LEMMA PendingStep ==
    ASSUME IInv, [Next]_vars, NEW p \in Pairings
    PROVE  /\ created \subseteq created'
           /\ \/ pairings'[p] \in {pairings[p], NoClaim}
              \/ p \notin created /\ p \in created' /\ lapsed' = lapsed
                 /\ cancelled' = cancelled /\ Quiet
<1>1. ASSUME NEW o \in Operations, NEW m \in Mutations, Mutate(o, m)
      PROVE  created' = created /\ pairings'[p] \in {pairings[p], NoClaim}
  BY <1>1, PublishDrops DEF Mutate, CommitSucceeds, CommitFails
<1>2. ASSUME NEW f \in flights, FinishApproval(f)
      PROVE  created' = created /\ pairings'[p] \in {pairings[p], NoClaim}
  BY <1>2, PublishDrops DEF FinishApproval, CommitSucceeds, CommitFails
<1>3. ASSUME NEW q \in Pairings, Cancel(q)
      PROVE  created' = created /\ pairings'[p] \in {pairings[p], NoClaim}
  <2>1. pairings' = [pairings EXCEPT ![q] = NoClaim] \/ CommitFails(WithoutClaim(q))
    BY <1>3 DEF Cancel
  <2>2. pairings'[p] \in {pairings[p], NoClaim}
    BY <2>1, PublishDrops DEF CommitFails, IInv, TypeOK
  <2> QED
    BY <1>3, <2>2 DEF Cancel
<1>4. ASSUME NEW c \in Configs, Restart(c)
      PROVE  created' = created /\ pairings'[p] = NoClaim
  BY <1>4 DEF Restart
<1>5. ASSUME NEW q \in Pairings, NEW d \in Devices, NEW a \in Addresses, CreatePairing(q, d, a)
      PROVE  /\ created \subseteq created'
             /\ \/ pairings'[p] = pairings[p]
                \/ p \notin created /\ p \in created' /\ lapsed' = lapsed
                   /\ cancelled' = cancelled /\ Quiet
  <2>1. created' = created \cup {q} /\ q \notin created /\ lapsed' = lapsed /\ Quiet
        /\ cancelled' = cancelled
    BY <1>5 DEF CreatePairing, Quiet
  <2>2. p = q \/ pairings'[p] = pairings[p]
    BY <1>5 DEF CreatePairing, IInv, TypeOK
  <2> QED
    BY <2>1, <2>2
<1>6. ASSUME NEW q \in Pairings, GuessedOut(q) \/ LapsePairing(q)
      PROVE  created' = created /\ pairings'[p] \in {pairings[p], NoClaim}
  BY <1>6 DEF GuessedOut, LapsePairing, IInv, TypeOK
<1>7. ASSUME NEW q \in Pairings, BeginClaim(q) \/ \E o \in Operations : BeginApproval(q, o)
      PROVE  created' = created /\ pairings' = pairings
  BY <1>7 DEF BeginClaim, BeginApproval, Take
<1>8. ASSUME NEW o \in Operations, Replay(o) \/ LapseOperation(o)
      PROVE  created' = created /\ pairings' = pairings
  BY <1>8 DEF Replay, LapseOperation, vars
<1>9. ASSUME NEW f \in flights, FinishClaim(f) \/ Abandon(f)
      PROVE  created' = created /\ pairings' = pairings
  BY <1>9 DEF FinishClaim, Abandon
<1>10. CASE UNCHANGED vars
  BY <1>10 DEF vars
<1> QED
  BY <1>1, <1>2, <1>3, <1>4, <1>5, <1>6, <1>7, <1>8, <1>9, <1>10 DEF Next
\* Whatever a registry or the history names a pairing in was created.
KnownIn(r) ==
    \A p \in Pairings :
        r.claims[p] # NoClaim \/ (\E o \in Received(r) : r.operations[o].request = Approval(p))
            => p \in created

Known ==
    /\ KnownIn(registry) /\ KnownIn(file)
    /\ \A p \in Pairings :
         Pending(p) \/ p \in lapsed \/ p \in cancelled \/ Approval(p) \in applied
             => p \in created
    /\ \A f \in flights : f.pairing \in created
    /\ \A c \in delivered : c.pairing \in created

LEMMA NoMutationApproves ==
    \A m \in Mutations, p \in Pairings : m # Approval(p)
BY DEF Mutations, Approval

LEMMA ApprovalUnique ==
    ASSUME NEW p, NEW q, Approval(p) = Approval(q)
    PROVE  p = q
<1>1. Approval(p).pairing = p /\ Approval(q).pairing = q
  BY DEF Approval
<1> QED
  BY <1>1

\* A registry that only dropped claims and receipts names no other pairing.
LEMMA KnownSame ==
    ASSUME NEW r, NEW q, KnownIn(r),
           \A p \in Pairings : q.claims[p] \in {r.claims[p], NoClaim},
           \A o \in Operations : q.operations[o] \in {r.operations[o], NoReceipt}
    PROVE  KnownIn(q)
BY DEF KnownIn, Received

LEMMA PlannedKnown ==
    ASSUME IInv, KnownIn(registry), NEW o \in Operations, NEW m \in Mutations
    PROVE  KnownIn(Planned(o, m))
<1> DEFINE next == Planned(o, m)
<1>1. ASSUME NEW p \in Pairings, next.claims[p] # NoClaim PROVE p \in created
  BY <1>1, PlannedClaims DEF KnownIn
<1>2. ASSUME NEW p \in Pairings, NEW x \in Received(next),
             next.operations[x].request = Approval(p)
      PROVE  p \in created
  <2>1. x # o
    BY <1>2, PlannedReceipts, NoMutationApproves
  <2>2. x \in Operations
    BY DEF Received
  <2>3. x \in Received(registry) /\ next.operations[x] = registry.operations[x]
    BY <1>2, <2>1, <2>2, PlannedReceipts DEF Received
  <2> QED
    BY <1>2, <2>3 DEF KnownIn
<1> QED
  BY <1>1, <1>2 DEF KnownIn

LEMMA ApprovalKnown ==
    ASSUME IInv, KnownIn(registry), NEW f \in Flights, f.kind = "approve",
           f.pairing \in created
    PROVE  KnownIn(PlannedApproval(f))
<1> DEFINE next == PlannedApproval(f)
<1>1. ASSUME NEW p \in Pairings, next.claims[p] # NoClaim PROVE p \in created
  BY <1>1, ApprovalClaims DEF KnownIn
<1>2. ASSUME NEW p \in Pairings, NEW x \in Received(next),
             next.operations[x].request = Approval(p)
      PROVE  p \in created
  <2>1. CASE x = f.operation
    BY <1>2, <2>1, ApprovalReceipts, ApprovalUnique
  <2>2. CASE x # f.operation
    <3>1. x \in Operations
      BY DEF Received
    <3>2. x \in Received(registry) /\ next.operations[x] = registry.operations[x]
      BY <1>2, <2>2, <3>1, ApprovalReceipts DEF Received
    <3> QED
      BY <1>2, <3>2 DEF KnownIn
  <2> QED
    BY <2>1, <2>2
<1> QED
  BY <1>1, <1>2 DEF KnownIn

LEMMA WithoutClaimKnown ==
    ASSUME IInv, KnownIn(registry), NEW p \in Pairings
    PROVE  KnownIn(WithoutClaim(p))
<1>1. \A q \in Pairings : WithoutClaim(p).claims[q] \in {registry.claims[q], NoClaim}
  BY WithoutClaimClaims
<1>2. \A o \in Operations : WithoutClaim(p).operations[o] \in {registry.operations[o], NoReceipt}
  BY WithoutClaimReceipts
<1> QED
  BY <1>1, <1>2, KnownSame

LEMMA StartedKnown ==
    ASSUME IInv, KnownIn(file), NEW c \in Configs
    PROVE  KnownIn(Started(c))
<1>1. \A q \in Pairings : Started(c).claims[q] \in {file.claims[q], NoClaim}
  BY StartedClaims
<1>2. \A o \in Operations : Started(c).operations[o] \in {file.operations[o], NoReceipt}
  BY StartedReceipts
<1> QED
  BY <1>1, <1>2, KnownSame

\* A lookup that begins now is for a claim or a pairing that is there now.
Begins(f) ==
    /\ ~failed /\ UNCHANGED <<registry, pairings, created>>
    /\ f.pairing \in Pairings
    /\ \/ LiveClaim(f.pairing) /\ f.device = registry.claims[f.pairing].device
       \/ Pending(f.pairing) /\ f.device = pairings[f.pairing].device

\* A step that answers a claim gives out what is in force.
Gives(c) ==
    \E f \in flights :
        /\ FinishClaim(f)
        /\ c = [pairing |-> f.pairing, device |-> f.device, token |-> view[f.device].token]

\* What becomes of the history of pairings.
LEMMA HistoryStep ==
    ASSUME IInv, [Next]_vars
    PROVE  /\ \A p \in Pairings \cap lapsed' : p \in lapsed \/ LapsePairing(p)
           /\ \A p \in cancelled' : p \in cancelled \/ (p \in Pairings /\ Cancel(p))
           /\ \A p \in Pairings : Approval(p) \in applied' =>
                \/ Approval(p) \in applied
                \/ /\ \E c \in Configs : Restart(c)
                   /\ \E o \in Received(file) : file.operations[o].request = Approval(p)
           /\ \A f \in flights' : f \in flights \/ Begins(f)
           /\ \A c \in delivered' : c \in delivered \/ Gives(c)
<1>1. ASSUME NEW o \in Operations, NEW m \in Mutations, Mutate(o, m)
      PROVE  /\ lapsed' \subseteq lapsed /\ UNCHANGED <<cancelled, flights, delivered>>
             /\ \A p \in Pairings : Approval(p) \in applied' => Approval(p) \in applied
  BY <1>1, NoMutationApproves DEF Mutate
<1>2. ASSUME NEW f \in flights, FinishApproval(f)
      PROVE  /\ lapsed' \subseteq lapsed /\ UNCHANGED <<cancelled, delivered, applied>>
             /\ flights' \subseteq flights
  BY <1>2 DEF FinishApproval
<1>3. ASSUME NEW p \in Pairings, Cancel(p)
      PROVE  UNCHANGED <<lapsed, flights, delivered, applied>>
             /\ cancelled' \subseteq cancelled \cup {p}
  BY <1>3 DEF Cancel
<1>4. ASSUME NEW c \in Configs, Restart(c)
      PROVE  /\ UNCHANGED <<lapsed, cancelled, delivered>> /\ flights' = {}
             /\ applied' = applied \cup {file.operations[o].request : o \in Received(file)}
  BY <1>4 DEF Restart
<1>5. ASSUME NEW p \in Pairings, LapsePairing(p)
      PROVE  UNCHANGED <<cancelled, flights, delivered, applied>> /\ lapsed' = lapsed \cup {p}
  BY <1>5 DEF LapsePairing
<1>6. ASSUME NEW o \in Operations, LapseOperation(o)
      PROVE  UNCHANGED <<cancelled, flights, delivered, applied>> /\ lapsed' = lapsed \cup {o}
  BY <1>6 DEF LapseOperation
<1>7. ASSUME NEW f, Take(f)
      PROVE  /\ UNCHANGED <<lapsed, cancelled, delivered, applied, registry, pairings, created>>
             /\ flights' = flights \cup {f}
  BY <1>7 DEF Take
<1>8. ASSUME NEW p \in Pairings, NEW o \in Operations, BeginApproval(p, o)
      PROVE  UNCHANGED <<lapsed, cancelled, delivered, applied>>
             /\ \A f \in flights' : f \in flights \/ Begins(f)
  <2>1. CASE LiveClaim(p)
    BY <1>7, <1>8, <2>1 DEF BeginApproval, Begins
  <2>2. CASE ~LiveClaim(p)
    BY <1>7, <1>8, <2>2 DEF BeginApproval, Begins
  <2> QED
    BY <2>1, <2>2
<1>9. ASSUME NEW p \in Pairings, BeginClaim(p)
      PROVE  UNCHANGED <<lapsed, cancelled, delivered, applied>>
             /\ \A f \in flights' : f \in flights \/ Begins(f)
  BY <1>7, <1>9 DEF BeginClaim, Begins
<1>10. ASSUME NEW f \in flights, FinishClaim(f)
       PROVE  /\ UNCHANGED <<lapsed, cancelled, applied>> /\ flights' \subseteq flights
              /\ \A c \in delivered' : c \in delivered \/ Gives(c)
  BY <1>10 DEF FinishClaim, Gives
<1>11. ASSUME NEW f \in flights, Abandon(f)
       PROVE  UNCHANGED <<lapsed, cancelled, applied, delivered>> /\ flights' \subseteq flights
  BY <1>11 DEF Abandon
<1>12. ASSUME \/ UNCHANGED vars
              \/ \E o \in Operations : Replay(o)
              \/ \E p \in Pairings : GuessedOut(p)
              \/ \E p \in Pairings, d \in Devices, a \in Addresses : CreatePairing(p, d, a)
       PROVE  UNCHANGED <<lapsed, cancelled, applied, delivered, flights>>
  BY <1>12 DEF vars, Replay, GuessedOut, CreatePairing
<1>13. \A p \in Pairings \cap lapsed' : p \in lapsed \/ LapsePairing(p)
  BY <1>1, <1>2, <1>3, <1>4, <1>5, <1>6, <1>8, <1>9, <1>10, <1>11, <1>12,
     ConstantsAssumption DEF Next
<1>14. \A p \in cancelled' : p \in cancelled \/ (p \in Pairings /\ Cancel(p))
  BY <1>1, <1>2, <1>3, <1>4, <1>5, <1>6, <1>8, <1>9, <1>10, <1>11, <1>12 DEF Next
<1>15. ASSUME NEW p \in Pairings, Approval(p) \in applied'
       PROVE  \/ Approval(p) \in applied
              \/ /\ \E c \in Configs : Restart(c)
                 /\ \E o \in Received(file) : file.operations[o].request = Approval(p)
  <2>1. CASE \E c \in Configs : Restart(c)
    BY <1>4, <1>15, <2>1
  <2>2. CASE ~ \E c \in Configs : Restart(c)
    BY <1>1, <1>2, <1>3, <1>5, <1>6, <1>8, <1>9, <1>10, <1>11, <1>12, <1>15, <2>2 DEF Next
  <2> QED
    BY <2>1, <2>2
<1>16. \A f \in flights' : f \in flights \/ Begins(f)
  BY <1>1, <1>2, <1>3, <1>4, <1>5, <1>6, <1>8, <1>9, <1>10, <1>11, <1>12 DEF Next
<1>17. \A c \in delivered' : c \in delivered \/ Gives(c)
  BY <1>1, <1>2, <1>3, <1>4, <1>5, <1>6, <1>8, <1>9, <1>10, <1>11, <1>12 DEF Next
<1> QED
  BY <1>13, <1>14, <1>15, <1>16, <1>17

LEMMA KnownStep ==
    ASSUME IInv, Known, [Next]_vars
    PROVE  Known'
<1>1. created \subseteq created'
  BY HistoryCreated
<1>2. ASSUME NEW next, KnownIn(next), Commits(next), KnownIn(registry)
      PROVE  KnownIn(registry)' /\ KnownIn(file)'
  BY <1>1, <1>2 DEF Commits, KnownIn, Received
<1>3. KnownIn(registry)' /\ KnownIn(file)'
  <2>1. ASSUME NEW o \in Operations, NEW m \in Mutations, Mutate(o, m)
        PROVE  KnownIn(registry)' /\ KnownIn(file)'
    <3>1. KnownIn(Planned(o, m)) /\ Commits(Planned(o, m))
      BY <2>1, PlannedKnown, MutateCommits DEF Known
    <3> QED
      BY <1>2, <3>1 DEF Known
  <2>2. ASSUME NEW f \in flights, FinishApproval(f)
        PROVE  KnownIn(registry)' /\ KnownIn(file)'
    <3>1. f \in Flights /\ f.kind = "approve" /\ Commits(PlannedApproval(f))
      BY <2>2, ApprovalCommits
    <3>2. KnownIn(PlannedApproval(f))
      BY <3>1, ApprovalKnown DEF Known
    <3> QED
      BY <1>2, <3>1, <3>2 DEF Known
  <2>3. ASSUME NEW p \in Pairings, Cancel(p)
        PROVE  KnownIn(registry)' /\ KnownIn(file)'
    <3>1. KnownIn(WithoutClaim(p))
      BY WithoutClaimKnown DEF Known
    <3>2. CASE Commits(WithoutClaim(p))
      BY <1>2, <3>1, <3>2 DEF Known
    <3>3. CASE registry' = registry /\ file' = file
      BY <1>1, <3>3 DEF Known, KnownIn, Received
    <3> QED
      BY <2>3, <3>2, <3>3, CancelCommits
  <2>4. ASSUME NEW c \in Configs, Restart(c)
        PROVE  KnownIn(registry)' /\ KnownIn(file)'
    <3>1. KnownIn(Started(c)) /\ registry' = Started(c) /\ file' = Started(c)
      BY <2>4, StartedKnown DEF Known, Restart
    <3> QED
      BY <1>1, <3>1 DEF KnownIn, Received
  <2>5. CASE Quiet
    BY <1>1, <2>5 DEF Quiet, Known, KnownIn, Received
  <2> QED
    BY <2>1, <2>2, <2>3, <2>4, <2>5, KindOfStep
<1>4. ASSUME NEW p \in Pairings, LiveClaim(p) \/ Pending(p) \/ LapsePairing(p)
      PROVE  p \in created
  <2>1. Pending(p) \/ registry.claims[p] # NoClaim \/ file.claims[p] # NoClaim
    BY <1>4 DEF LiveClaim, LapsePairing
  <2> QED
    BY <2>1 DEF Known, KnownIn
<1>5. ASSUME NEW p \in Pairings, (Pending(p) \/ p \in lapsed \/ p \in cancelled
                                  \/ Approval(p) \in applied)'
      PROVE  p \in created'
  <2>1. CASE Pending(p)'
    <3>1. pairings'[p] # NoClaim
      BY <2>1 DEF Pending
    <3>2. CASE pairings'[p] = pairings[p]
      BY <1>1, <1>4, <3>1, <3>2 DEF Pending
    <3>3. CASE p \in created'
      BY <3>3
    <3> QED
      BY <3>1, <3>2, <3>3, PendingStep
  <2>2. CASE p \in lapsed'
    BY <1>1, <1>4, <2>2, HistoryStep DEF Known
  <2>3. CASE p \in cancelled'
    <3>1. Cancel(p) => LiveClaim(p) \/ Pending(p)
      BY DEF Cancel
    <3> QED
      BY <1>1, <1>4, <2>3, <3>1, HistoryStep DEF Known
  <2>4. CASE Approval(p)' \in applied'
    <3>1. Approval(p)' = Approval(p)
      BY DEF Approval
    <3>2. \/ Approval(p) \in applied
          \/ \E o \in Received(file) : file.operations[o].request = Approval(p)
      BY <2>4, <3>1, HistoryStep
    <3> QED
      BY <1>1, <3>2 DEF Known, KnownIn
  <2> QED
    BY <1>5, <2>1, <2>2, <2>3, <2>4
<1>6. ASSUME NEW f \in flights' PROVE f.pairing \in created'
  <2>1. CASE f \in flights
    BY <1>1, <2>1 DEF Known
  <2>2. CASE Begins(f)
    BY <1>1, <1>4, <2>2 DEF Begins
  <2> QED
    BY <2>1, <2>2, HistoryStep
<1>7. ASSUME NEW c \in delivered' PROVE c.pairing \in created'
  <2>1. CASE c \in delivered
    BY <1>1, <2>1 DEF Known
  <2>2. CASE Gives(c)
    BY <1>1, <2>2 DEF Gives, Known
  <2> QED
    BY <2>1, <2>2, HistoryStep
<1> QED
  BY <1>3, <1>5, <1>6, <1>7 DEF Known
\* A pairing that expired, was cancelled or was approved before a restart is not
\* pending, and no registry holds a claim of a cancelled one.
Ended ==
    /\ \A p \in Pairings : Pending(p) =>
         p \notin lapsed /\ p \notin cancelled /\ Approval(p) \notin applied
    /\ \A p \in cancelled : registry.claims[p] = NoClaim /\ file.claims[p] = NoClaim

LEMMA EndedStep ==
    ASSUME IInv, Known, Ended, [Next]_vars
    PROVE  Ended'
<1>1. ASSUME NEW p \in Pairings, Pending(p)'
      PROVE  p \notin lapsed' /\ p \notin cancelled' /\ Approval(p) \notin applied'
  <2>1. pairings'[p] # NoClaim
    BY <1>1 DEF Pending
  <2>2. CASE pairings'[p] = pairings[p]
    <3>1. p \notin lapsed /\ p \notin cancelled /\ Approval(p) \notin applied
      BY <2>1, <2>2 DEF Ended, Pending
    <3>2. p \notin lapsed'
      <4>1. LapsePairing(p) => pairings'[p] = NoClaim
        BY DEF LapsePairing, IInv, TypeOK
      <4> QED
        BY <2>1, <3>1, <4>1, HistoryStep
    <3>3. p \notin cancelled'
      <4>1. Cancel(p) => pairings'[p] = NoClaim \/ cancelled' = cancelled
        BY DEF Cancel, IInv, TypeOK
      <4> QED
        BY <2>1, <3>1, <4>1, HistoryStep
    <3>4. Approval(p) \notin applied'
      <4>1. \A c \in Configs : Restart(c) => pairings'[p] = NoClaim
        BY DEF Restart
      <4> QED
        BY <2>1, <3>1, <4>1, HistoryStep
    <3> QED
      BY <3>2, <3>3, <3>4
  <2>3. CASE p \notin created /\ lapsed' = lapsed /\ cancelled' = cancelled /\ Quiet
    BY <2>3 DEF Quiet, Known
  <2> QED
    BY <2>1, <2>2, <2>3, PendingStep
<1>2. ASSUME NEW p \in cancelled'
      PROVE  registry'.claims[p] = NoClaim /\ file'.claims[p] = NoClaim
  <2>1. CASE p \in cancelled
    <3>0. p \in Pairings /\ registry.claims[p] = NoClaim /\ file.claims[p] = NoClaim /\ ~Pending(p)
      BY <2>1 DEF Ended, IInv, TypeOK
    <3>1. ASSUME NEW next, Commits(next), next.claims[p] = NoClaim
          PROVE  registry'.claims[p] = NoClaim /\ file'.claims[p] = NoClaim
      BY <3>0, <3>1 DEF Commits
    <3>2. ASSUME NEW o \in Operations, NEW m \in Mutations, Mutate(o, m)
          PROVE  registry'.claims[p] = NoClaim /\ file'.claims[p] = NoClaim
      <4>1. Planned(o, m).claims[p] = NoClaim
        BY <3>0, PlannedClaims
      <4> QED
        BY <3>1, <3>2, <4>1, MutateCommits
    <3>3. ASSUME NEW f \in flights, FinishApproval(f)
          PROVE  registry'.claims[p] = NoClaim /\ file'.claims[p] = NoClaim
      <4>1. f \in Flights /\ p # f.pairing
        BY <3>0, <3>3, ApprovalCommits DEF FinishApproval, StillPending
      <4>2. PlannedApproval(f).claims[p] = NoClaim
        BY <3>0, <4>1, ApprovalClaims
      <4> QED
        BY <3>1, <3>3, <4>2, ApprovalCommits
    <3>4. ASSUME NEW q \in Pairings, Cancel(q)
          PROVE  registry'.claims[p] = NoClaim /\ file'.claims[p] = NoClaim
      <4>1. WithoutClaim(q).claims[p] = NoClaim
        BY <3>0, WithoutClaimClaims
      <4> QED
        BY <3>0, <3>1, <3>4, <4>1, CancelCommits
    <3>5. ASSUME NEW c \in Configs, Restart(c)
          PROVE  registry'.claims[p] = NoClaim /\ file'.claims[p] = NoClaim
      BY <3>0, <3>5, StartedClaims DEF Restart
    <3>6. CASE Quiet
      BY <3>0, <3>6 DEF Quiet
    <3> QED
      BY <3>2, <3>3, <3>4, <3>5, <3>6, KindOfStep
  <2>2. CASE p \notin cancelled /\ p \in Pairings /\ Cancel(p)
    <3>1. file = registry
      BY <2>2, CancelCommits
    <3>2. CASE registry' = WithoutClaim(p) /\ file' = WithoutClaim(p)
      BY <2>2, <3>2, WithoutClaimClaims
    <3>3. CASE ~LiveClaim(p) /\ registry' = registry /\ file' = file
      <4>1. Pending(p)
        BY <2>2, <3>3 DEF Cancel
      <4> QED
        BY <2>2, <3>1, <3>3, <4>1 DEF Ended, LiveClaim
    <3>4. CASE cancelled' = cancelled
      BY <2>2, <3>4
    <3> QED
      BY <2>2, <3>2, <3>3, <3>4 DEF Cancel
  <2> QED
    BY <2>1, <2>2, HistoryStep
<1>3. \A p \in Pairings : Approval(p)' = Approval(p)
  BY DEF Approval
<1> QED
  BY <1>1, <1>2, <1>3 DEF Ended

\* AppliedOnce, as the invariant has it step by step.
LEMMA AppliedOnceStep ==
    ASSUME IInv, Performed, Ended, [Next]_vars, ~failed,
           NEW a \in applied, NEW x \in Operations,
           registry'.operations[x] # registry.operations[x],
           registry'.operations[x] # NoReceipt,
           registry'.operations[x].request = a
    PROVE  a \in Mutations /\ a.kind = "revoke" /\ view[a.device].state = "revoked"
<1>1. file = registry
  BY DEF IInv, Serving
<1>2. ASSUME NEW next, Commits(next), next.operations[x] \in {registry.operations[x], NoReceipt}
      PROVE  FALSE
  BY <1>2 DEF Commits
<1>3. ASSUME NEW o \in Operations, NEW m \in Mutations, Mutate(o, m)
      PROVE  a \in Mutations /\ a.kind = "revoke" /\ view[a.device].state = "revoked"
  <2>1. Commits(Planned(o, m)) /\ Matches(m)
    BY <1>3, MutateCommits
  <2>2. x = o
    BY <1>2, <2>1, PlannedReceipts
  <2>3. registry' = Planned(o, m)
    BY <2>1 DEF Commits
  <2>4. a = m
    BY <2>2, <2>3, PlannedReceipts
  <2>5. Spent(registry, m, minted)
    BY <2>4 DEF Performed, PerformedBy
  <2>6. m.device \in Devices /\ registry.records[m.device] # NoRecord
    BY <2>5, MutationType DEF Spent
  <2>7. /\ view[m.device].generation = registry.records[m.device].generation
        /\ view[m.device].state \in {"conflict", registry.records[m.device].state}
        /\ view[m.device] # NoIdentity
    <3>1. /\ view[m.device] = Identity(config, registry, m.device)
          /\ registry.records[m.device] # NoRecord
          /\ config \in Configs /\ registry \in Registries
      BY <2>6, RecordedIdentity DEF IInv, TypeOK
    <3> QED
      BY <2>6, <3>1, RecordedIdentity, MergedType
  <2>8. m.kind # "add" /\ m.expected = registry.records[m.device].generation
    BY <2>1, <2>7 DEF Matches
  <2>9. m.kind = "revoke" /\ registry.records[m.device].state = "revoked"
    BY <2>5, <2>8 DEF Spent
  <2>10. view[m.device].state # "conflict"
    BY <2>1, <2>9 DEF Matches
  <2> QED
    BY <2>4, <2>7, <2>9, <2>10
<1>4. ASSUME NEW f \in flights, FinishApproval(f) PROVE FALSE
  <2>1. f \in Flights /\ f.kind = "approve" /\ Commits(PlannedApproval(f))
    BY <1>4, ApprovalCommits
  <2>2. x = f.operation
    BY <1>2, <2>1, ApprovalReceipts
  <2>3. registry' = PlannedApproval(f)
    BY <2>1 DEF Commits
  <2>4. a = Approval(f.pairing)
    BY <2>1, <2>2, <2>3, ApprovalReceipts
  <2>5. Pending(f.pairing) /\ f.pairing \in Pairings
    BY <1>4, <2>1 DEF FinishApproval, StillPending, Flights
  <2> QED
    BY <2>4, <2>5 DEF Ended
<1>5. ASSUME NEW p \in Pairings, Cancel(p) PROVE FALSE
  BY <1>2, <1>5, CancelCommits, WithoutClaimReceipts
<1>6. ASSUME NEW c \in Configs, Restart(c) PROVE FALSE
  BY <1>1, <1>6, StartedReceipts DEF Restart
<1>7. CASE Quiet
  BY <1>7 DEF Quiet
<1> QED
  BY <1>3, <1>4, <1>5, <1>6, <1>7, KindOfStep
-----------------------------------------------------------------------------
(* Receipts are kept, and revocation has room                              *)

\* A receipt that has not expired is in the file, even after a failed save.
FileKeeps == \A o \in Operations : Live(o) => file.operations[o] = registry.operations[o]

\* What is saved has every receipt that has not expired.
LEMMA SavedReceipts ==
    ASSUME IInv, [Next]_vars, NEW x \in Operations, Live(x)
    PROVE  \/ file' \in {registry, file} /\ (file' = file \/ file = registry)
           \/ file'.operations[x] = registry.operations[x] /\ file = registry
           \/ \E c \in Configs : Restart(c)
<1>1. x \notin lapsed /\ registry.operations[x] # NoReceipt
  BY DEF Live
<1>2. ASSUME NEW next, Commits(next), file = registry,
             next.operations[x] = registry.operations[x]
      PROVE  file'.operations[x] = registry.operations[x]
  BY <1>2 DEF Commits
<1>3. ASSUME NEW o \in Operations, NEW m \in Mutations, Mutate(o, m)
      PROVE  file'.operations[x] = registry.operations[x] /\ file = registry
  <2>1. x # o /\ Commits(Planned(o, m)) /\ file = registry
    BY <1>3, MutateCommits
  <2>2. Planned(o, m).operations[x] = registry.operations[x]
    BY <1>1, <2>1, PlannedReceipts
  <2> QED
    BY <1>2, <2>1, <2>2
<1>4. ASSUME NEW f \in flights, FinishApproval(f)
      PROVE  file'.operations[x] = registry.operations[x] /\ file = registry
  <2>1. f \in Flights /\ f.kind = "approve" /\ Commits(PlannedApproval(f)) /\ file = registry
        /\ AdmittedApproval(f)
    BY <1>4, ApprovalCommits
  <2>2. registry \in Registries
    BY DEF IInv, TypeOK
  <2>3. Pruned(registry).operations[f.operation] = NoReceipt
    BY <2>1 DEF AdmittedApproval
  <2>4. x # f.operation
    BY <1>1, <2>2, <2>3, PrunedReceipts
  <2>5. PlannedApproval(f).operations[x] = registry.operations[x]
    BY <1>1, <2>1, <2>4, ApprovalReceipts
  <2> QED
    BY <1>2, <2>1, <2>5
<1>5. ASSUME NEW p \in Pairings, Cancel(p)
      PROVE  \/ file' = file
             \/ file'.operations[x] = registry.operations[x] /\ file = registry
  <2>1. WithoutClaim(p).operations[x] = registry.operations[x]
    BY <1>1, WithoutClaimReceipts
  <2> QED
    BY <1>2, <1>5, <2>1, CancelCommits
<1>6. CASE Quiet
  BY <1>6 DEF Quiet
<1> QED
  BY <1>3, <1>4, <1>5, <1>6, KindOfStep

LEMMA FileKeepsStep ==
    ASSUME IInv, FileKeeps, [Next]_vars
    PROVE  FileKeeps'
<1>1. IInv'
  BY Inductive
<1>2. CASE ~failed'
  BY <1>1, <1>2 DEF IInv, Serving, FileKeeps
<1>3. CASE failed'
  <2>1. failed' # FALSE
    BY <1>3
  <2>2. registry' = registry /\ lapsed \subseteq lapsed'
    <3>1. ASSUME NEW o \in Operations, NEW m \in Mutations, Mutate(o, m)
          PROVE  registry' = registry /\ lapsed \subseteq lapsed'
      BY <2>1, <3>1, MutateCommits DEF Commits
    <3>2. ASSUME NEW f \in flights, FinishApproval(f)
          PROVE  registry' = registry /\ lapsed \subseteq lapsed'
      BY <2>1, <3>2, ApprovalCommits DEF Commits
    <3>3. ASSUME NEW p \in Pairings, Cancel(p)
          PROVE  registry' = registry /\ lapsed \subseteq lapsed'
      BY <2>1, <3>3, CancelCommits DEF Commits
    <3>4. ASSUME NEW c \in Configs, Restart(c) PROVE FALSE
      BY <2>1, <3>4 DEF Restart
    <3>5. CASE Quiet
      BY <3>5 DEF Quiet
    <3> QED
      BY <3>1, <3>2, <3>3, <3>4, <3>5, KindOfStep
  <2>3. ~ \E c \in Configs : Restart(c)
    BY <2>1 DEF Restart
  <2>4. ASSUME NEW x \in Operations, Live(x)'
        PROVE  file'.operations[x] = registry'.operations[x]
    <3>1. Live(x)
      BY <2>2, <2>4 DEF Live
    <3>2. file.operations[x] = registry.operations[x]
      BY <3>1 DEF FileKeeps
    <3> QED
      BY <2>2, <2>3, <3>1, <3>2, SavedReceipts
  <2> QED
    BY <2>4 DEF FileKeeps
<1> QED
  BY <1>2, <1>3

LEMMA ReceiptsKeptStep ==
    ASSUME IInv, FileKeeps, [Next]_vars, NEW x \in Operations, Live(x)
    PROVE  file'.operations[x] = registry.operations[x]
<1>1. file.operations[x] = registry.operations[x] /\ x \notin lapsed
  BY DEF FileKeeps, Live
<1>2. ASSUME NEW c \in Configs, Restart(c)
      PROVE  file'.operations[x] = registry.operations[x]
  BY <1>1, <1>2, StartedReceipts DEF Restart
<1> QED
  BY <1>1, <1>2, SavedReceipts

\* No registry holds more claims than it may.
ClaimsBounded ==
    /\ Cardinality(Claimed(registry)) <= MaxPairings
    /\ Cardinality(Claimed(file)) <= MaxPairings

LEMMA FewerClaims ==
    ASSUME NEW r, NEW q, \A p \in Pairings : q.claims[p] \in {r.claims[p], NoClaim},
           Cardinality(Claimed(r)) <= MaxPairings
    PROVE  Cardinality(Claimed(q)) <= MaxPairings
<1>1. Claimed(q) \subseteq Claimed(r) /\ IsFiniteSet(Claimed(r))
  BY ConstantsAssumption, FS_Subset DEF Claimed
<1>2. /\ Cardinality(Claimed(q)) \in Nat /\ Cardinality(Claimed(r)) \in Nat
      /\ Cardinality(Claimed(q)) <= Cardinality(Claimed(r))
  BY <1>1, FS_Subset, FS_CardinalityType
<1> QED
  BY <1>2, ConstantsAssumption

LEMMA ClaimsBoundedStep ==
    ASSUME IInv, ClaimsBounded, [Next]_vars
    PROVE  ClaimsBounded'
<1>1. ASSUME NEW next, Commits(next), Acceptable(next), file = registry
      PROVE  ClaimsBounded'
  BY <1>1 DEF Commits, Acceptable, ClaimsBounded, Claimed
<1>2. ASSUME NEW o \in Operations, NEW m \in Mutations, Mutate(o, m)
      PROVE  ClaimsBounded'
  BY <1>1, <1>2, MutateCommits DEF Admitted
<1>3. ASSUME NEW f \in flights, FinishApproval(f)
      PROVE  ClaimsBounded'
  BY <1>1, <1>3, ApprovalCommits DEF AdmittedApproval
<1>4. ASSUME NEW p \in Pairings, Cancel(p)
      PROVE  ClaimsBounded'
  <2>1. CASE registry' = registry /\ file' = file
    BY <2>1 DEF ClaimsBounded, Claimed
  <2> QED
    BY <1>1, <1>4, <2>1, CancelCommits
<1>5. ASSUME NEW c \in Configs, Restart(c) PROVE ClaimsBounded'
  <2>1. Cardinality(Claimed(Started(c))) <= MaxPairings
    BY StartedClaims, FewerClaims DEF ClaimsBounded
  <2> QED
    BY <1>5, <2>1 DEF Restart, ClaimsBounded, Claimed
<1>6. CASE Quiet
  BY <1>6 DEF Quiet, ClaimsBounded, Claimed
<1> QED
  BY <1>2, <1>3, <1>4, <1>5, <1>6, KindOfStep
\* An active identity has the token that is configured, or the record's.
LEMMA ActiveToken ==
    ASSUME IInv, ~failed, NEW e \in Active(view)
    PROVE  /\ e \in Devices /\ view[e] # NoIdentity
           /\ \/ /\ registry.records[e] = NoRecord
                 /\ view[e].token = config.static[e] /\ config.static[e] \in StaticTokens
                 /\ view[e].generation = <<e, view[e].token>>
              \/ /\ registry.records[e] # NoRecord /\ registry.records[e].state = "active"
                 /\ view[e].token = registry.records[e].token /\ view[e].token \in Fresh
                 /\ view[e].generation = registry.records[e].generation
<1>1. e \in Devices /\ view[e].state = "active" /\ view[e] # NoIdentity
  BY DEF Active, NoIdentity
<1>2. CASE registry.records[e] = NoRecord
  BY <1>1, <1>2, RecordedIdentity
<1>3. CASE registry.records[e] # NoRecord
  <2>1. view[e] = Identity(config, registry, e) /\ registry.records[e] \in Records
    BY <1>1, <1>3, RecordedIdentity
  <2>2. ~Conflicts(config, e, registry.records[e])
    BY <1>1, <1>3, <2>1 DEF Identity
  <2>3. /\ registry.records[e].state = "active"
        /\ view[e].token = registry.records[e].token
        /\ view[e].generation = registry.records[e].generation
    BY <1>1, <1>3, <2>1, <2>2 DEF Identity
  <2>4. registry.records[e].token \in Fresh
    BY <2>1, <2>3 DEF Records
  <2> QED
    BY <1>1, <1>3, <2>3, <2>4
<1> QED
  BY <1>1, <1>2, <1>3

\* No other active identity has a token that a mutation retires.
LEMMA OthersKeep ==
    ASSUME IInv, ~failed, NEW d \in Active(view), NEW e \in Active(view), d # e
    PROVE  view[e].token \notin Exposed(config, view, d)
<1>1. view = Merged(config, registry) /\ Consistent(config, registry) /\ config \in Configs
  BY DEF IInv, Serving, TypeOK
<1>2. view[e].token # view[d].token
  BY <1>1 DEF Consistent
<1>3. d \in Devices /\ e \in Devices
  BY DEF Active
<1>4. config.static[d] \in StaticTokens \cup {None}
  BY <1>1, <1>3, ConfigAssumption
<1>5. config.static[d] = None \/ view[e].token # config.static[d]
  BY <1>1, <1>3, <1>4, ActiveToken, Distinct, ConfigAssumption
<1> QED
  BY <1>2, <1>5 DEF Exposed

\* What revoking an active identity replaces was reserved for it.
LEMMA RevokeReplaces ==
    ASSUME IInv, ~failed, NEW m, m.device \in Active(view)
    PROVE  Replaced(m) = Exposed(config, view, m.device)
<1>1. CASE registry.records[m.device] = NoRecord
  BY <1>1 DEF Replaced
<1>2. CASE registry.records[m.device] # NoRecord
  <2>1. registry.records[m.device].token = view[m.device].token
    BY <1>2, ActiveToken
  <2> QED
    BY <1>2, <2>1 DEF Replaced, Exposed
<1> QED
  BY <1>1, <1>2

\* The registry that the revocation of an active identity plans serves the others
\* as before.
LEMMA RevokedView ==
    ASSUME IInv, ~failed, NEW o \in Operations, NEW m \in Mutations, Matches(m),
           m.kind = "revoke", m.device \in Active(view)
    PROVE  /\ Active(Merged(config, Planned(o, m))) = Active(view) \ {m.device}
           /\ \A e \in Active(view) \ {m.device} :
                /\ Merged(config, Planned(o, m))[e] = view[e]
                /\ History(Planned(o, m), e) = History(registry, e)
           /\ Revoked(Planned(o, m)) \subseteq Revoked(registry) \cup Exposed(config, view, m.device)
<1> DEFINE next == Planned(o, m)
           v == Merged(config, next)
           d == m.device
<1>1. /\ next.records[d] = NewRecord(m) /\ NewRecord(m) # NoRecord /\ d \in Devices
      /\ \A e \in Devices \ {d} : next.records[e] = registry.records[e]
      /\ Recorded(next) = Recorded(registry) \cup {d}
  BY PlannedRecord
<1>2. view = Merged(config, registry)
  BY DEF IInv, Serving
<1>3. NewRecord(m).state = "revoked"
      /\ NewRecord(m).revoked = History(registry, d) \cup Exposed(config, view, d)
  BY RevokeReplaces DEF NewRecord
<1> HIDE DEF next
<1>4. \A e \in Devices \ {d} : v[e] = view[e]
  BY <1>1, <1>2 DEF Merged, Identity
<1>5. v[d].state # "active"
  BY <1>1, <1>3 DEF Merged, Identity
<1>6. Active(v) = Active(view) \ {d}
  <2> HIDE DEF v
  <2> QED
    BY <1>4, <1>5 DEF Active
<1>7. \A e \in Active(view) \ {d} : History(next, e) = History(registry, e)
  BY <1>1 DEF Active, History
<1>8. Revoked(next) \subseteq Revoked(registry) \cup Exposed(config, view, d)
  <2>1. ASSUME NEW t \in Revoked(next)
        PROVE  t \in Revoked(registry) \cup Exposed(config, view, d)
    <3>1. PICK e \in Recorded(next) : t \in next.records[e].revoked
      BY <2>1 DEF Revoked
    <3>2. CASE e # d
      BY <1>1, <3>1, <3>2 DEF Revoked, Recorded
    <3>3. CASE e = d
      <4>1. t \in History(registry, d) \/ t \in Exposed(config, view, d)
        BY <1>1, <1>3, <3>1, <3>3
      <4>2. History(registry, d) \subseteq Revoked(registry)
        BY <1>1 DEF History, Revoked, Recorded
      <4> QED
        BY <4>1, <4>2
    <3> QED
      BY <3>2, <3>3
  <2> QED
    BY <2>1
<1> QED
  BY <1>4, <1>6, <1>7, <1>8 DEF next, Active
LEMMA ActiveFinite ==
    ASSUME NEW v
    PROVE  IsFiniteSet(Active(v)) /\ Cardinality(Active(v)) \in Nat
<1>1. Active(v) \subseteq Devices
  BY DEF Active
<1> QED
  BY <1>1, ConstantsAssumption, FS_Subset, FS_CardinalityType

\* Revocable, for one device and one free operation id.
LEMMA RevocableNow ==
    ASSUME IInv, ClaimsBounded, ~failed, NEW d \in Active(view), NEW o \in Operations, ~Live(o)
    PROVE  Admitted(o, [kind |-> "revoke", device |-> d, expected |-> view[d].generation,
                        fingerprint |-> None])
<1> DEFINE m == [kind |-> "revoke", device |-> d, expected |-> view[d].generation,
                 fingerprint |-> None]
           kept == Pruned(registry)
           next == Planned(o, m)
           left == Active(view) \ {d}
<1>1. /\ d \in Devices /\ view[d].state = "active" /\ view[d] # NoIdentity
      /\ view[d].generation \in Generations
  <2>1. d \in Devices /\ view[d].state = "active" /\ view[d] # NoIdentity
    BY ActiveToken DEF Active
  <2> QED
    BY <2>1 DEF IInv, TypeOK, Identities
<1>2. /\ m.kind = "revoke" /\ m.device = d /\ m.expected = view[d].generation /\ m \in Mutations
  BY <1>1 DEF Mutations
<1>3. /\ registry \in Registries /\ kept.records = registry.records
      /\ view = Merged(config, registry) /\ Consistent(config, registry)
      /\ Reserved(config, kept) /\ config \in Configs
  BY PrunedType DEF IInv, TypeOK, Serving
<1>4. Merged(config, kept) = view /\ Recorded(kept) = Recorded(registry)
      /\ \A e \in Devices : History(kept, e) = History(registry, e)
  BY <1>3 DEF Merged, Identity, Recorded, History
<1> HIDE DEF m, kept
<1>5. Matches(m)
  BY <1>1, <1>2 DEF Matches
<1>6. Replaced(m) = Exposed(config, view, d)
  BY <1>2, RevokeReplaces
<1>7. /\ Cardinality(Recorded(registry) \cup Active(view)) <= MaxRecords
      /\ Cardinality(Received(kept)) + Cardinality(Active(view)) <= MaxOperations
      /\ \A e \in Active(view) :
           Cardinality(History(registry, e) \cup Exposed(config, view, e)) <= MaxHashes
  BY <1>3, <1>4 DEF Reserved, Active
<1>8. /\ IsFiniteSet(Active(view)) /\ Cardinality(Active(view)) \in Nat
      /\ IsFiniteSet(Received(kept)) /\ Cardinality(Received(kept)) \in Nat
      /\ MaxOperations \in Nat /\ MaxRecords \in Nat
  BY ActiveFinite, ReceivedFinite, ConstantsAssumption DEF MaxOperations
<1>9. Cardinality(left) = Cardinality(Active(view)) - 1 /\ left \subseteq Active(view)
  BY <1>8, FS_RemoveElement
<1>10. HasSlot(kept, m.kind)
  <2>1. Cardinality(left) \in Nat
    BY <1>8, <1>9, FS_Subset, FS_CardinalityType
  <2> QED
    BY <1>2, <1>7, <1>8, <1>9, <2>1 DEF HasSlot
<1>11. HasRoom(kept, m)
  <2>1. ASSUME kept.records[d] = NoRecord PROVE Cardinality(Recorded(kept)) < MaxRecords
    <3>1. /\ Recorded(registry) \subseteq Devices /\ Active(view) \subseteq Devices
          /\ d \notin Recorded(registry)
      BY <1>3, <2>1 DEF Recorded, Active
    <3>2. IsFiniteSet(Recorded(registry) \cup Active(view)) /\ IsFiniteSet(Recorded(registry))
      BY <3>1, ConstantsAssumption, FS_Subset
    <3>3. Cardinality(Recorded(registry) \cup {d}) = Cardinality(Recorded(registry)) + 1
      BY <3>1, <3>2, FS_AddElement
    <3>4. Cardinality(Recorded(registry) \cup {d})
            <= Cardinality(Recorded(registry) \cup Active(view))
      BY <3>2, FS_Subset
    <3>5. /\ Cardinality(Recorded(registry)) \in Nat
          /\ Cardinality(Recorded(registry) \cup Active(view)) \in Nat
      BY <3>2, FS_CardinalityType
    <3> QED
      BY <1>4, <1>7, <1>8, <3>3, <3>4, <3>5
  <2> QED
    BY <1>1, <1>2, <1>4, <1>6, <1>7, <2>1 DEF HasRoom
<1>12. /\ Active(Merged(config, next)) = left
       /\ \A e \in left : /\ Merged(config, next)[e] = view[e]
                          /\ History(next, e) = History(registry, e)
       /\ Revoked(next) \subseteq Revoked(registry) \cup Exposed(config, view, d)
       /\ Recorded(next) = Recorded(registry) \cup {d}
  BY <1>2, <1>5, RevokedView, PlannedRecord
<1>13. Cardinality(Claimed(next)) <= MaxPairings
  <2>1. \A p \in Pairings : next.claims[p] \in {registry.claims[p], NoClaim}
    BY <1>2, PlannedClaims
  <2> QED
    BY <2>1, FewerClaims DEF ClaimsBounded
<1>14. Cardinality(Received(next)) <= Cardinality(Received(kept)) + 1
       /\ Cardinality(Received(next)) \in Nat
  <2>1. Received(next) \subseteq Received(kept) \cup {o}
    BY <1>2, <1>3, PlannedReceipts, PrunedReceipts DEF Received, kept
  <2>2. IsFiniteSet(Received(kept) \cup {o})
        /\ Cardinality(Received(kept) \cup {o}) <= Cardinality(Received(kept)) + 1
        /\ Cardinality(Received(kept) \cup {o}) \in Nat
    <3>1. /\ IsFiniteSet(Received(kept) \cup {o})
          /\ Cardinality(Received(kept) \cup {o}) \in
               {Cardinality(Received(kept)), Cardinality(Received(kept)) + 1}
      BY <1>8, FS_AddElement
    <3> QED
      BY <1>8, <3>1
  <2>3. Cardinality(Received(next)) <= Cardinality(Received(kept) \cup {o})
    BY <2>1, <2>2, FS_Subset
  <2> QED
    BY <1>8, <2>2, <2>3, ReceivedFinite
<1> HIDE DEF next
<1>15. Cardinality(left) \in Nat
  BY <1>8, <1>9, FS_Subset, FS_CardinalityType
<1>16. Consistent(config, next)
  <2>1. ASSUME NEW e \in left PROVE view[e].token \notin Revoked(next)
    <3>1. view[e].token \notin Revoked(registry)
      BY <1>3, <1>9 DEF Consistent
    <3>2. view[e].token \notin Exposed(config, view, d)
      BY <1>9, OthersKeep
    <3> QED
      BY <1>12, <3>1, <3>2
  <2>2. \A e, x \in left : view[e].token = view[x].token => e = x
    BY <1>3, <1>9 DEF Consistent
  <2>3. Cardinality(left) <= MaxDevices
    <3>1. Cardinality(Active(view)) <= MaxDevices
      BY <1>3 DEF Consistent
    <3> QED
      BY <1>8, <1>9, <1>15, <3>1, ConstantsAssumption
  <2> HIDE DEF left
  <2> QED
    BY <1>12, <2>1, <2>2, <2>3 DEF Consistent
<1>17. Reserved(config, next)
  <2>1. Recorded(next) \cup left = Recorded(registry) \cup Active(view)
    BY <1>12
  <2>2. Cardinality(Received(next)) + Cardinality(left) <= MaxOperations
    BY <1>7, <1>8, <1>9, <1>14, <1>15
  <2>3. \A e \in left :
          Cardinality(History(next, e) \cup Exposed(config, Merged(config, next), e)) <= MaxHashes
    BY <1>7, <1>9, <1>12 DEF Exposed
  <2> HIDE DEF left
  <2> QED
    BY <1>7, <1>12, <2>1, <2>2, <2>3 DEF Reserved
<1>18. Cardinality(Received(next)) <= MaxOperations
  BY <1>7, <1>8, <1>9, <1>14, <1>15
<1>19. Acceptable(next)
  BY <1>13, <1>16, <1>17, <1>18 DEF Acceptable
<1> QED
  BY <1>5, <1>10, <1>11, <1>19 DEF Admitted, next, kept, m
-----------------------------------------------------------------------------
\* What mutations and pairings rest on, beside IInv.
MInv == Issued /\ Performed /\ Known /\ Ended /\ FileKeeps /\ ClaimsBounded

LEMMA HistoryInitially == Init => MInv
<1> SUFFICES ASSUME Init PROVE MInv
  OBVIOUS
<1>1. /\ registry = EmptyRegistry /\ file = EmptyRegistry /\ lapsed = {} /\ minted = 0
      /\ pairings = [p \in Pairings |-> NoClaim] /\ flights = {} /\ created = {}
      /\ retired = {} /\ applied = {} /\ cancelled = {} /\ delivered = {}
  BY DEF Init
<1>2. /\ Recorded(EmptyRegistry) = {} /\ Received(EmptyRegistry) = {}
      /\ Claimed(EmptyRegistry) = {} /\ \A p \in Pairings : EmptyRegistry.claims[p] = NoClaim
  BY DEF EmptyRegistry, Recorded, Received, Claimed
<1>3. Cardinality(Claimed(EmptyRegistry)) <= MaxPairings
  BY <1>2, FS_EmptySet, ConstantsAssumption
<1> HIDE DEF EmptyRegistry
<1>4. Issued /\ Performed
  BY <1>1, <1>2 DEF Issued, IssuedBy, Performed, PerformedBy
<1>5. Known /\ Ended
  BY <1>1, <1>2 DEF Known, KnownIn, Ended, Pending
<1>6. FileKeeps /\ ClaimsBounded
  BY <1>1, <1>3 DEF FileKeeps, ClaimsBounded
<1> QED
  BY <1>4, <1>5, <1>6 DEF MInv

LEMMA HistoryInductive == IInv /\ MInv /\ [Next]_vars => MInv'
<1> SUFFICES ASSUME IInv, Issued, Performed, Known, Ended, FileKeeps, ClaimsBounded,
                    [Next]_vars
             PROVE  MInv'
  BY DEF MInv
<1>1. Issued' /\ Performed'
  BY IssuedStep, PerformedStep
<1>2. Known' /\ Ended'
  BY KnownStep, EndedStep
<1>3. FileKeeps' /\ ClaimsBounded'
  BY FileKeepsStep, ClaimsBoundedStep
<1> QED
  BY <1>1, <1>2, <1>3 DEF MInv

LEMMA HistoryInvariant == Spec => []MInv
  BY HistoryInitially, HistoryInductive, Invariant, PTL DEF Spec

\* registryRevocationReserve, mutateRegistry and replayRegistryMutation: an
\* administrator's mutation takes effect once, whenever and under whatever id it is
\* repeated; its receipt stays in the file until it expires; and every device that
\* is served can be revoked, whatever else has used up room.
THEOREM MutationsSoundCorrect == Spec => MutationsSound
<1>1. IInv /\ MInv => Revocable
  <2> SUFFICES ASSUME IInv, MInv, ~failed, NEW d \in Active(view), NEW o \in Operations,
                      ~Live(o)
               PROVE  Admitted(o, [kind |-> "revoke", device |-> d,
                                   expected |-> view[d].generation, fingerprint |-> None])
    BY DEF Revocable
  <2>1. ClaimsBounded
    BY DEF MInv
  <2> QED
    BY <2>1, RevocableNow
<1>2. IInv /\ MInv /\ [Next]_vars =>
        [\A m \in applied, o \in Operations :
           /\ ~failed
           /\ registry'.operations[o] # registry.operations[o]
           /\ registry'.operations[o] # NoReceipt
           /\ registry'.operations[o].request = m
           => m \in Mutations /\ m.kind = "revoke" /\ view[m.device].state = "revoked"]_vars
  BY AppliedOnceStep DEF MInv
<1>3. IInv /\ MInv /\ [Next]_vars =>
        [\A o \in Operations :
           Live(o) /\ o \notin lapsed' =>
             file'.operations[o] = registry.operations[o]]_vars
  BY ReceiptsKeptStep DEF MInv
<1> QED
  BY <1>1, <1>2, <1>3, Invariant, HistoryInvariant, PTL
     DEF Spec, MutationsSound, AppliedOnce, ReceiptsKept
-----------------------------------------------------------------------------
(* A pairing gives out one credential                                      *)

\* A lookup for an approval, and a claim, are for the device of the pairing; a
\* claimed device is active.
Agreed ==
    /\ \A f \in flights : f.kind = "approve" /\ Pending(f.pairing) =>
         f.device = pairings[f.pairing].device
    /\ ~failed => \A p \in Pairings : Pending(p) /\ registry.claims[p] # NoClaim =>
         /\ registry.claims[p].device = pairings[p].device
         /\ pairings[p].device \in Active(view)

\* A claim that was answered names the credential it was answered with, and when
\* it is gone so is the pairing.
GivenIn(r) ==
    \A c \in delivered : r.claims[c.pairing] # NoClaim =>
        r.claims[c.pairing].generation = <<c.device, c.token>>

Given ==
    /\ delivered \subseteq [pairing : Pairings, device : Devices, token : Tokens]
    /\ GivenIn(registry) /\ GivenIn(file)
    /\ ~failed => \A c \in delivered :
         registry.claims[c.pairing] = NoClaim => ~Pending(c.pairing)

\* What a step publishes.
LEMMA ViewAfter ==
    ASSUME IInv, [Next]_vars, config' = config, ~failed'
    PROVE  \A d \in Devices : view'[d] = Identity(config, registry', d)
<1>1. IInv'
  BY Inductive
<1>2. view' = Merged(config', registry')
  BY <1>1 DEF IInv, Serving, Merged, Identity
<1> QED
  BY <1>2 DEF Merged

LEMMA ViewSame ==
    ASSUME IInv, [Next]_vars, config' = config, ~failed, ~failed'
    PROVE  \A d \in Devices : registry'.records[d] = registry.records[d] => view'[d] = view[d]
BY ViewAfter, RecordedIdentity DEF Identity

\* An approval leaves active devices as they are, and its device is one.
LEMMA ApprovalView ==
    ASSUME IInv, ~failed, NEW f \in Flights, AdmittedApproval(f)
    PROVE  /\ \A e \in Active(view) : Identity(config, PlannedApproval(f), e) = view[e]
           /\ f.device \in Devices
           /\ Identity(config, PlannedApproval(f), f.device).state = "active"
<1> DEFINE next == PlannedApproval(f)
           d == f.device
<1>1. /\ d \in Devices
      /\ view[d] # NoIdentity => next.records = registry.records
      /\ view[d] = NoIdentity =>
           /\ registry.records[d] = NoRecord /\ config.static[d] = None
           /\ next.records[d] =
                [generation |-> <<d, minted + 1>>, state |-> "active",
                 token |-> minted + 1, origin |-> "dynamic", fingerprint |-> None,
                 revoked |-> {}]
           /\ \A e \in Devices \ {d} : next.records[e] = registry.records[e]
           /\ Recorded(next) = Recorded(registry) \cup {d}
  BY ApprovalRecord
<1>2. \A e \in Devices : view[e] = Identity(config, registry, e)
  BY RecordedIdentity
<1>3. view[d].state \in {"active", "unknown"}
  BY DEF AdmittedApproval
<1> HIDE DEF next
<1>4. CASE view[d] # NoIdentity
  <2>1. \A e \in Devices : Identity(config, next, e) = view[e]
    BY <1>1, <1>2, <1>4 DEF Identity
  <2>2. view[d].state = "active"
    BY <1>1, <1>3, <1>4 DEF IInv, TypeOK, Identities, States
  <2> QED
    BY <1>1, <2>1, <2>2 DEF Active, next
<1>5. CASE view[d] = NoIdentity
  <2>1. \A e \in Devices \ {d} : Identity(config, next, e) = view[e]
    BY <1>1, <1>2, <1>5 DEF Identity
  <2>2. d \notin Active(view)
    BY <1>5 DEF Active, NoIdentity
  <2>3. /\ next.records[d].state = "active" /\ next.records[d].origin = "dynamic"
        /\ next.records[d] # NoRecord /\ config.static[d] = None
    <3>1. next.records[d].state = "active" /\ next.records[d].origin = "dynamic"
      BY <1>1, <1>5
    <3>2. d \in Recorded(next)
      BY <1>1, <1>5
    <3> QED
      BY <1>1, <1>5, <3>1, <3>2 DEF Recorded
  <2>4. ~Conflicts(config, d, next.records[d])
    BY <2>3 DEF Conflicts
  <2>5. Identity(config, next, d).state = "active"
    BY <2>3, <2>4 DEF Identity
  <2> QED
    BY <1>1, <2>1, <2>2, <2>5 DEF Active, next
<1> QED
  BY <1>4, <1>5

LEMMA AgreedStep ==
    ASSUME IInv, Known, Agreed, [Next]_vars
    PROVE  Agreed'
<1>1. IInv'
  BY Inductive
<1>2. ASSUME NEW f \in flights', f.kind = "approve", pairings'[f.pairing] # NoClaim
      PROVE  f.device = pairings'[f.pairing].device
  <2>1. f.pairing \in Pairings
    BY <1>1 DEF IInv, TypeOK, Flights
  <2>2. pairings'[f.pairing] = pairings[f.pairing]
    <3>1. ASSUME f.pairing \notin created, f.pairing \in created' PROVE FALSE
      BY <3>1, HistoryStep DEF Known, Begins
    <3> QED
      BY <1>2, <2>1, <3>1, PendingStep
  <2>3. Pending(f.pairing)
    BY <1>2, <2>2 DEF Pending
  <2>4. CASE f \in flights
    BY <1>2, <2>2, <2>3, <2>4 DEF Agreed
  <2>5. CASE Begins(f)
    <3>1. CASE LiveClaim(f.pairing) /\ f.device = registry.claims[f.pairing].device
      BY <2>1, <2>2, <2>3, <2>5, <3>1 DEF Agreed, LiveClaim, Begins
    <3>2. CASE f.device = pairings[f.pairing].device
      BY <2>2, <3>2
    <3> QED
      BY <2>5, <3>1, <3>2 DEF Begins
  <2> QED
    BY <2>4, <2>5, HistoryStep
<1>3. ASSUME ~failed', NEW p \in Pairings, pairings'[p] # NoClaim, registry'.claims[p] # NoClaim
      PROVE  /\ registry'.claims[p].device = pairings'[p].device
             /\ pairings'[p].device \in Active(view)'
  <2> DEFINE d == pairings[p].device
  <2>1. CASE p \notin created /\ Quiet
    BY <1>3, <2>1 DEF Quiet, Known, KnownIn
  <2>2. CASE pairings'[p] = pairings[p]
    <3>1. Pending(p)
      BY <1>3, <2>2 DEF Pending
    <3>2. ~failed /\ registry.claims[p] # NoClaim =>
            registry.claims[p].device = d /\ d \in Active(view)
      BY <3>1 DEF Agreed
    <3>3. ASSUME ~failed, registry.claims[p] # NoClaim, registry'.claims[p] = registry.claims[p],
                 view'[d] = view[d]
          PROVE  registry'.claims[p].device = d /\ d \in Active(view)'
      BY <3>2, <3>3 DEF Active
    <3>4. ASSUME NEW o \in Operations, NEW m \in Mutations, Mutate(o, m)
          PROVE  registry'.claims[p].device = d /\ d \in Active(view)'
      <4>1. ~failed /\ registry' = Planned(o, m) /\ config' = config /\ Matches(m)
        BY <1>3, <3>4, MutateCommits DEF Commits, Mutate
      <4>2. /\ registry'.claims[p] = registry.claims[p]
            /\ registry.claims[p].device # m.device
        BY <1>3, <4>1, PlannedClaims
      <4>3. registry.claims[p] # NoClaim /\ d # m.device /\ d \in Devices
        BY <1>3, <3>2, <4>1, <4>2 DEF Active
      <4>4. registry'.records[d] = registry.records[d]
        BY <4>1, <4>3, PlannedRecord
      <4>5. view'[d] = view[d]
        BY <1>3, <4>1, <4>3, <4>4, ViewSame
      <4> QED
        BY <3>3, <4>1, <4>2, <4>3, <4>5
    <3>5. ASSUME NEW f \in flights, FinishApproval(f)
          PROVE  registry'.claims[p].device = d /\ d \in Active(view)'
      <4>1. /\ ~failed /\ registry' = PlannedApproval(f) /\ config' = config /\ f \in Flights
            /\ AdmittedApproval(f) /\ f.kind = "approve"
        BY <1>3, <3>5, ApprovalCommits DEF Commits, FinishApproval
      <4>2. \A e \in Devices : view'[e] = Identity(config, PlannedApproval(f), e)
        BY <1>3, <4>1, ViewAfter
      <4>3. CASE p = f.pairing
        <5>1. f.device = d
          BY <3>1, <4>1, <4>3 DEF Agreed
        <5>2. registry'.claims[p].device = f.device
          BY <4>1, <4>3, ApprovalClaims
        <5>3. f.device \in Devices /\ view'[f.device].state = "active"
          BY <4>1, <4>2, ApprovalView
        <5> QED
          BY <5>1, <5>2, <5>3 DEF Active
      <4>4. CASE p # f.pairing
        <5>1. registry'.claims[p] = registry.claims[p]
          BY <1>3, <4>1, <4>4, ApprovalClaims
        <5>2. d \in Active(view) /\ d \in Devices
          BY <1>3, <3>2, <4>1, <5>1 DEF Active
        <5>3. view'[d] = view[d]
          BY <4>1, <4>2, <5>2, ApprovalView
        <5> QED
          BY <1>3, <3>3, <4>1, <5>1, <5>3
      <4> QED
        BY <4>3, <4>4
    <3>6. ASSUME NEW q \in Pairings, Cancel(q)
          PROVE  registry'.claims[p].device = d /\ d \in Active(view)'
      <4>1. ~failed /\ config' = config
        BY <3>6, CancelCommits
      <4>2. registry' = registry \/ registry' = WithoutClaim(q)
        BY <3>6, CancelCommits DEF Commits
      <4>3. registry'.claims[p] = registry.claims[p] /\ registry'.records = registry.records
        BY <1>3, <4>2, WithoutClaimClaims, WithoutClaimType DEF IInv
      <4>4. d \in Devices
        BY <1>3, <3>2, <4>1, <4>3 DEF Active
      <4>5. view'[d] = view[d]
        BY <1>3, <4>1, <4>3, <4>4, ViewSame
      <4> QED
        BY <1>3, <3>3, <4>1, <4>3, <4>5
    <3>7. ASSUME NEW c \in Configs, Restart(c) PROVE FALSE
      BY <1>3, <3>7 DEF Restart
    <3>8. CASE Quiet
      <4>1. ~failed /\ registry'.claims[p] = registry.claims[p] /\ view'[d] = view[d]
        BY <1>3, <3>8 DEF Quiet
      <4> QED
        BY <1>3, <2>2, <3>3, <4>1
    <3> QED
      BY <2>2, <3>4, <3>5, <3>6, <3>7, <3>8, KindOfStep
  <2> QED
    BY <1>3, <2>1, <2>2, PendingStep
<1> QED
  BY <1>2, <1>3 DEF Agreed, Pending
\* A mutation of an active device changes its identity.
LEMMA MutationChanges ==
    ASSUME IInv, Issued, ~failed, NEW o \in Operations, NEW m \in Mutations, Matches(m),
           m.device \in Active(view)
    PROVE  LET v == Merged(config, Planned(o, m))
           IN  \/ v[m.device].state # "active"
               \/ v[m.device].generation # view[m.device].generation
<1> DEFINE d == m.device
           v == Merged(config, Planned(o, m))
           new == NewRecord(m)
<1>1. d \in Devices /\ Planned(o, m).records[d] = new /\ new # NoRecord /\ minted \in Nat
  BY PlannedRecord DEF IInv, TypeOK
<1>2. /\ new.state = IF m.kind = "revoke" THEN "revoked" ELSE "active"
      /\ m.kind # "revoke" => new.generation = <<d, minted + 1>>
  BY DEF NewRecord, NewGeneration
<1> HIDE DEF new
<1>3. v[d].generation = new.generation /\ v[d].state \in {"conflict", new.state}
  BY <1>1 DEF Identity, Merged
<1>4. CASE m.kind = "revoke"
  BY <1>2, <1>3, <1>4
<1>5. CASE m.kind # "revoke"
  <2>1. view[d].generation # <<d, minted + 1>>
    <3>1. CASE registry.records[d] = NoRecord
      <4>1. view[d].generation = <<d, view[d].token>> /\ view[d].token \in StaticTokens
        BY <3>1, ActiveToken
      <4> QED
        BY <1>1, <4>1, ConstantsAssumption
    <3>2. CASE registry.records[d] # NoRecord
      <4>1. view[d].generation \in {d} \X (1..minted)
        BY <1>1, <3>2, RecordedIdentity DEF Issued, IssuedBy, Recorded
      <4> QED
        BY <1>1, <4>1
    <3> QED
      BY <3>1, <3>2
  <2> QED
    BY <1>2, <1>3, <1>5, <2>1
<1> QED
  BY <1>4, <1>5

\* An active identity's generation was minted with its token.
LEMMA ActiveGeneration ==
    ASSUME IInv, Issued, ~failed, NEW d \in Active(view)
    PROVE  view[d].generation = <<d, view[d].token>> /\ view[d].token \in Tokens
<1>1. CASE registry.records[d] = NoRecord
  BY <1>1, ActiveToken DEF Tokens
<1>2. CASE registry.records[d] # NoRecord
  <2>1. registry.records[d].generation = <<d, registry.records[d].token>>
    BY <1>2, ActiveToken DEF Issued, IssuedBy, Recorded
  <2> QED
    BY <1>2, <2>1, ActiveToken DEF Tokens
<1> QED
  BY <1>1, <1>2

\* What a claim is answered with, by the registry and the identities in force.
LEMMA GivenNow ==
    ASSUME IInv, Issued, NEW c, Gives(c)
    PROVE  /\ c \in [pairing : Pairings, device : Devices, token : Tokens]
           /\ registry.claims[c.pairing] # NoClaim
           /\ registry.claims[c.pairing].generation = <<c.device, c.token>>
           /\ c.device \in Active(view) /\ c.token = view[c.device].token
           /\ ~failed /\ registry' = registry /\ file' = file /\ file = registry
<1>1. PICK f \in flights :
        /\ FinishClaim(f)
        /\ c = [pairing |-> f.pairing, device |-> f.device, token |-> view[f.device].token]
  BY DEF Gives
<1>2. /\ ~failed /\ registry' = registry /\ file' = file
      /\ StillClaimed(f) /\ StillActive(f) /\ f.kind = "claim"
  BY <1>1 DEF FinishClaim
<1>3. f.pairing \in Pairings /\ f.device \in Devices
  BY <1>2 DEF IInv, TypeOK, Flights
<1>4. f.device \in Active(view) /\ view[f.device].generation = f.generation
  BY <1>2, <1>3 DEF StillActive, Active
<1>5. /\ view[f.device].generation = <<f.device, view[f.device].token>>
      /\ view[f.device].token \in Tokens
  BY <1>2, <1>4, ActiveGeneration
<1>6. /\ registry.claims[f.pairing] # NoClaim
      /\ registry.claims[f.pairing].generation = f.generation
  BY <1>2 DEF StillClaimed, LiveClaim
<1>7. c.pairing = f.pairing /\ c.device = f.device /\ c.token = view[f.device].token
  BY <1>1
<1>8. c \in [pairing : Pairings, device : Devices, token : Tokens]
  BY <1>1, <1>3, <1>5
<1>9. file = registry
  BY <1>2 DEF IInv, Serving
<1> QED
  BY <1>2, <1>4, <1>5, <1>6, <1>7, <1>8, <1>9
\* A claim that is dropped while its pairing is pending takes the pairing along.
LEMMA GoneTogether ==
    ASSUME IInv, Issued, Known, Ended, Agreed, Given, [Next]_vars, ~failed',
           NEW c \in delivered, registry'.claims[c.pairing] = NoClaim,
           pairings'[c.pairing] # NoClaim
    PROVE  FALSE
<1> DEFINE p == c.pairing
<1>1. p \in Pairings /\ p \in created
  BY DEF Given, Known
<1>2. pairings'[p] = pairings[p] /\ Pending(p)
  BY <1>1, PendingStep DEF Pending
<1>3. p \notin lapsed
  BY <1>1, <1>2 DEF Ended
<1>4. ~failed => registry.claims[p] # NoClaim
  BY <1>2 DEF Given
<1> HIDE DEF p
<1>5. ASSUME NEW o \in Operations, NEW m \in Mutations, Mutate(o, m) PROVE FALSE
  <2>1. ~failed /\ registry' = Planned(o, m) /\ Matches(m)
    BY <1>5, MutateCommits DEF Commits
  <2>2. registry.claims[p].device = m.device
    BY <1>1, <1>3, <1>4, <2>1, PlannedClaims DEF p
  <2>3. pairings[p].device = m.device /\ m.device \in Active(view)
    BY <1>1, <1>2, <1>4, <2>1, <2>2 DEF Agreed
  <2>4. Publish(Merged(config, Planned(o, m)))
    <3>1. CASE CommitSucceeds(Planned(o, m))
      BY <3>1 DEF CommitSucceeds
    <3>2. CASE CommitFails(Planned(o, m))
      BY <3>2 DEF CommitFails
    <3> QED
      BY <1>5, <3>1, <3>2 DEF Mutate
  <2>5. \/ Merged(config, Planned(o, m))[m.device].state # "active"
        \/ Merged(config, Planned(o, m))[m.device].generation # view[m.device].generation
    BY <2>1, <2>3, MutationChanges
  <2>6. pairings'[p] = NoClaim
    BY <1>1, <2>3, <2>4, <2>5 DEF Publish
  <2> QED
    BY <2>6 DEF p
<1>6. ASSUME NEW f \in flights, FinishApproval(f) PROVE FALSE
  <2>1. ~failed /\ registry' = PlannedApproval(f) /\ f \in Flights
    BY <1>6, ApprovalCommits DEF Commits
  <2>2. registry.claims[f.pairing] = NoClaim
    BY <1>6 DEF FinishApproval
  <2>3. registry'.claims[p] = registry.claims[p]
    BY <1>1, <1>3, <1>4, <2>1, <2>2, ApprovalClaims
  <2> QED
    BY <1>4, <2>1, <2>3 DEF p
<1>7. ASSUME NEW q \in Pairings, Cancel(q) PROVE FALSE
  <2>1. ~failed
    BY <1>7, CancelCommits
  <2>2. CASE registry' = registry
    BY <1>4, <2>1, <2>2 DEF p
  <2>3. CASE registry' = WithoutClaim(q) /\ pairings' = [pairings EXCEPT ![q] = NoClaim]
    <3>1. p # q
      BY <2>3 DEF IInv, TypeOK, p
    <3>2. registry'.claims[p] = registry.claims[p]
      BY <1>1, <1>3, <2>3, <3>1, WithoutClaimClaims
    <3> QED
      BY <1>4, <2>1, <3>2 DEF p
  <2> QED
    BY <1>7, <2>2, <2>3 DEF Cancel, CommitFails
<1>8. ASSUME NEW e \in Configs, Restart(e) PROVE FALSE
  BY <1>1, <1>8 DEF Restart, p
<1>9. CASE Quiet
  BY <1>4, <1>9 DEF Quiet, p
<1> QED
  BY <1>5, <1>6, <1>7, <1>8, <1>9, KindOfStep

LEMMA GivenStep ==
    ASSUME IInv, Issued, Known, Ended, Agreed, Given, [Next]_vars
    PROVE  Given'
<1>1. ASSUME NEW c \in delivered
      PROVE  /\ registry'.claims[c.pairing] # NoClaim =>
                  registry'.claims[c.pairing].generation = <<c.device, c.token>>
             /\ file'.claims[c.pairing] # NoClaim =>
                  file'.claims[c.pairing].generation = <<c.device, c.token>>
  <2> DEFINE p == c.pairing
             Right(r) == r.claims[p] # NoClaim => r.claims[p].generation = <<c.device, c.token>>
  <2>1. p \in Pairings /\ Right(registry) /\ Right(file)
    BY DEF Given, GivenIn
  <2>2. ~failed /\ registry.claims[p] = NoClaim => ~Pending(p)
    BY DEF Given
  <2>3. ASSUME NEW next, Commits(next), next.claims[p] \in {registry.claims[p], NoClaim}
        PROVE  Right(registry') /\ Right(file')
    BY <2>1, <2>3 DEF Commits
  <2> HIDE DEF Right, p
  <2>4. ASSUME NEW o \in Operations, NEW m \in Mutations, Mutate(o, m)
        PROVE  Right(registry') /\ Right(file')
    BY <2>1, <2>3, <2>4, MutateCommits, PlannedClaims
  <2>5. ASSUME NEW f \in flights, FinishApproval(f)
        PROVE  Right(registry') /\ Right(file')
    <3>1. p # f.pairing
      BY <2>2, <2>5 DEF FinishApproval, StillPending
    <3>2. f \in Flights /\ Commits(PlannedApproval(f))
      BY <2>5, ApprovalCommits
    <3> QED
      BY <2>1, <2>3, <3>1, <3>2, ApprovalClaims
  <2>6. ASSUME NEW q \in Pairings, Cancel(q)
        PROVE  Right(registry') /\ Right(file')
    <3>1. CASE registry' = registry /\ file' = file
      BY <2>1, <3>1
    <3>2. CASE Commits(WithoutClaim(q))
      BY <2>1, <2>3, <3>2, WithoutClaimClaims
    <3> QED
      BY <2>6, <3>1, <3>2, CancelCommits
  <2>7. ASSUME NEW e \in Configs, Restart(e)
        PROVE  Right(registry') /\ Right(file')
    <3>1. registry' = Started(e) /\ file' = Started(e)
      BY <2>7 DEF Restart
    <3>2. Started(e).claims[p] \in {file.claims[p], NoClaim}
      BY <2>1, StartedClaims
    <3> QED
      BY <2>1, <3>1, <3>2 DEF Right
  <2>8. ASSUME Quiet PROVE Right(registry') /\ Right(file')
    <3>1. registry' = registry /\ file' = file
      BY <2>8 DEF Quiet
    <3> QED
      BY <2>1, <3>1
  <2>9. Right(registry') /\ Right(file')
    BY <2>4, <2>5, <2>6, <2>7, <2>8, KindOfStep
  <2> QED
    BY <2>9 DEF Right, p
<1>2. ASSUME NEW c \in delivered'
      PROVE  /\ c \in [pairing : Pairings, device : Devices, token : Tokens]
             /\ registry'.claims[c.pairing] # NoClaim =>
                  registry'.claims[c.pairing].generation = <<c.device, c.token>>
             /\ file'.claims[c.pairing] # NoClaim =>
                  file'.claims[c.pairing].generation = <<c.device, c.token>>
             /\ ~failed' /\ registry'.claims[c.pairing] = NoClaim =>
                  pairings'[c.pairing] = NoClaim
  <2>1. CASE c \in delivered
    <3>1. c \in [pairing : Pairings, device : Devices, token : Tokens]
      BY <2>1 DEF Given
    <3> QED
      BY <1>1, <2>1, <3>1, GoneTogether
  <2>2. CASE Gives(c)
    BY <2>2, GivenNow
  <2> QED
    BY <2>1, <2>2, HistoryStep
<1> QED
  BY <1>2 DEF Given, GivenIn, Pending

-----------------------------------------------------------------------------
LEMMA PairingInitially == Init => Agreed /\ Given
BY DEF Init, Agreed, Given, GivenIn, Pending

LEMMA PairingInductive == IInv /\ MInv /\ Agreed /\ Given /\ [Next]_vars => (Agreed /\ Given)'
<1> SUFFICES ASSUME IInv, MInv, Agreed, Given, [Next]_vars
             PROVE  Agreed' /\ Given'
  OBVIOUS
<1>1. Issued /\ Known /\ Ended
  BY DEF MInv
<1> QED
  BY <1>1, AgreedStep, GivenStep

LEMMA PairingInvariant == Spec => [](Agreed /\ Given)
  BY PairingInitially, PairingInductive, Invariant, HistoryInvariant, PTL DEF Spec

LEMMA OneCredentialStep ==
    ASSUME IInv, Issued, Given, OneCredential, [Next]_vars
    PROVE  OneCredential'
<1>1. ASSUME NEW a \in delivered, NEW b, Gives(b), a.pairing = b.pairing
      PROVE  a = b
  <2>1. registry.claims[a.pairing].generation = <<a.device, a.token>>
    BY <1>1, GivenNow DEF Given, GivenIn
  <2>2. registry.claims[a.pairing].generation = <<b.device, b.token>>
    BY <1>1, GivenNow
  <2>3. /\ a \in [pairing : Pairings, device : Devices, token : Tokens]
        /\ b \in [pairing : Pairings, device : Devices, token : Tokens]
    BY <1>1, GivenNow DEF Given
  <2>4. a.device = b.device /\ a.token = b.token
    BY <2>1, <2>2
  <2> QED
    BY <1>1, <2>3, <2>4
<1>2. ASSUME NEW a, NEW b, Gives(a), Gives(b), a.pairing = b.pairing
      PROVE  a = b
  <2>1. <<a.device, a.token>> = <<b.device, b.token>>
    BY <1>2, GivenNow
  <2>2. /\ a \in [pairing : Pairings, device : Devices, token : Tokens]
        /\ b \in [pairing : Pairings, device : Devices, token : Tokens]
    BY <1>2, GivenNow
  <2>3. a.device = b.device /\ a.token = b.token
    BY <2>1
  <2> QED
    BY <1>2, <2>2, <2>3
<1>3. ASSUME NEW a \in delivered', NEW b \in delivered', a.pairing = b.pairing
      PROVE  a = b
  <2>1. (a \in delivered \/ Gives(a)) /\ (b \in delivered \/ Gives(b))
    BY HistoryStep
  <2> QED
    BY <1>1, <1>2, <1>3, <2>1 DEF OneCredential
<1> QED
  BY <1>3 DEF OneCredential

LEMMA NoLateDeliveryStep ==
    ASSUME IInv, Issued, Ended, [Next]_vars, NEW c \in delivered' \ delivered
    PROVE  /\ c.pairing \notin cancelled
           /\ c.token \notin retired
           /\ \E k \in Credentials(Merged(config, file)) :
                k.device = c.device /\ k.token = c.token
<1>1. Gives(c)
  BY HistoryStep
<1>2. /\ registry.claims[c.pairing] # NoClaim
      /\ c.device \in Active(view) /\ c.token = view[c.device].token
      /\ ~failed /\ file = registry
  BY <1>1, GivenNow
<1>3. c.pairing \notin cancelled
  BY <1>2 DEF Ended
<1>4. c.token \notin retired
  <2>1. retired \subseteq Revoked(registry) /\ view[c.device].token \notin Revoked(registry)
    BY <1>2 DEF IInv, Remembered, Serving, Consistent
  <2> QED
    BY <1>2, <2>1
<1>5. \E k \in Credentials(Merged(config, file)) : k.device = c.device /\ k.token = c.token
  <2>1. Merged(config, file) = view
    BY <1>2 DEF IInv, Serving
  <2>2. [device |-> c.device, generation |-> view[c.device].generation,
         token |-> view[c.device].token] \in Credentials(view)
    BY <1>2 DEF Credentials
  <2> QED
    BY <1>2, <2>1, <2>2
<1> QED
  BY <1>3, <1>4, <1>5

LEMMA NoLateApprovalStep ==
    ASSUME IInv, Ended, [Next]_vars, NEW p \in Pairings, ~failed,
           registry.claims[p] = NoClaim, registry'.claims[p] # NoClaim
    PROVE  p \notin cancelled \cup lapsed
<1>1. file = registry
  BY DEF IInv, Serving
<1>2. ASSUME NEW o \in Operations, NEW m \in Mutations, Mutate(o, m) PROVE FALSE
  <2>1. Planned(o, m).claims[p] = NoClaim
    BY PlannedClaims
  <2>2. Commits(Planned(o, m))
    BY <1>2, MutateCommits
  <2> QED
    BY <2>1, <2>2 DEF Commits
<1>3. ASSUME NEW f \in flights, FinishApproval(f) PROVE p \notin cancelled \cup lapsed
  <2>1. f \in Flights /\ Commits(PlannedApproval(f))
    BY <1>3, ApprovalCommits
  <2>2. p = f.pairing
    BY <2>1, ApprovalClaims DEF Commits
  <2>3. p \notin lapsed /\ Pending(p)
    BY <1>3, <2>2 DEF FinishApproval, StillPending
  <2> QED
    BY <2>3 DEF Ended
<1>4. ASSUME NEW q \in Pairings, Cancel(q) PROVE FALSE
  BY <1>4, CancelCommits, WithoutClaimClaims DEF Commits
<1>5. ASSUME NEW e \in Configs, Restart(e) PROVE FALSE
  BY <1>1, <1>5, StartedClaims DEF Restart
<1>6. CASE Quiet
  BY <1>6 DEF Quiet
<1> QED
  BY <1>2, <1>3, <1>4, <1>5, <1>6, KindOfStep

\* createPairing, finishRegistryApproval, claimRegistryPairing and cancelPairing:
\* a pairing that was cancelled or that expired is neither approved nor answered
\* any more, however long DNS takes; any other gives out one credential, which is
\* durable and in force when it is given.
THEOREM PairingSoundCorrect == Spec => PairingSound
<1>1. Init => OneCredential
  BY DEF Init, OneCredential
<1>2. IInv /\ MInv /\ Given /\ OneCredential /\ [Next]_vars => OneCredential'
  BY OneCredentialStep DEF MInv
<1>3. IInv /\ MInv /\ [Next]_vars =>
        [\A c \in delivered' \ delivered :
           /\ c.pairing \notin cancelled
           /\ c.token \notin retired
           /\ \E k \in Credentials(Merged(config, file)) :
                k.device = c.device /\ k.token = c.token]_vars
  BY NoLateDeliveryStep DEF MInv
<1>4. IInv /\ MInv /\ [Next]_vars =>
        [\A p \in Pairings :
           ~failed /\ registry.claims[p] = NoClaim /\ registry'.claims[p] # NoClaim
             => p \notin cancelled \cup lapsed]_vars
  BY NoLateApprovalStep DEF MInv
<1> QED
  BY <1>1, <1>2, <1>3, <1>4, Invariant, HistoryInvariant, PairingInvariant, PTL
     DEF Spec, PairingSound, NoLateDelivery, NoLateApproval
=============================================================================
