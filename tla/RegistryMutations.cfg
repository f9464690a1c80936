\* Mutations, receipts and restarts, without pairing.
CONSTANTS
    d1 = d1
    d2 = d2
    s1 = s1
    s2 = s2
    canonical = canonical
    alias = alias
    None = None
    Devices = {d1, d2}
    Pairings = {}
    Operations = {o1, o2, o3, o4}
    Addresses = {canonical, alias}
    Configs <- ThreeConfigs
    StaticTokens = {s1, s2}
    MaxDevices = 2
    MaxRecords = 2
    MaxHashes = 3
    MaxOrdinary = 1
    MaxPairings = 0
    MaxFresh = 3
    MaxFlights = 0
SYMMETRY Symmetry
SPECIFICATION Spec
CHECK_DEADLOCK FALSE
INVARIANT CredentialsSound
PROPERTY MutationsSound
