\* One pairing at a time of a static or an unknown device, and mutations in
\* between.
CONSTANTS
    d1 = d1
    d2 = d2
    s1 = s1
    s2 = s2
    canonical = canonical
    alias = alias
    None = None
    Devices = {d1, d2}
    Pairings = {p1}
    Operations = {o1, o2, o3}
    Addresses = {canonical, alias}
    Configs <- TwoConfigs
    StaticTokens = {s1, s2}
    MaxDevices = 2
    MaxRecords = 2
    MaxHashes = 3
    MaxOrdinary = 3
    MaxPairings = 1
    MaxFresh = 2
    MaxFlights = 2
SYMMETRY Symmetry
SPECIFICATION Spec
CHECK_DEADLOCK FALSE
PROPERTY PairingSound
