\* The write of the committed state may fail after it replaced the file.
CONSTANTS
    a1 = a1
    a2 = a2
    a3 = a3
    g1 = g1
    g2 = g2
    None = None
    Apks = {a1, a2, a3}
    Guards = {g1, g2}
    Embedded <- Embeds
    Baselines = {locked, playing}
    Torn = {"pending", "committed", "rolled_back"}
    MaxFaults = 3
SPECIFICATION Spec
INVARIANTS RemainsPending
