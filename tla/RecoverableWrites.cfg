\* Replacement: two processes, two operations, a directory of one record, one restart
\* of the player, one change of the favorites by the viewer and one power loss.
\* Acknowledgement: one process that replaces, and two that look at its operation or
\* acknowledge it.  All players: two runs that merge and clear, and one of any kind
\* against a viewer.  A preset of two M3U profiles and the Plex slot.  Five commands on
\* the configuration.  The USB service and an operator in three
\* boots, with two attempts in each.
CONSTANTS
    r1 = r1
    r2 = r2
    r3 = r3
    o1 = o1
    o2 = o2
    Run = {r1, r2, r3}
    Op = {o1, o2}
    NoOp = NoOp
    MaxRecords = 1
    MaxRuntime = 2
    MaxRevision = 2
    MaxOutages = 1
    PlanRuns = {r1, r2}
    ListRuns = {r1}
    NoRun = None
    Item = {"a", "b"}
    PlanTitles = {"x"}
    ListTitles = {"x", "y"}
    Saved <- OneSaved
    MaxFavorites = 3
    Key = {r1, r2}
    NoKey = None
    Profiles = {1, 2}
    Desired = 1
    Extras = {}
    Ttl = 1
    Budget = 1
    Margin = 1
    Pause = 1
    Updates = {"a", "b", "p", "g", "k", "l"}
    Kind <- SixKinds
    Field <- SixFields
    Together <- FourAtOnce
    Proc = {r1, r2}
    NoProc = None
    Node = {o1, o2}
    MaxAttempts = 2
    MaxBoot = 3
SPECIFICATION WritesSpec
SYMMETRY Symmetric
INVARIANTS SafeReplace ListedAtOnce SafeReplacement SafeAttempts
PROPERTIES CommitsThePlan SafePreset
CHECK_DEADLOCK FALSE
