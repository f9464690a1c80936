\* A list and a group that overlap, and a single player; the user may interrupt once.
CONSTANTS
    Names <- TheNames
    Groups <- SavedGroups
    Device <- Named
    Selectors <- Overlapping
    MaxTargets = 3
    Workers = 2
    Commands = {"list", "set", "bind", "play", "provider"}
    Room = 1
    MaxOutput = 1
    MaxInterrupts = 1
SPECIFICATION FairSpec
INVARIANT HonestReport
PROPERTY EveryTargetReported
CHECK_DEADLOCK FALSE
