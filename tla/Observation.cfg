\* The progress test with two events; ten units of time shared by up to four
\* observations; a trial with two changes by the viewer and three contexts; three
\* events in pages of one; two searches over two
\* generations of two guides in four moments.
CONSTANTS
    ProgressBudget = 5
    ShareBudget = 10
    Duration = 2
    MaxHappenings = 2
    MaxForeign = 2
    MaxContexts = 3
    MaxSeq = 3
    RingSize = 2
    PageSize = 1
    MaxPages = 3
    MaxEvents = 2
    MaxElapsed = 1
    Channels = {"c", "d"}
    Plans <- Guides
    Retention = 2
    Lifetime = 3
    MaxSplits = 1
    MaxGeneration = 2
    MaxCatalog = 2
    MaxChanges = 1
    MaxTime = 3
    MaxSearches = 2
SPECIFICATION MCSpec
INVARIANTS ProgressHonest NoneStarved SafeTrial ExportExact SoundSelection
CHECK_DEADLOCK FALSE
