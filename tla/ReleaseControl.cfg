\* Two runs at the same time with nightlies, final builds and one incident; three one
\* after another with byte promotion and one incident; two preparations of two versions
\* against two commits of main and three of their branches; and the images of two
\* versions, copied by two runs to one destination, or by two to two and read by a third.
CONSTANTS
    r1 = r1
    r2 = r2
    r3 = r3
    Run = {r1, r2}
    NoRun = NoRun
    Triggers <- Occurring
    Promotion = "final-build"
    Serial = FALSE
    BaseAt <- Bases
    MaxSource = 2
    MaxIncidents = 1
    Preparers = {r1, r2}
    MaxVersion = 2
    MaxMain = 2
    MaxCommits = 3
    Copiers = {s1, s2}
    Readers = {q1}
    Destinations <- GhcrThenDocker
    Approvable = {"v1", "v2"}
SPECIFICATION MCSpec
SYMMETRY Symmetric
INVARIANT OwnedTopic
PROPERTIES SafePublication SafeImages NumbersUnique
CHECK_DEADLOCK FALSE
