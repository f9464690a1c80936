\* Play by name, id and number against three more catalogues and two standbys;
\* fifteen bound commands to a player that restarts three times and a controller
\* replaced twice; settings of two sources with two changes by others; a torrent
\* catalogue with two entries; an indexer restarted and changed twice; a power off
\* with two more connections and three dialogs; two updates to six releases; two
\* registry operations with two changes by others.
CONSTANTS
    Lineups <- TwoProviders
    Destination = "there"
    Wanted = {"news", "News", "news2"}
    Exact = {"news", "News"}
    Number = 2
    MediaCommands = {"play", "exact", "number", "random", "category", "provider"}
    MaxRevision = 4
    MaxStandby = 2
    BoundKinds = {"browse", "connect", "session", "handle", "servers", "library", "queue", "queue2",
             "repeat", "aspect", "notify", "seek", "profile", "screenshot", "detailed"}
    MaxRuntime = 4
    MaxDeploys = 2
    Sources = {s1, s2}
    Items = {i1, i2}
    MaxSettingsChanges = 2
    MaxRestarts = 1
    PageSize = 1
    Ids = {a, b}
    Chunks = 2
    MaxCatalogChanges = 1
    MaxCatalogRestarts = 1
    MaxIndexerRuntime = 3
    MaxGeneration = 3
    MaxConnections = 3
    MaxDialogs = 3
    Invocations = {"i", "j"}
    Apks = {"old", "full", "api22", "new"}
    CodeOf <- Codes
    Releases <- SixReleases
    MaxOperations = 2
    MaxPosts = 2
    MaxChanges = 1
    MaxDays = 1
SPECIFICATION CommandsSpec
INVARIANTS HonestDispatch SafeCommand HonestCatalog HonestIndexer SafeShutdown SafeUpdate SafeRecovery
PROPERTY SafeSettings
CHECK_DEADLOCK FALSE
