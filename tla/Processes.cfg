SPECIFICATION Spec
CONSTANTS
    Requests = {r1, r2}
    MaxChunks = 2
    Sends = {s1, s2, s3}
    NoProducer = NoProducer
    Gets = {g1, g2}
    MaxSaves = 3
    NoObject = NoObject
    MaxFiles = 3
    MaxWrites = 5
    SmallBound = 1
    LargeBound = 2
    PageSize = 1
    Types = {"HIT", "MISS"}
    MaxChanges = 3
    Polls = {q1, q2}
    Configured = {"postgres", "redis"}
    MaxOutages = 2
    MaxDrops = 1
    Routes = {ra, rb}
    Loads = {l1, l2, l3}
    NoBundle = NoBundle
    MaxVersions = 2
    MaxClears = 1
    Modules = {m1, m2, m3}
    Runtime = m1
    MaxBatches = 3
    Configs <- MCConfigs
    FirstConfig <- MCFirstConfig
    DeployOptions <- MCDeployOptions
    BuildOptions <- MCBuildOptions
    Files = {f1, f2}
    MaxCommands = 2
    MaxEdits = 1
    None = None
    u1 = u1
    u2 = u2
    Uploads = {u1, u2}
    NameOf <- MCNameOf
    Readers = {d1, d2}
    MaxTroubles = 1
    NoFile = NoFile
INVARIANTS
    EndedIsWhole
    OneConnection
    DateNotTooLate
    NoFileCountedTwice
    NewestAreKept
    FetchesAreNeeded
    LoadingIsInFlight
    ServesWhole
    LiveHasAssets
    CompletedIsLive
    CleanedUp
    RowDescribesObject
PROPERTIES
    ShutdownEnds
    PageCatchesUp
    ReadyWasAnswered
    HealthyBecomesReady
    RedisIsUsedAgain
    GoesLiveComplete
    FilesGetListed
CHECK_DEADLOCK FALSE
