SPECIFICATION Spec
CONSTANTS
    Burst = 4
    Cost = 2
    MaxAge = 4
    MaxTime = 9
    VMatches = {vm1, vm2}
    VBots = {vb1, vb2}
    VWorkers = {vw1, vw2}
    Predictors = {p1}
    MaxDisturbances = 2
    NumBots = 4
    Formats = {2, 3}
    MapsOf = 2
    Near = 1
    StrikeLimit = 2
    MaxCreated = 4
    MaxCrashes = 1
    PoolMaps = {"m1", "m2"}
    Voters = {"v1"}
    Feedbacks = {"f1", "f2"}
    Readers = {"r1", "r2", "r3"}
    Bodies <- SomeBodies
    BlockedTerms <- SomeTerms
    CharFold <- Folding
    Alphanumeric = {"a"}
    MinLength = 1
    MaxUpvoteFaults = 2
    PoolWorkers = {"w1"}
    WallDensity <- Density
    CreatedAt <- Created
    FairnessMinGames = 1
    DislikedBy = 0
    PruneMin = 1
    ClassicTopN = 1
    MaxPlays = 1
    MaxPoolFaults = 0
    Side = 4
    CoreOffset = 1
    CoreClear = 0
    NodeClear = 0
    CenterClear = 0
    Corridor = 0
    Iterations = 2
    TargetWalls = 1
    MinWalls = 1
    MaxWalls = 8
    MinOpen = 4
    MinReach = 1
    MinSeedCount = 2
    MaxShift = 3
    MaxFlips = 2
    MaxPool = 3
    NodeSpots <- Spots
    NodesPerSector = 1
    TopBots <- Ladder
    SeriesPerWeek = 2
    MinFeaturedBots = 4
    MaxFeaturedFaults = 1
    RMatches = {"m1", "m2"}
    RWorkers = {"w1", "w2", "w3"}
    B2Workers = {"w1", "w2"}
    TailLength = 2
    B2Public = TRUE
    MaxReplayFaults = 1
    Rows = 3
    Cols = 24
    AttackRadius2 = 5
    VisionRadius2 = 10
    MaxTurns = 2
    Views <- AllViews
    Lapses <- AllLapses
    Playing <- AllBots
INVARIANTS
    RateIsBounded
    StatsExact
    RatingsLoseOnlyToOverlap
    NoBotStarves
    MapsAreSound
    PruneIsMonthly
    UpvotesEarned
    FeaturedAreDisjoint
    ReplayIsServed
    FeedsExactWhenSerial
    NoOrdersMeet
CHECK_DEADLOCK FALSE
