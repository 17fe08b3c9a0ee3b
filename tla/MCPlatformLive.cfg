SPECIFICATION Spec
CONSTANTS
    Names = {n1}
    Clients = {c1, c2}
    MaxSecrets = 3
    MaxConsecFails = 2
    MaxAccountFaults = 1
    PoolMaps = {"m1"}
    Voters = {"v1"}
    Feedbacks = {"f1"}
    Readers = {"r1"}
    Bodies <- SomeBodies
    BlockedTerms <- SomeTerms
    CharFold <- Folding
    Alphanumeric = {"a"}
    MinLength = 1
    MaxUpvoteFaults = 1
    PoolWorkers = {"w1"}
    WallDensity <- Density
    CreatedAt <- Created
    FairnessMinGames = 1
    DislikedBy = 0
    PruneMin = 1
    ClassicTopN = 1
    MaxPlays = 1
    MaxPoolFaults = 1
    EMatches = {"close", "upset", "drawn", "dull"}
    Owners = {"a"}
    Asked = {"dull"}
    MinTurnCount = 100
    WindowSize = 2
    MinCrossings = 3
    MaxPerHour = 2
    MaxConcurrent = 1
    MaxEnrichFaults = 1
    Profile <- Profiles
  MaxSeasons = 2
  MaxUpsets = 1
  MaxBracketFaults = 1
  Images = {1, 2}
  IndexLimit = 1
  DeployInterval = 2
  CyclesPerLife = 2
  MaxCompleted = 2
  MaxBuildFaults = 1
INVARIANTS
    BracketIsTree
    RevocationStands
PROPERTIES
    HealthConverges
    ChampionshipsFinish
    InterestingIsEnriched
    LatestIsPublished
    TornSitesHeal
    DislikedMapsAreDecided
CHECK_DEADLOCK FALSE
