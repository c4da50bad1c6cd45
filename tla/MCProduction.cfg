SPECIFICATION ProducerSpec
CONSTANTS
    None = None
    Threads = 3
    Heroes = 4
    Interval = 2
    Second = 3
    RetryAfter = {0, 5}
    MaxAttempts = 3
    Absent = Absent
    AbilityCount = 2
    RankCount = 2
    Catalog <- MCCatalog
    MaxOwned = 2
    MaxPerTier = 1
    LeastEffect = 2
    LeastUse <- MCLeastUse
    Never = 1000
    HeroId = 1
    HeroName = 8
    Responses <- MCResponses
    EstimateSets <- MCEstimates
    MedianSets <- MCMedians
    AssetSets <- MCAssets
    TargetSets <- MCTargets
    Tags <- MCTags
    Classes <- MCClasses
INVARIANTS
    TypeOK
    OkIsComplete
    PhasesAreOwned
    OrderIsBestSupported
    ProducedBuildsAreValid
PROPERTIES
    SlotsAreSpaced
    DelaysAreRespected
    RequestsEnd
