CONSTANTS
    wide = wide
    Never = Never
    Models = {wide}
    Ids <- MCThree
    Matches <- MCOneModel
    PageSize = 2
    AssumedPageSize = 2
    MaxPages = 2
    DepthCaps <- MCDepths
    Counts <- MCCounts
    None = None
    Cooldown = 1
    MaxEvents = 1
SPECIFICATION FairSpec
INVARIANTS TypeOK WalkCoversList
PROPERTY EveryListingLinked
