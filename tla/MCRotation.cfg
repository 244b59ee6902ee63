CONSTANTS
    NumModels = 3
    BucketCount = 2
    YearLengths <- MCYears
    MaxSyncs = 1
    Cooldown = 1
    Days <- MCDays
    Starts <- MCStarts
SPECIFICATION FairPlannerSpec
INVARIANTS WaitIsBounded PlanComesTrue
PROPERTY EveryModelComesUp
