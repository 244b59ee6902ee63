CONSTANTS
    MaxAttempts = 3
    NumModels = 2
    MaxCars = 2
SPECIFICATION FairFetchSpec
INVARIANTS FetchTypeOK FallbackEarned NothingLeftOpen
PROPERTIES CommandEnds
