CONSTANTS
    MaxAttempts = 2
    NumModels = 1
    MaxCars = 1
SPECIFICATION FetchSpec
INVARIANTS FallbackHelps
