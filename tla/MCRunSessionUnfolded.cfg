CONSTANTS
    NumModels = 2
    BucketCount = 1
    Cooldown = 1
    Caps = {0}
    MaxEvents = 1
    Never = Never
SPECIFICATION Spec
PROPERTY EveryRunFolds
