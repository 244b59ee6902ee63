CONSTANTS
    NumModels = 4
    BucketCount = 2
    Cooldown = 2
    Caps = {0, 1}
    MaxEvents = 2
    Never = Never
SPECIFICATION FairSpec
INVARIANTS TypeOK DeferralEarned
PROPERTIES EveryModelWalked FoldedInTheEnd
