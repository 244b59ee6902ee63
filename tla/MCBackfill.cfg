CONSTANTS
    p1 = p1
    None = None
    Procs = {p1}
    NumModels = 3
    Failing = {}
    MaxEvents = 2
    MaxCap = 1
SPECIFICATION FairSpec
INVARIANTS TypeOK CompletedWasWalked EndCoversAsked AtMostOneUnsaved
PROPERTIES ImplementsLedger EveryModelWalked
