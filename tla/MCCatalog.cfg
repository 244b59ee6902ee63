CONSTANTS
    NULL = NULL
    p1 = p1
    p2 = p2
    Procs = {p1, p2}
    Ids <- MCTwoIds
    MaxId = 3
    Rows <- MCKeyRows
SPECIFICATION FairSpec
INVARIANTS TypeOK PassSound HiddenBehindNewer NoVisibleTwins
PROPERTIES ImplementsVitrine FlagsHeal
