CONSTANTS
    NoGen = NoGen
    Torn = Torn
    NoRow = NoRow
    Bad = Bad
    DomesticCell <- MCDomesticCell
    ImportCell <- MCImportCell
    FamilyKr <- MCFamilyKr
    TokenKr <- MCTokenKr
    SubmodelKr <- MCSubmodelKr
    Labels <- MCLabels
    Procs = {p1, p2}
    Slugs <- MCSlugs
    Queries <- MCQueries
    Stocked <- MCStocked
    Drafts <- MCDrafts
    InitialFiles <- MCInitialFiles
    MaxItems = 2
    MaxEvents = 1
SPECIFICATION FairSpec
INVARIANTS TypeOK BuildSound BuildComplete
PROPERTIES SyncedAgrees OnlyEmptyModelsDisabled PoolConverges
