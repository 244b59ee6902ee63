CONSTANTS
    NULL = NULL
    ColorRu <- MCColorRu
    Ids <- MCIds
    MaxId = 9
    Cars <- MCCars
    Written <- MCWritten
    Details <- MCDetails
    Pages <- MCPages
    Rows <- MCRows
SPECIFICATION VitrineSpec
INVARIANTS HiddenBehindNewer NoVisibleTwins EachCarOnce
