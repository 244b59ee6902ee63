CONSTANTS
    Pending = Pending
    NoOverride = NoOverride
    Empty = Empty
    OtherSources <- MCOtherSources
    PhotoLists <- MCPhotoLists
    Requests = {r1, r2}
    MaxEntries = 2
    Ttl = 2
    MaxFlight = 1
    Operators = {o1, o2}
    Slugs = {s1, s2}
    Urls = {u1, u2}
SPECIFICATION WebSpec
INVARIANTS TypeOK ServedFresh SaveShown
PROPERTIES LeastRecentEvicted ShownPhotoIsServed
