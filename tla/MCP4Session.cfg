CONSTANTS
    d1 = d1
    d2 = d2
    Switch = {d1, d2}
    Startup <- OneByOne
    Entries <- SomeEntries
    MaxSent = 2
    MaxNotices = 1
    MaxEnds = 1
SPECIFICATION Spec
INVARIANTS
    TypeOK
    EventsComplete
    AllClosed
    EntryAsAsked
PROPERTIES
    Delivered
CHECK_DEADLOCK FALSE
