\* Three ids and none, two types of requests, two cached answers that live for
\* one tick, five requests and three ticks.
SPECIFICATION Spec
CONSTANTS
    NoId = NoId
    RequestIds = {NoId, i1, i2, i3}
    EventTypes = {"join_table", "leave_table"}
    MaxEntries = 2
    TTL = 1
    MaxRequests = 5
    MaxNow = 3
SYMMETRY Symmetric
INVARIANTS
    TypeOK
    OrderMatchesCache
    CachedAnswerIsLatest
PROPERTIES
    NotExecutedAgain
    ImplementsMemory
