\* One player, one table, four calls of any kind over a pool of three
\* connections, each of which may fail, or commit and not say so.
SPECIFICATION FairSpec
CONSTANTS
    NoPlayer = NoPlayer
    PlayerIds = {p1}
    TableIds = {t1}
    Amounts = {2, 3}
    InitialBalance = 4
    MaxBuyIns = 3
    MaxCalls = 4
    PoolSize = 3
INVARIANTS
    TypeOK
    ChipsConserved
    HandedOnce
    RetriesChargeOnce
PROPERTIES
    ImplementsLedger
    CallsEnd
\* The model stops when every call was made.
CHECK_DEADLOCK FALSE
