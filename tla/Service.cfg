\* Two players with one connection each, two tables of one seat, so that
\* they race for it; two buy-ins of one chip; the store may fail; fairness.
SPECIFICATION FairSpec
CONSTANTS
    p1 = p1
    p2 = p2
    c1 = c1
    c2 = c2
    c3 = c3
    NoPlayer = NoPlayer
    Owner <- TwoForOne
    PlayerIds = {p1, p2}
    Conns = {c1, c3}
    Revokers = {}
    TableIds = {t1, t2}
    DefaultTable = t1
    MaxPlayers = 1
    Amounts = {1}
    InitialBalance = 2
    MaxBuyIns = 2
    StoreMayFail = TRUE
INVARIANTS
    TypeOK
    BuyInInOnePlace
    SeatBelongsToConnection
    AloneChipsConserved
PROPERTIES
    DisconnectReturnsChips
    ImplementsLedger
\* The model stops when every connection it has was used and every buy-in
\* made.
CHECK_DEADLOCK FALSE
