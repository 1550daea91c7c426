\* One player with two connections, one after the other or both at once, and a
\* request that closes them; one table, one buy-in; fairness.
SPECIFICATION FairSpec
CONSTANTS
    p1 = p1
    p2 = p2
    c1 = c1
    c2 = c2
    c3 = c3
    NoPlayer = NoPlayer
    Owner <- TwoForOne
    PlayerIds = {p1}
    Conns = {c1, c2}
    Revokers = {r1}
    TableIds = {t1}
    DefaultTable = t1
    MaxPlayers = 2
    Amounts = {1}
    InitialBalance = 2
    MaxBuyIns = 1
    StoreMayFail = FALSE
INVARIANTS
    BuyInInOnePlace
    BuyInSpentOnce
    SeatBelongsToConnection
PROPERTIES
    ClosedConnectionsFinish
\* The model stops when every connection it has was used and every buy-in
\* made.
CHECK_DEADLOCK FALSE
