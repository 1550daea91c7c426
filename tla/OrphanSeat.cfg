\* One player with two connections, two tables, two buy-ins.
SPECIFICATION Spec
CONSTANTS
    p1 = p1
    p2 = p2
    c1 = c1
    c2 = c2
    c3 = c3
    NoPlayer = NoPlayer
    Owner <- TwoForOne
    PlayerIds = {p1}
    Conns = {c1, c2}
    Revokers = {}
    TableIds = {t1, t2}
    DefaultTable = t1
    MaxPlayers = 2
    Amounts = {1}
    InitialBalance = 2
    MaxBuyIns = 2
    StoreMayFail = FALSE
INVARIANTS
    NoSeatWithoutConnection
\* The model stops when every connection it has was used and every buy-in
\* made.
CHECK_DEADLOCK FALSE
