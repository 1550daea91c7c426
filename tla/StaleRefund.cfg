\* One player with one connection that a request closes while it is in use,
\* buy-ins of 1 or 2 chips.
SPECIFICATION Spec
CONSTANTS
    p1 = p1
    p2 = p2
    c1 = c1
    c2 = c2
    c3 = c3
    NoPlayer = NoPlayer
    Owner <- TwoForOne
    PlayerIds = {p1}
    Conns = {c1}
    Revokers = {r1}
    TableIds = {t1}
    DefaultTable = t1
    MaxPlayers = 2
    Amounts = {1, 2}
    InitialBalance = 3
    MaxBuyIns = 2
    StoreMayFail = FALSE
INVARIANTS
    NoChipsCreated
\* The model stops when every connection it has was used and every buy-in
\* made.
CHECK_DEADLOCK FALSE
