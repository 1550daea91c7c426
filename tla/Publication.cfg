\* Two players, two tables of one seat, so that they race for it; two joins, one
\* error of the stores, two restarts.
SPECIFICATION Spec
CONSTANTS
    PlayerIds = {p1, p2}
    NoPlayer = NoPlayer
    TableIds = {t1, t2}
    DefaultTable = t1
    MaxPlayers = 1
    InitialChips = 2
    MaxErrors = 1
    MaxJoins = 2
    MaxRestarts = 2
SYMMETRY Symmetric
INVARIANTS
    TypeOK
    AloneScreenCurrent
    AloneSavedCurrent
    ChangesLogged
    TrustedNoChipsCreated
PROPERTIES
    QuietRestartKeepsTable
