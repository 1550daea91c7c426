\* Three requests for a session by two guests and an account, any of them with
\* the cookie of an earlier one, two nicknames in three spellings, a database
\* that may fail before or after its commit, expiry, logout and restarts.
SPECIFICATION Spec
CONSTANTS
    NoPlayer = NoPlayer
    NoName = NoName
    PlayerIds = {g1, g2, u1}
    Guests = {g1, g2}
    TableIds = {}
    Names = {"ann", "bob"}
    Nicknames <- Spellings
    Canonical <- CanonicalSpelling
    SessionIds = {r1, r2, r3}
    Requests = {r1, r2, r3}
    PostgresEnabled = TRUE
    SaveMayFail = TRUE
SYMMETRY Symmetric
INVARIANTS
    TypeOK
    IndexesAgree
    NicknameHeldInSession
    NicknamesUniqueOnce
    CookieMeansSaved
PROPERTIES
    ImplementsRegistry
\* The model stops when every request was made.
CHECK_DEADLOCK FALSE
