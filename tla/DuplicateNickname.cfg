\* A player signs in twice, the second time under another nickname, which
\* frees the first one for a guest.
SPECIFICATION Spec
CONSTANTS
    NoPlayer = NoPlayer
    NoName = NoName
    PlayerIds = {g1, g2, u1}
    Guests = {g1, g2}
    TableIds = {}
    Names = {"ann", "bob"}
    Nicknames <- Spellings
    Canonical <- CanonicalSpelling
    SessionIds = {r1, r2, r3}
    Requests = {r1, r2, r3}
    PostgresEnabled = TRUE
    SaveMayFail = FALSE
INVARIANTS
    NicknamesUnique
\* The model stops when every request was made.
CHECK_DEADLOCK FALSE
