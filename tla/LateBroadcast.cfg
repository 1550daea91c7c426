\* As Publication, without a restart; one table.
SPECIFICATION Spec
CONSTANTS
    PlayerIds = {p1, p2}
    NoPlayer = NoPlayer
    TableIds = {t1}
    DefaultTable = t1
    MaxPlayers = 1
    InitialChips = 1
    MaxErrors = 0
    MaxJoins = 1
    MaxRestarts = 0
PROPERTIES ScreensFollowSeq
