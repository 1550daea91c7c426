\* One table of two seats (tables share nothing), three players, so that the
\* table can be full; preferred seats -1 (any) to 2 (one too far); at most
\* sequence number 5.
SPECIFICATION Spec
CONSTANTS
    p1 = p1
    p2 = p2
    p3 = p3
    NoPlayer = NoPlayer
    PlayerIds = {p1, p2, p3}
    MaxPlayers = 2
    TableIds = {t1}
    Stacks = {1, 2}
    SavedLists <- MCSavedLists
    SavedSeqs = {0, 3}
    MaxSeq = 5
INVARIANTS
    TypeOK
    SeatsMatchIndex
    SeqNamesSnapshot
