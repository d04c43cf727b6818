CONSTANTS
    MaxFileBytes = 2
    ChunkBytes = 3
    TagBytes = 2
    MaxName = 2
    Suite = {1, 2}
    NewSuite = 1
    Keys <- KeysOf
    NewKey = k1
    Plaintexts <- Plain
    Containers <- Stored
    MaxChanges = 2
    k1 = k1
    k2 = k2
    k3 = k3

SPECIFICATION StreamSpec

INVARIANTS
    ReleasedIsAuthentic
    AcceptsExactly
    RoomIsBounded

\* An operation ends.
CHECK_DEADLOCK FALSE
