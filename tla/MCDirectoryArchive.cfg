CONSTANTS
    Top = top
    d = d
    dd = dd
    a = a
    b = b
    Dirs = {d, dd}
    Files = {a, b}
    Parent <- ParentOf
    Chunks = 2
    MaxChanges = 2
    Entry = {e1, e2}
    Sources <- SourceTrees
    Archives <- OtherArchives
    MAX_ARCHIVE_ENTRIES = 3
    MAX_ARCHIVE_DEPTH = 2

SPECIFICATION ArchiveSpec

INVARIANTS
    ArchiveIsOneMoment
    DestinationWhole
    NothingLeft
    RestoredAsListed
    OneReading

\* A backup or restoration ends.
CHECK_DEADLOCK FALSE
