CONSTANTS
    Proc = {p1, p2}
    NoProc = NoProc
    Public = Public
    Private = Private
    NoFile = NoFile

SPECIFICATION PubSpec

INVARIANTS
    StagedOutputWhole
    SuccessIsDurable
    PrivateNeverAlone
    NoTemporaryLeft

PROPERTIES
    OnlyOverwritingTakes

\* Commands run once: a behaviour ends when all have.
CHECK_DEADLOCK FALSE
