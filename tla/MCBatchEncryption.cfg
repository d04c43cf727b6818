CONSTANTS
    Kinds = {"status", "start"}
    BatchKinds = {"protected"}
    Files = 2
    MaxRuns = 2
    Key = {k1, k2, k3}
    LargeKey = {k3}
    NoKey = NoKey
    MaxChoices = 2
    MaxOthers = 1
    MaxRequests = 5
    MaxRestarts = 1

SPECIFICATION ViewSpec

INVARIANTS
    HandledOnce
    ExpectationEnforced
    BatchAlone
    InspectionShown

PROPERTIES
    LateResultDropped

VIEW Seen
SYMMETRY Alike

\* The user chooses, starts and leaves a bounded number of times.
CHECK_DEADLOCK FALSE
