CONSTANTS
    Run = {r1, r2}
    Job = {j1}
    NoRun = NoRun
    NoJob = NoJob
    LateAnswers = FALSE
    MaxHides = 2
    MaxLeaves = 2

SPECIFICATION ClientSpec

INVARIANTS
    NoOrphan
    CredentialsShortLived
    SettledIsUntouched
    NeverStranded

PROPERTIES
    ShownNeverGoesBack

VIEW Seen
SYMMETRY Alike

\* With the ID lost and no way back to the job, only the user goes on.
CHECK_DEADLOCK FALSE
