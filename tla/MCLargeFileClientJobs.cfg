CONSTANTS
    Run = {r1, r2}
    Job = {j1, j2}
    NoRun = NoRun
    NoJob = NoJob
    LateAnswers = TRUE
    MaxHides = 0
    MaxLeaves = 1

SPECIFICATION ClientSpec

PROPERTY LocatorKept

CONSTRAINT ThreeOnTheWay
VIEW SeenNow
SYMMETRY Alike

\* With the ID lost and no way back to the job, only the user goes on.
CHECK_DEADLOCK FALSE
