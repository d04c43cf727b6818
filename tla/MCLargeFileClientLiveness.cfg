CONSTANTS
    Run = {r1, r2}
    Job = {j1}
    NoRun = NoRun
    NoJob = NoJob
    LateAnswers = FALSE
    MaxHides = 1
    MaxLeaves = 0

SPECIFICATION FairClientSpec

PROPERTIES
    ViewSettles


\* With the ID lost and no way back to the job, only the user goes on.
CHECK_DEADLOCK FALSE
