CONSTANTS
    Run = {r1, r2}
    Job = {j1}
    NoRun = NoRun
    NoJob = NoJob
    LateAnswers = FALSE
    MaxHides = 1
    MaxLeaves = 0

SPECIFICATION ClientSpec

INVARIANTS
    RevalidatesAfterCleanup
