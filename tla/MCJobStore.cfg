CONSTANTS
    Job = {j1, j2}
    Lease = {j1, j2, r1}
    Call = {j1, j2, r1}
    NoLease = NoLease
    NoJob = NoJob
    Mode = {"decrypt", "verify"}
    MaxStarts = 1

SPECIFICATION JobSpec

INVARIANTS
    OwnedFilesStayOpen
    AdmissionFollowsState
    EndedJobOwnsNothing

PROPERTIES
    CancelIsFinal

\* Jobs are used once: a behaviour ends when they are used up.
CHECK_DEADLOCK FALSE
