CONSTANTS
    Job = {j1}
    Request = {r1, r2}
    Lease = {j1, r1, r2}
    Call = {j1, r1, r2}
    NoLease = NoLease
    NoJob = NoJob
    Mode = {"decrypt", "verify"}
    MaxStarts = 1

SPECIFICATION FairServiceSpec

INVARIANTS
    NativeExclusive
    NativeWorkAlone

PROPERTIES
    ImplementsSlot
    ReservationEnds
    CloseReturns
    ImplementsLifecycle
    LeftRequestReleases

\* Jobs and requests are used once: a behaviour ends when they are used up.
CHECK_DEADLOCK FALSE
