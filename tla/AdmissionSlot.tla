--------------------------- MODULE AdmissionSlot ---------------------------
(***************************************************************************)
(* What CryptoWorker promises its clients, with the executor, the futures  *)
(* and the counters left out: one admission slot.  A lease is admitted     *)
(* once, only into a free slot, and keeps the slot exactly until its       *)
(* request has closed it and the work done in its name has drained,        *)
(* whichever comes last.                                                   *)
(***************************************************************************)
CONSTANTS Lease, NoLease

VARIABLES
    holder,     \* the lease that is admitted, or NoLease
    open,       \* the leases whose request has not closed them
    using,      \* the leases in whose name work is queued or executing
    spent       \* the leases that were ever created

avars == <<holder, open, using, spent>>

SlotInit ==
    /\ holder = NoLease
    /\ open = {}
    /\ using = {}
    /\ spent = {}

\* The slot after l's request or its work came to an end.
Kept(l, o, u) == IF l \in o \cup u THEN l ELSE NoLease

Admit(l) ==
    /\ holder = NoLease
    /\ l \notin spent
    /\ holder' = l
    /\ open' = open \cup {l}
    /\ spent' = spent \cup {l}
    /\ UNCHANGED using

\* A lease whose owner could not be built is spent without ever being used.
Waste(l) ==
    /\ holder = NoLease
    /\ l \notin spent
    /\ spent' = spent \cup {l}
    /\ UNCHANGED <<holder, open, using>>

BeginWork(l) ==
    /\ holder = l
    /\ l \in open
    /\ using' = using \cup {l}
    /\ UNCHANGED <<holder, open, spent>>

EndWork(l) ==
    /\ holder = l
    /\ l \in using
    /\ using' = using \ {l}
    /\ holder' = Kept(l, open, using')
    /\ UNCHANGED <<open, spent>>

EndRequest(l) ==
    /\ holder = l
    /\ l \in open
    /\ open' = open \ {l}
    /\ holder' = Kept(l, open', using)
    /\ UNCHANGED <<using, spent>>

SlotNext ==
    \E l \in Lease :
        Admit(l) \/ Waste(l) \/ BeginWork(l) \/ EndWork(l) \/ EndRequest(l)

SlotSpec == SlotInit /\ [][SlotNext]_avars

\* Work that was begun ends: the executor's thread keeps running.
FairSlotSpec == SlotSpec /\ \A l \in Lease : WF_avars(EndWork(l))
=============================================================================
