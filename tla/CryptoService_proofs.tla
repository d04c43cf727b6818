------------------------ MODULE CryptoService_proofs ------------------------
(***************************************************************************)
(* Proofs about CryptoService for any sets of jobs and short requests: the *)
(* service is a store whose other clients are the short requests, so what  *)
(* JobStore_proofs shows of the store holds of the service; and nobody is  *)
(* past admission while another's function executes.                       *)
(***************************************************************************)
EXTENDS CryptoService, JobStore_proofs

-----------------------------------------------------------------------------
(* The service implements the store.                                       *)

\* The short requests are the worker's clients besides the jobs.
LEMMA RequestIsOther ==
    /\ Request \subseteq Lease \ Job /\ Request \subseteq Call \ Job
    /\ Job \subseteq Lease /\ Job \subseteq Call
    /\ Lease = Job \cup Request
  BY ServiceAssumption, RequestAssumption, JobAssumption

\* A short request uses its own lease, through which it submits its own function, or
\* its function goes on.
LEMMA RequestUsesOwnLease ==
    ASSUME NEW r \in Request, RequestNext(r) \/ RequestThread(r)
    PROVE  ClientStep(r, {r}) \/ CallStep(r) \/ UNCHANGED workerVars
  <1>1. CASE RequestNext(r)
    BY <1>1 DEF RequestNext, Admitted, Refused, Run, Rejected, Resumed, Cancelled, Left,
       ClientStep, CallStep
  <1>2. CASE RequestThread(r)
    BY <1>2 DEF RequestThread
  <1> QED
    BY <1>1, <1>2

\* Every step of the service is a step of the store.
LEMMA ServiceUsesStore == [ServiceNext]_ServiceVars => [JobNext]_vars
  <1> SUFFICES ASSUME [ServiceNext]_ServiceVars PROVE JobNext \/ UNCHANGED vars
    OBVIOUS
  <1>1. CASE ShortRequests
    <2>1. PICK r \in Request : RequestNext(r) \/ RequestThread(r)
      BY <1>1 DEF ShortRequests
    <2>2. UNCHANGED jobVars /\ r \in Lease \ Job /\ r \in Call \ Job
      BY <1>1, <2>1, RequestIsOther DEF ShortRequests
    <2>3. ClientStep(r, {r}) => ClientStep(r, Call \ Job)
      BY <2>2 DEF ClientStep
    <2>4. CASE ClientStep(r, {r}) \/ CallStep(r)
      BY <2>2, <2>3, <2>4 DEF OtherStep, JobNext
    <2>5. CASE UNCHANGED workerVars
      BY <2>2, <2>5 DEF vars
    <2> QED
      BY <2>1, <2>4, <2>5, RequestUsesOwnLease
  <1>2. CASE Jobs
    BY <1>2 DEF Jobs, JobNext
  <1>3. CASE ExecutorStops
    BY <1>3 DEF ExecutorStops, OtherStep, JobNext
  <1>4. CASE UNCHANGED ServiceVars
    BY <1>4 DEF ServiceVars
  <1> QED
    BY <1>1, <1>2, <1>3, <1>4 DEF ServiceNext

\* The composition is an instance of the store: with the short requests of
\* CryptoAdmission as its other clients, the service does nothing JobStore does not
\* allow, so every theorem about JobSpec is one about it (api_app.py:446-527).
THEOREM ServiceImplementsStore == ServiceSpec => JobSpec
  <1>1. ServiceInit => JobInit
    BY DEF ServiceInit
  <1> QED
    BY <1>1, ServiceUsesStore, PTL DEF ServiceSpec, JobSpec

\* The invariant of the store, for every set of short requests.
LEMMA ServiceStoreInv == ServiceSpec => []StoreInv
  BY ServiceImplementsStore, StoreInvariant, PTL

\* One function at a time is on the executor's thread, of a job or of a request, and
\* its owner has the worker (api_worker.py:17, api_app.py:737-744).
THEOREM ServiceNativeExclusive == ServiceSpec => []NativeExclusive
  <1>1. JobInit => WorkerInit
    BY DEF JobInit
  <1>2. StoreInv => Closing
    BY DEF StoreInv, JobInv
  <1>3. JobSpec => WorkerSpec
    BY <1>1, <1>2, StoreUsesWorker, StoreInvariant, PTL DEF JobSpec, WorkerSpec
  <1> QED
    BY <1>3, ServiceImplementsStore, WorkerNativeExclusive, PTL

-----------------------------------------------------------------------------
(* Nobody is past admission while another's function executes.             *)

Inside == {"app", "waiting", "leaving"}

\* A request's lease is open exactly while the middleware is around its handler.
LeaseFollowsRequest ==
    \A r \in Request :
        /\ req[r] \in {"new", "refused"} => life[r] = "free"
        /\ req[r] \in Inside => life[r] = "open"
        /\ req[r] = "done" => life[r] = "closed"

\* A request's function is submitted through its own lease and nothing else is.
OwnRequestCalls == \A c \in Call : owner[c] \in Request => owner[c] = c

RequestInv == RequestTypeOK /\ LeaseFollowsRequest /\ OwnRequestCalls

\* What the steps below do to lease l and what they do to the owners.
LeaseKept(l) == life'[l] = life[l]

\* A step of a function changes no lease's life and no owner.
LEMMA CallStepKeeps ==
    ASSUME NEW c \in Call, CallStep(c) PROVE UNCHANGED <<life, owner>>
  BY DEF CallStep, CancelQueued, Start, Return, WorkFinished, leaseVars

\* A client changes the life of its own lease only, and the owner of its own call.
LEMMA ClientStepKeeps ==
    ASSUME StoreInv, NEW l \in Lease, l \in Call, ClientStep(l, {l})
    PROVE  /\ \A m \in Lease \ {l} : LeaseKept(m)
           /\ \A c \in Call : owner'[c] = owner[c] \/ (c = l /\ owner'[c] = l)
  BY DEF StoreInv, WorkerInv, WorkerTypeOK, ClientStep, Acquire, AcquireAndClose, CloseLease,
     Submit, LeaseKept, callVars

\* Steps of jobs and of the shutdown leave the requests' leases and functions alone.
LEMMA RequestInvJobs ==
    ASSUME StoreInv, RequestInv, Jobs
    PROVE  RequestInv'
  <1>0. /\ StoreInv /\ Closing /\ UNCHANGED req
        /\ Job \subseteq Lease /\ Job \subseteq Call /\ Request \subseteq Lease \ Job
    BY RequestIsOther DEF Jobs, StoreInv, JobInv
  <1>1. ASSUME \A r \in Request : LeaseKept(r),
               \A c \in Call : owner'[c] = owner[c] \/ owner'[c] \in Job
        PROVE  RequestInv'
    BY <1>0, <1>1 DEF RequestInv, RequestTypeOK, LeaseFollowsRequest, OwnRequestCalls, LeaseKept
  <1>2. ASSUME UNCHANGED <<life, owner>> PROVE RequestInv'
    BY <1>1, <1>2 DEF LeaseKept
  <1>3. UNCHANGED workerVars \/ CloseWorker => UNCHANGED <<life, owner>>
    BY DEF workerVars, leaseVars, callVars, CloseWorker
  <1>4. ASSUME NEW j \in Job, ClientStep(j, {j}) PROVE RequestInv'
    BY <1>0, <1>1, <1>4, ClientStepKeeps
  <1>5. ASSUME NEW j \in Job, JobStep(j) PROVE RequestInv'
    BY <1>0, <1>2, <1>3, <1>4, <1>5, JobUsesOwnLease, CallStepKeeps
  <1>6. CASE CloseStep
    BY <1>0, <1>2, <1>3, <1>4, <1>6, CloseUsesOwnLease DEF ClientStep
  <1> QED
    BY <1>5, <1>6 DEF Jobs

\* A step of a short request moves its lease along.
LEMMA RequestInvShort ==
    ASSUME StoreInv, RequestInv, ShortRequests
    PROVE  RequestInv'
  <1> PICK r \in Request : RequestNext(r) \/ RequestThread(r)
    BY DEF ShortRequests
  <1>0. /\ StoreInv /\ r \in Lease /\ r \in Call /\ Request \subseteq Lease
        /\ life \in [Lease -> {"free", "open", "closed"}]
        /\ req \in [Request -> {"new", "app", "waiting", "leaving", "done", "refused"}]
    BY RequestIsOther DEF StoreInv, WorkerInv, WorkerTypeOK, RequestInv, RequestTypeOK
  <1>1. OwnRequestCalls'
    BY <1>0, RequestUsesOwnLease, ClientStepKeeps, CallStepKeeps
       DEF RequestInv, OwnRequestCalls, workerVars, callVars
  <1>2. RequestTypeOK'
    BY <1>0 DEF RequestTypeOK, RequestThread, RequestNext, Admitted, Refused, Run, Rejected,
       Resumed, Cancelled, Left, Becomes
  <1>3. \A q \in Request \ {r} : LeaseKept(q) /\ req'[q] = req[q]
    <2>1. \A q \in Request \ {r} : LeaseKept(q)
      BY <1>0, RequestUsesOwnLease, ClientStepKeeps, CallStepKeeps
         DEF LeaseKept, workerVars, leaseVars
    <2>2. \A q \in Request \ {r} : req'[q] = req[q]
      BY <1>0 DEF RequestThread, RequestNext, Admitted, Refused, Run, Rejected, Resumed,
         Cancelled, Left, Becomes
    <2> QED
      BY <2>1, <2>2
  <1>4. /\ req'[r] \in {"new", "refused"} => life'[r] = "free"
        /\ req'[r] \in Inside => life'[r] = "open"
        /\ req'[r] = "done" => life'[r] = "closed"
    <2>0. /\ req[r] \in {"new", "refused"} => life[r] = "free"
          /\ req[r] \in Inside => life[r] = "open"
          /\ req[r] = "done" => life[r] = "closed"
      BY DEF RequestInv, LeaseFollowsRequest
    <2>1. CASE RequestThread(r)
      BY <1>0, <2>0, <2>1, CallStepKeeps DEF RequestThread
    <2>2. CASE Admitted(r)
      BY <1>0, <2>2 DEF Admitted, Acquire, Becomes, Inside
    <2>3. CASE Refused(r) \/ Rejected(r) \/ Resumed(r)
      BY <1>0, <2>0, <2>3 DEF Refused, Rejected, Resumed, Becomes, Inside, workerVars, leaseVars
    <2>4. CASE Run(r)
      BY <1>0, <2>0, <2>4 DEF Run, Submit, Becomes, Inside
    <2>5. CASE Cancelled(r)
      BY <1>0, <2>0, <2>5 DEF Cancelled, CancelQueued, Becomes, Inside, workerVars, leaseVars
    <2>6. CASE Left(r)
      BY <1>0, <2>6 DEF Left, CloseLease, Becomes, Inside
    <2> QED
      BY <2>1, <2>2, <2>3, <2>4, <2>5, <2>6 DEF RequestNext
  <1> QED
    BY <1>1, <1>2, <1>3, <1>4 DEF RequestInv, LeaseFollowsRequest, LeaseKept

\* A step of the service keeps the requests' part of the invariant, given the store's.
LEMMA RequestInvStep == StoreInv /\ RequestInv /\ [ServiceNext]_ServiceVars => RequestInv'
  <1> SUFFICES ASSUME StoreInv, RequestInv, [ServiceNext]_ServiceVars PROVE RequestInv'
    OBVIOUS
  <1>1. ASSUME UNCHANGED <<life, owner, req>> PROVE RequestInv'
    BY <1>1 DEF RequestInv, RequestTypeOK, LeaseFollowsRequest, OwnRequestCalls
  <1>2. CASE ExecutorStops
    BY <1>1, <1>2 DEF ExecutorStops, Drained, Joined, leaseVars, callVars
  <1>3. CASE UNCHANGED ServiceVars
    BY <1>1, <1>3 DEF ServiceVars, vars, workerVars, leaseVars, callVars
  <1> QED
    BY <1>2, <1>3, RequestInvJobs, RequestInvShort DEF ServiceNext

\* It holds at first.
LEMMA RequestInvInit == ServiceInit => RequestInv
  <1> SUFFICES ASSUME ServiceInit PROVE RequestInv
    OBVIOUS
  <1>1. /\ req = [r \in Request |-> "new"]
        /\ life = [l \in Lease |-> "free"]
        /\ owner = [c \in Call |-> NoLease]
    BY DEF ServiceInit, RequestInit, JobInit, WorkerInit
  <1> QED
    BY <1>1, RequestIsOther, LeaseAssumption
       DEF RequestInv, RequestTypeOK, LeaseFollowsRequest, OwnRequestCalls, Inside

\* The short requests, their leases and functions go together.
THEOREM RequestInvariant == ServiceSpec => []RequestInv
  BY RequestInvInit, RequestInvStep, ServiceStoreInv, PTL DEF ServiceSpec

\* While a function executes, no other short request and no job is past admission, also
\* when its own request has long gone (api_app.py:506-527, api_worker.py:42-43).
THEOREM ServiceNativeWorkAlone == ServiceSpec => []NativeWorkAlone
  <1>1. StoreInv /\ RequestInv => NativeWorkAlone
    <2> SUFFICES ASSUME StoreInv, RequestInv, NEW c \in Call, call[c] \in OnThread
                 PROVE  /\ \A r \in Request : req[r] \in Inside => r = c
                        /\ \A j \in Job : job[j].state \in Working => j = c
      BY DEF NativeWorkAlone, Inside
    <2>0. Job \subseteq Lease /\ Request \subseteq Lease /\ Lease = Job \cup Request
      BY RequestIsOther
    <2>1. owner[c] \in Lease /\ c \in Unfinished(owner[c])
      BY DEF StoreInv, WorkerInv, OwnedCalls, OnThread, Unfinished, Outstanding
    <2>2. owner[c] = c
      BY <2>0, <2>1 DEF StoreInv, JobInv, OwnCalls, RequestInv, OwnRequestCalls
    <2>3. slot = c
      BY <2>1, <2>2 DEF StoreInv, WorkerInv, AdmissionExact, Live
    <2>4. \A l \in Lease : life[l] = "open" => slot = l
      BY DEF StoreInv, WorkerInv, AdmissionExact, Live
    <2>5. \A r \in Request : req[r] \in Inside => r = c
      BY <2>0, <2>3, <2>4 DEF RequestInv, LeaseFollowsRequest
    <2>6. \A j \in Job : job[j].state \in Working => life[j] = "open"
      BY DEF StoreInv, JobInv, Coherent, Ending
    <2> QED
      BY <2>0, <2>3, <2>4, <2>5, <2>6
  <1> QED
    BY <1>1, ServiceStoreInv, RequestInvariant, PTL
=============================================================================
