---------------------------- MODULE CryptoService ----------------------------
(***************************************************************************)
(* The service of create_app: the short requests of CryptoAdmission and    *)
(* the large-file jobs of JobStore share one CryptoWorker, which the       *)
(* store's shutdown closes.                                                *)
(***************************************************************************)
EXTENDS JobStore, CryptoAdmission

ASSUME ServiceAssumption == Job \cap Request = {} /\ Lease = Job \cup Request

ServiceVars == <<vars, req>>

ServiceInit == JobInit /\ RequestInit

ShortRequests ==
    /\ \E r \in Request : RequestNext(r) \/ RequestThread(r)
    /\ UNCHANGED jobVars

Jobs ==
    /\ (\E j \in Job : JobStep(j)) \/ CloseStep
    /\ UNCHANGED req

ExecutorStops ==
    /\ Drained \/ Joined
    /\ UNCHANGED <<jobVars, req>>

ServiceNext == ShortRequests \/ Jobs \/ ExecutorStops

ServiceSpec == ServiceInit /\ [][ServiceNext]_ServiceVars

\* The executor's thread goes on.  A client may leave its request's body unsent and
\* its answer unread for ever.
FairServiceSpec == ServiceSpec /\ StoreFairness

ServiceTypeOK == JobTypeOK /\ RequestTypeOK

-----------------------------------------------------------------------------
\* While a function is on the thread, nobody but its owner is past admission: a
\* request that left its function behind still keeps the next request and the next
\* reservation out (api_app.py:506-527, api_worker.py:42-43).
NativeWorkAlone ==
    \A c \in Call : call[c] \in OnThread =>
        /\ \A r \in Request : req[r] \in {"app", "waiting", "leaving"} => r = c
        /\ \A j \in Job : job[j].state \in Working => j = c

\* A request that has left gives the worker back without anybody's help, also when
\* it left its function behind (api_app.py:525-527, api_worker.py:77-80).
LeftRequestReleases == \A r \in Request : req[r] = "done" ~> slot # r
==============================================================================
