--------------------------- MODULE CryptoAdmission ---------------------------
(***************************************************************************)
(* The short cryptographic requests of src/api_app.py: each passes         *)
(* CryptoAdmissionMiddleware, which acquires a lease before the body is    *)
(* read, and its handler runs at most one function through that lease.  A  *)
(* request may be cancelled at any await; the function then goes on.  The  *)
(* lease and the function of request r bear its name.                      *)
(***************************************************************************)
EXTENDS CryptoWorker

CONSTANT Request

ASSUME RequestAssumption == Request \subseteq Lease /\ Request \subseteq Call

\* req[r]: "app" in the handler before its function is submitted, "waiting" for the
\* function, "leaving" the handler, "done" when the middleware is, "refused" with 429.
VARIABLE req

RequestTypeOK ==
    req \in [Request -> {"new", "app", "waiting", "leaving", "done", "refused"}]

RequestInit == req = [r \in Request |-> "new"]

Becomes(r, pc) == req' = [req EXCEPT ![r] = pc]

\* CryptoAdmissionMiddleware.__call__ up to the call of the application
Admitted(r) == req[r] = "new" /\ Acquire(r) /\ Becomes(r, "app")

Refused(r) ==
    /\ req[r] = "new"
    /\ ~Idle
    /\ Becomes(r, "refused")
    /\ UNCHANGED workerVars

\* crypto_lease.run; once the worker is closed it raises instead.
Run(r) == req[r] = "app" /\ Submit(r, r) /\ Becomes(r, "waiting")

\* Any other way out of the handler before it submits: an invalid form, a body that
\* never comes to its end, a worker that was closed.
Rejected(r) ==
    /\ req[r] = "app"
    /\ Becomes(r, "leaving")
    /\ UNCHANGED workerVars

Resumed(r) ==
    /\ req[r] = "waiting"
    /\ call[r] = "settled"
    /\ Becomes(r, "leaving")
    /\ UNCHANGED workerVars

\* The waiting request is cancelled: a function still queued is cancelled with it, a
\* running one is abandoned to its thread.
Cancelled(r) ==
    /\ req[r] = "waiting"
    /\ Becomes(r, "leaving")
    /\ IF call[r] = "queued" THEN CancelQueued(r) ELSE UNCHANGED workerVars

\* The middleware's finally.
LeftWithLease(r) == req[r] = "leaving" /\ Becomes(r, "done") /\ UNCHANGED workerVars
Left(r) == req[r] = "leaving" /\ CloseLease(r) /\ Becomes(r, "done")

RequestNext(r) ==
    Admitted(r) \/ Refused(r) \/ Run(r) \/ Rejected(r)
        \/ Resumed(r) \/ Cancelled(r) \/ Left(r)

RequestThread(r) == CallStep(r) /\ UNCHANGED req
=============================================================================
