---------------------------- MODULE CryptoWorker ----------------------------
(***************************************************************************)
(* The background worker of src/api_worker.py: CryptoWorker owns one       *)
(* executor thread and admits one CryptoLease at a time.  A lease keeps    *)
(* the worker until its request closed it AND every function submitted     *)
(* through it has finished, also a function whose awaiting request was     *)
(* cancelled while the thread was executing it.                            *)
(*                                                                         *)
(* Actors: the event loop (Acquire, Submit, CloseLease, CancelQueued), the *)
(* executor's thread (Start, Return, WorkFinished) and the thread that     *)
(* runs CryptoWorker.close (CloseWorker, CancelQueued, Drained, Joined).   *)
(* Every region under CryptoWorker._lock is one step.  Definitions that no *)
(* action uses (ReleaseIgnoringWork, ...) are mutated forms of the one     *)
(* after them.                                                             *)
(*                                                                         *)
(* Names carry the prefix Worker where a module that extends this one has  *)
(* an initial predicate, a next-state relation or a type of its own.       *)
(***************************************************************************)
EXTENDS Naturals, FiniteSets

CONSTANTS
    Lease,      \* CryptoLease objects; each is created by at most one acquire
    Call,       \* functions submitted to the executor; each runs at most once
    NoLease     \* the worker's _lease attribute when it is None

ASSUME LeaseAssumption == NoLease \notin Lease
ASSUME CallAssumption == IsFiniteSet(Call)

VARIABLES
    slot,       \* CryptoWorker._lease
    closed,     \* CryptoWorker._closed
    stopping,   \* progress of CryptoWorker.close
    life,       \* life[l]: whether l exists yet, and CryptoLease._closed
    pending,    \* pending[l]: CryptoLease._pending
    call,       \* call[c]: the state of the concurrent future of c
    owner       \* owner[c]: the lease that submitted c

leaseVars == <<slot, life, pending>>
callVars == <<call, owner>>
shutVars == <<closed, stopping>>
workerVars == <<leaseVars, callVars, shutVars>>

\* "returned": the thread has set the result and now runs the done callbacks;
\* "cancelled": Future.cancel succeeded and its done callbacks are still to run;
\* "settled": _work_finished has run, after which an awaiting coroutine resumes.
CallState == {"unused", "queued", "running", "returned", "cancelled", "settled"}
Outstanding == {"queued", "running", "returned", "cancelled"}
OnThread == {"running", "returned"}

WorkerTypeOK ==
    /\ slot \in Lease \cup {NoLease}
    /\ closed \in BOOLEAN
    /\ stopping \in {"no", "cancelling", "joining", "stopped"}
    /\ life \in [Lease -> {"free", "open", "closed"}]
    /\ pending \in [Lease -> Nat]
    /\ call \in [Call -> CallState]
    /\ owner \in [Call -> Lease \cup {NoLease}]

WorkerInit ==
    /\ slot = NoLease
    /\ closed = FALSE
    /\ stopping = "no"
    /\ life = [l \in Lease |-> "free"]
    /\ pending = [l \in Lease |-> 0]
    /\ call = [c \in Call |-> "unused"]
    /\ owner = [c \in Call |-> NoLease]

-----------------------------------------------------------------------------
(* Operations of the event loop.                                           *)

\* The test of acquire.
Idle == ~closed /\ slot = NoLease

\* CryptoWorker.acquire that admits.  One that refuses changes nothing.
Acquire(l) ==
    /\ Idle
    /\ life[l] = "free"
    /\ slot' = l
    /\ life' = [life EXCEPT ![l] = "open"]
    /\ UNCHANGED <<pending, callVars, shutVars>>

\* The owner of a lease just acquired cannot be built (FileJob cannot open its
\* temporary file) and gives the lease back before anything else runs.
AcquireAndClose(l) ==
    /\ Idle
    /\ life[l] = "free"
    /\ life' = [life EXCEPT ![l] = "closed"]
    /\ UNCHANGED <<slot, pending, callVars, shutVars>>

\* _release_if_finished, given the lease's new attributes.
ReleaseIgnoringWork(l, lf, pn) ==
    IF slot = l /\ lf[l] = "closed" THEN NoLease ELSE slot
ReleaseIgnoringRequest(l, lf, pn) ==
    IF slot = l /\ pn[l] = 0 THEN NoLease ELSE slot
ReleaseIfFinished(l, lf, pn) ==
    IF slot = l /\ lf[l] = "closed" /\ pn[l] = 0 THEN NoLease ELSE slot

\* The test of _submit, which raises without effect when it fails.
Accepts(l) == life[l] = "open" /\ ~closed

\* CryptoLease._submit.  An executor that refuses the function undoes the count
\* under the same lock: a step that changes nothing.
Submit(l, c) ==
    /\ Accepts(l)
    /\ call[c] = "unused"
    /\ pending' = [pending EXCEPT ![l] = @ + 1]
    /\ call' = [call EXCEPT ![c] = "queued"]
    /\ owner' = [owner EXCEPT ![c] = l]
    /\ UNCHANGED <<slot, life, shutVars>>

\* CryptoLease.close; idempotent.
CloseLease(l) ==
    /\ life[l] # "free"
    /\ life' = [life EXCEPT ![l] = "closed"]
    /\ slot' = ReleaseIfFinished(l, life', pending)
    /\ UNCHANGED <<pending, callVars, shutVars>>

\* Future.cancel succeeds only before the thread takes the function.  Cancelling
\* the wrapper asyncio.wrap_future made (run, not the shielded run_owned) does it
\* from the event loop; CryptoWorker.close does it while it empties the queue.
CancelQueued(c) ==
    /\ call[c] = "queued"
    /\ call' = [call EXCEPT ![c] = "cancelled"]
    /\ UNCHANGED <<leaseVars, owner, shutVars>>

-----------------------------------------------------------------------------
(* The executor's one thread.                                              *)

ThreadFree == \A c \in Call : call[c] \notin OnThread

Start(c) ==
    /\ ThreadFree
    /\ call[c] = "queued"
    /\ call' = [call EXCEPT ![c] = "running"]
    /\ UNCHANGED <<leaseVars, owner, shutVars>>

Return(c) ==
    /\ call[c] = "running"
    /\ call' = [call EXCEPT ![c] = "returned"]
    /\ UNCHANGED <<leaseVars, owner, shutVars>>

\* _work_finished, the done callback: on the executor's thread after a return,
\* on the canceller's thread after a cancel.  (The mutated form waits for a close
\* that keeps _lock while it joins the thread.)
WorkFinishedUnlessClosing(c) ==
    /\ ~closed
    /\ call[c] \in {"returned", "cancelled"}
    /\ call' = [call EXCEPT ![c] = "settled"]
    /\ pending' = [pending EXCEPT ![owner[c]] = @ - 1]
    /\ slot' = ReleaseIfFinished(owner[c], life, pending')
    /\ UNCHANGED <<life, owner, shutVars>>

WorkFinished(c) ==
    /\ call[c] \in {"returned", "cancelled"}
    /\ call' = [call EXCEPT ![c] = "settled"]
    /\ pending' = [pending EXCEPT ![owner[c]] = @ - 1]
    /\ slot' = ReleaseIfFinished(owner[c], life, pending')
    /\ UNCHANGED <<life, owner, shutVars>>

-----------------------------------------------------------------------------
(* CryptoWorker.close: stop admission, empty the queue, join the thread.   *)

CloseWorker ==
    /\ stopping = "no"
    /\ closed' = TRUE
    /\ stopping' = "cancelling"
    /\ UNCHANGED <<leaseVars, callVars>>

Drained ==
    /\ stopping = "cancelling"
    /\ \A c \in Call : call[c] # "queued"
    /\ stopping' = "joining"
    /\ UNCHANGED <<leaseVars, callVars, closed>>

Joined ==
    /\ stopping = "joining"
    /\ ThreadFree
    /\ stopping' = "stopped"
    /\ UNCHANGED <<leaseVars, callVars, closed>>

-----------------------------------------------------------------------------
ClientStep(l, C) ==
    \/ Acquire(l)
    \/ AcquireAndClose(l)
    \/ CloseLease(l)
    \/ \E c \in C : Submit(l, c)

CallStep(c) ==
    \/ CancelQueued(c)
    \/ Start(c)
    \/ Return(c)
    \/ WorkFinished(c)

ShutdownStep == CloseWorker \/ Drained \/ Joined

WorkerNext ==
    \/ \E l \in Lease : ClientStep(l, Call)
    \/ \E c \in Call : CallStep(c)
    \/ ShutdownStep

WorkerSpec == WorkerInit /\ [][WorkerNext]_workerVars

\* The thread takes queued functions, functions terminate, done callbacks run, and
\* close goes on once it may.  Clients are free to do nothing for ever.
WorkerFairness ==
    /\ \A c \in Call : /\ WF_workerVars(Start(c))
                       /\ WF_workerVars(Return(c))
                       /\ WF_workerVars(WorkFinished(c))
    /\ WF_workerVars(Drained)
    /\ WF_workerVars(Joined)

FairWorkerSpec == WorkerSpec /\ WorkerFairness

-----------------------------------------------------------------------------
Unfinished(l) == {c \in Call : owner[c] = l /\ call[c] \in Outstanding}

\* A lease lives while its request is open or work it submitted is outstanding.
Live(l) == life[l] = "open" \/ Unfinished(l) # {}

\* The counter the release decision rests on (api_worker.py:64-80) is exactly the
\* number of functions that were submitted and have not run their done callback,
\* over every interleaving of submits, cancels and callbacks.
PendingExact == \A l \in Lease : pending[l] = Cardinality(Unfinished(l))

\* The worker is held by l exactly while l lives: admission is neither given up
\* before a cancelled request's thread stops nor kept after everything finished,
\* and two leases never live together (api_worker.py:14, 30-33).
AdmissionExact == \A l \in Lease : slot = l <=> Live(l)

\* At most one function is on the thread, and it is the admitted lease's: native
\* code never runs for two requests at once, which is why the non-blocking lock
\* of _run_crypto_operation (api_app.py:737-744) is never contended.
NativeExclusive ==
    \A c, d \in Call :
        call[c] \in OnThread /\ call[d] \in OnThread => c = d /\ slot = owner[c]

\* CryptoWorker.close returns, also with functions queued and running when it
\* starts (api_worker.py:35-39).
WorkerCloseReturns == closed ~> stopping = "stopped"

-----------------------------------------------------------------------------
Slot == INSTANCE AdmissionSlot WITH
    holder <- slot,
    open <- {l \in Lease : life[l] = "open"},
    using <- {l \in Lease : Unfinished(l) # {}},
    spent <- {l \in Lease : life[l] # "free"}

\* The worker implements the one-slot admission it promises (api_worker.py:13-14),
\* with the executor's progress enough for work to drain.
ImplementsSlot == Slot!FairSlotSpec
=============================================================================
