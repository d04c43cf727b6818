--------------------------- MODULE JobStore_proofs ---------------------------
(***************************************************************************)
(* Proofs about CryptoWorker for any set of leases and any finite set of   *)
(* calls, and about JobStore for any set of jobs, any other clients of the *)
(* worker and any number of start requests.                                *)
(*                                                                         *)
(* WorkerInv ties the lease counter to the calls it counts (PendingExact): *)
(* only then does the test of _release_if_finished, which reads the        *)
(* counter, decide what AdmissionExact says, which is about the calls.     *)
(***************************************************************************)
EXTENDS JobStore, FiniteSetTheorems, TLAPS

\* A function that was submitted was submitted through an existing lease.
OwnedCalls ==
    \A c \in Call :
        call[c] # "unused" => owner[c] \in Lease /\ life[owner[c]] # "free"

WorkerInv == WorkerTypeOK /\ OwnedCalls /\ PendingExact /\ AdmissionExact

-----------------------------------------------------------------------------
\* Unfinished(l) is finite, so its cardinality is zero only if it is empty.
LEMMA UnfinishedFinite ==
    ASSUME NEW l \in Lease
    PROVE  /\ IsFiniteSet(Unfinished(l))
           /\ Cardinality(Unfinished(l)) \in Nat
           /\ Cardinality(Unfinished(l)) = 0 <=> Unfinished(l) = {}
  <1>1. Unfinished(l) \in SUBSET Call
    BY DEF Unfinished
  <1>2. IsFiniteSet(Unfinished(l))
    BY <1>1, CallAssumption, FS_Subset
  <1> QED
    BY <1>2, FS_CardinalityType, FS_EmptySet

\* A step that leaves each call's owner and whether it is outstanding alone leaves
\* the unfinished calls of every lease alone.
LEMMA UnfinishedSame ==
    ASSUME \A c \in Call : /\ owner'[c] = owner[c]
                           /\ call'[c] \in Outstanding <=> call[c] \in Outstanding
    PROVE  \A l \in Lease : Unfinished(l)' = Unfinished(l)
  BY DEF Unfinished

\* Type correctness is preserved.
LEMMA WorkerTypeStep ==
    ASSUME WorkerInv, [WorkerNext]_workerVars
    PROVE  WorkerTypeOK'
  <1> USE DEF WorkerTypeOK, CallState
  <1>0. WorkerInv /\ WorkerTypeOK
    BY DEF WorkerInv
  <1>1. ASSUME NEW l \in Lease, Acquire(l) PROVE WorkerTypeOK'
    BY <1>0, <1>1 DEF Acquire, callVars, shutVars
  <1>2. ASSUME NEW l \in Lease, AcquireAndClose(l) PROVE WorkerTypeOK'
    BY <1>0, <1>2 DEF AcquireAndClose, callVars, shutVars
  <1>3. ASSUME NEW l \in Lease, CloseLease(l) PROVE WorkerTypeOK'
    BY <1>0, <1>3 DEF CloseLease, ReleaseIfFinished, callVars, shutVars
  <1>4. ASSUME NEW l \in Lease, NEW c \in Call, Submit(l, c) PROVE WorkerTypeOK'
    BY <1>0, <1>4 DEF Submit, shutVars
  <1>5. ASSUME NEW c \in Call, CancelQueued(c) PROVE WorkerTypeOK'
    BY <1>0, <1>5 DEF CancelQueued, leaseVars, shutVars
  <1>6. ASSUME NEW c \in Call, Start(c) PROVE WorkerTypeOK'
    BY <1>0, <1>6 DEF Start, leaseVars, shutVars
  <1>7. ASSUME NEW c \in Call, Return(c) PROVE WorkerTypeOK'
    BY <1>0, <1>7 DEF Return, leaseVars, shutVars
  <1>8. ASSUME NEW c \in Call, WorkFinished(c) PROVE WorkerTypeOK'
    <2>1. owner[c] \in Lease /\ call[c] \in Outstanding
      BY <1>0, <1>8 DEF WorkFinished, WorkerInv, OwnedCalls, Outstanding
    <2>2. pending[owner[c]] \in Nat /\ pending[owner[c]] # 0
      BY <2>1, <1>0, UnfinishedFinite DEF WorkerInv, PendingExact, Unfinished
    <2>3. pending[owner[c]] - 1 \in Nat
      BY <2>2
    <2> QED
      BY <1>0, <1>8, <2>1, <2>3 DEF WorkFinished, ReleaseIfFinished, shutVars
  <1>9. CASE ShutdownStep
    BY <1>0, <1>9 DEF ShutdownStep, CloseWorker, Drained, Joined, leaseVars, callVars
  <1>10. CASE UNCHANGED workerVars
    BY <1>0, <1>10 DEF workerVars, leaseVars, callVars, shutVars
  <1> QED
    BY <1>1, <1>2, <1>3, <1>4, <1>5, <1>6, <1>7, <1>8, <1>9, <1>10
       DEF WorkerNext, ClientStep, CallStep

\* What a step does to the unfinished calls: a submission adds one, a done callback
\* removes one, and no other step touches them.
LEMMA UnfinishedStep ==
    ASSUME WorkerInv, [WorkerNext]_workerVars
    PROVE  \/ \A l \in Lease : Unfinished(l)' = Unfinished(l)
           \/ \E l \in Lease, c \in Call :
                 /\ Submit(l, c)
                 /\ c \notin Unfinished(l)
                 /\ Unfinished(l)' = Unfinished(l) \cup {c}
                 /\ \A m \in Lease \ {l} : Unfinished(m)' = Unfinished(m)
           \/ \E l \in Lease, c \in Call :
                 /\ WorkFinished(c)
                 /\ owner[c] = l
                 /\ c \in Unfinished(l)
                 /\ Unfinished(l)' = Unfinished(l) \ {c}
                 /\ \A m \in Lease \ {l} : Unfinished(m)' = Unfinished(m)
  <1> USE DEF WorkerInv, WorkerTypeOK
  <1>1. ASSUME NEW l \in Lease, NEW c \in Call, Submit(l, c)
        PROVE  /\ c \notin Unfinished(l)
               /\ Unfinished(l)' = Unfinished(l) \cup {c}
               /\ \A m \in Lease \ {l} : Unfinished(m)' = Unfinished(m)
    BY <1>1 DEF Submit, Unfinished, Outstanding
  <1>2. ASSUME NEW c \in Call, WorkFinished(c)
        PROVE  \E l \in Lease :
                 /\ owner[c] = l
                 /\ c \in Unfinished(l)
                 /\ Unfinished(l)' = Unfinished(l) \ {c}
                 /\ \A m \in Lease \ {l} : Unfinished(m)' = Unfinished(m)
    BY <1>2 DEF WorkFinished, OwnedCalls, Unfinished, Outstanding
  <1>3. ASSUME NEW c \in Call, CancelQueued(c) \/ Start(c) \/ Return(c)
        PROVE  \A l \in Lease : Unfinished(l)' = Unfinished(l)
    <2>1. \A d \in Call : /\ owner'[d] = owner[d]
                          /\ call'[d] \in Outstanding <=> call[d] \in Outstanding
      BY <1>3 DEF CancelQueued, Start, Return, Outstanding
    <2> QED
      BY <2>1, UnfinishedSame
  <1>4. ASSUME UNCHANGED callVars
        PROVE  \A l \in Lease : Unfinished(l)' = Unfinished(l)
    BY <1>4 DEF callVars, Unfinished
  <1>5. ASSUME NEW l \in Lease, Acquire(l) \/ AcquireAndClose(l) \/ CloseLease(l)
        PROVE  UNCHANGED callVars
    BY <1>5 DEF Acquire, AcquireAndClose, CloseLease
  <1>6. ShutdownStep \/ UNCHANGED workerVars => UNCHANGED callVars
    BY DEF ShutdownStep, CloseWorker, Drained, Joined, workerVars
  <1> QED
    BY <1>1, <1>2, <1>3, <1>4, <1>5, <1>6 DEF WorkerNext, ClientStep, CallStep

\* The counters keep counting exactly the unfinished calls.
LEMMA PendingStep ==
    ASSUME WorkerInv, [WorkerNext]_workerVars
    PROVE  PendingExact'
  <1> USE DEF WorkerInv, WorkerTypeOK
  <1>1. CASE \A l \in Lease : Unfinished(l)' = Unfinished(l)
    <2>1. ASSUME NEW l \in Lease, NEW c \in Call, Submit(l, c) PROVE FALSE
      BY <1>1, <2>1 DEF Submit, Unfinished, Outstanding
    <2>2. ASSUME NEW c \in Call, WorkFinished(c) PROVE FALSE
      BY <1>1, <2>2 DEF WorkFinished, Unfinished, Outstanding, OwnedCalls
    <2>3. UNCHANGED pending
      BY <2>1, <2>2 DEF WorkerNext, ClientStep, CallStep, ShutdownStep, Acquire,
         AcquireAndClose, CloseLease, CancelQueued, Start, Return, CloseWorker,
         Drained, Joined, workerVars, leaseVars
    <2> QED
      BY <1>1, <2>3 DEF PendingExact
  <1>2. ASSUME NEW l \in Lease, NEW c \in Call, Submit(l, c),
               c \notin Unfinished(l),
               Unfinished(l)' = Unfinished(l) \cup {c},
               \A m \in Lease \ {l} : Unfinished(m)' = Unfinished(m)
        PROVE  PendingExact'
    <2>1. Cardinality(Unfinished(l) \cup {c}) = Cardinality(Unfinished(l)) + 1
      BY <1>2, UnfinishedFinite, FS_AddElement
    <2>2. \A m \in Lease : pending'[m] = IF m = l THEN pending[m] + 1 ELSE pending[m]
      BY <1>2 DEF Submit
    <2> QED
      BY <1>2, <2>1, <2>2 DEF PendingExact
  <1>3. ASSUME NEW l \in Lease, NEW c \in Call, WorkFinished(c), owner[c] = l,
               c \in Unfinished(l),
               Unfinished(l)' = Unfinished(l) \ {c},
               \A m \in Lease \ {l} : Unfinished(m)' = Unfinished(m)
        PROVE  PendingExact'
    <2>1. Cardinality(Unfinished(l) \ {c}) = Cardinality(Unfinished(l)) - 1
      BY <1>3, UnfinishedFinite, FS_RemoveElement
    <2>2. \A m \in Lease : pending'[m] = IF m = l THEN pending[m] - 1 ELSE pending[m]
      BY <1>3 DEF WorkFinished
    <2> QED
      BY <1>3, <2>1, <2>2 DEF PendingExact
  <1> QED
    BY <1>1, <1>2, <1>3, UnfinishedStep

\* Functions stay owned by existing leases.
LEMMA OwnedStep ==
    ASSUME WorkerInv, [WorkerNext]_workerVars
    PROVE  OwnedCalls'
  <1> USE DEF WorkerInv, WorkerTypeOK, OwnedCalls
  <1>1. ASSUME NEW l \in Lease, NEW c \in Call, Submit(l, c) PROVE OwnedCalls'
    BY <1>1 DEF Submit, Accepts
  <1>2. ASSUME NEW l \in Lease, Acquire(l) \/ AcquireAndClose(l) \/ CloseLease(l)
        PROVE  OwnedCalls'
    BY <1>2 DEF Acquire, AcquireAndClose, CloseLease, callVars
  <1>3. ASSUME NEW c \in Call, CallStep(c) PROVE OwnedCalls'
    BY <1>3 DEF CallStep, CancelQueued, Start, Return, WorkFinished, leaseVars
  <1>4. CASE ShutdownStep \/ UNCHANGED workerVars
    BY <1>4 DEF ShutdownStep, CloseWorker, Drained, Joined, workerVars, leaseVars,
       callVars
  <1> QED
    BY <1>1, <1>2, <1>3, <1>4 DEF WorkerNext, ClientStep

\* A lease lives exactly while it has the slot, after every step.
LEMMA AdmissionStep ==
    ASSUME WorkerInv, [WorkerNext]_workerVars
    PROVE  AdmissionExact'
  <1> USE DEF WorkerInv, WorkerTypeOK
  <1>0. \A l \in Lease : /\ pending[l] = 0 <=> Unfinished(l) = {}
                         /\ pending'[l] = 0 <=> Unfinished(l)' = {}
    <2>1. PendingExact /\ PendingExact'
      BY PendingStep
    <2>2. \A l \in Lease : (Cardinality(Unfinished(l)) = 0 <=> Unfinished(l) = {})'
      <3>1. \A l \in Lease : Unfinished(l)' \in SUBSET Call
        BY DEF Unfinished
      <3> QED
        BY <3>1, CallAssumption, FS_Subset, FS_EmptySet
    <2> QED
      BY <2>1, <2>2, UnfinishedFinite DEF PendingExact
  <1>1. ASSUME \A l \in Lease : Unfinished(l)' = Unfinished(l),
               NEW l \in Lease, Acquire(l)
        PROVE  AdmissionExact'
    <2>1. \A m \in Lease : ~Live(m)
      BY <1>1, LeaseAssumption DEF AdmissionExact, Acquire, Idle
    <2>2. \A m \in Lease : Live(m)' <=> m = l
      BY <2>1, <1>1 DEF Live, Acquire
    <2> QED
      BY <1>1, <2>2 DEF AdmissionExact, Acquire
  <1>2. ASSUME \A l \in Lease : Unfinished(l)' = Unfinished(l),
               NEW l \in Lease, AcquireAndClose(l)
        PROVE  AdmissionExact'
    <2>1. \A m \in Lease : Live(m)' <=> Live(m)
      BY <1>2 DEF Live, AcquireAndClose
    <2> QED
      BY <1>2, <2>1 DEF AdmissionExact, AcquireAndClose
  <1>3. ASSUME \A l \in Lease : Unfinished(l)' = Unfinished(l),
               NEW l \in Lease, CloseLease(l)
        PROVE  AdmissionExact'
    <2>1. \A m \in Lease : m # l => (Live(m)' <=> Live(m))
      BY <1>3 DEF Live, CloseLease
    <2>2. Live(l)' <=> pending[l] # 0
      BY <1>0, <1>3 DEF Live, CloseLease
    <2>3. slot' = IF slot = l /\ pending[l] = 0 THEN NoLease ELSE slot
      BY <1>3 DEF CloseLease, ReleaseIfFinished
    <2>4. slot = l => \A m \in Lease : m # l => ~Live(m)
      BY DEF AdmissionExact
    <2>5. slot # l => ~Live(l) /\ pending[l] = 0
      BY <1>0 DEF AdmissionExact, Live
    <2> QED
      BY <2>1, <2>2, <2>3, <2>4, <2>5, LeaseAssumption DEF AdmissionExact
  <1>4. ASSUME NEW l \in Lease, NEW c \in Call, Submit(l, c),
               Unfinished(l)' = Unfinished(l) \cup {c},
               \A m \in Lease \ {l} : Unfinished(m)' = Unfinished(m)
        PROVE  AdmissionExact'
    <2>1. Live(l) /\ Live(l)'
      BY <1>4 DEF Live, Submit, Accepts
    <2>2. \A m \in Lease : Live(m)' <=> Live(m)
      BY <1>4, <2>1 DEF Live, Submit
    <2> QED
      BY <1>4, <2>2 DEF AdmissionExact, Submit
  <1>5. ASSUME NEW o \in Lease, NEW c \in Call, WorkFinished(c), owner[c] = o,
               c \in Unfinished(o),
               \A m \in Lease \ {o} : Unfinished(m)' = Unfinished(m)
        PROVE  AdmissionExact'
    <2>1. slot = o /\ \A m \in Lease : m # o => ~Live(m)
      BY <1>5 DEF AdmissionExact, Live
    <2>2. \A m \in Lease : m # o => (Live(m)' <=> Live(m))
      BY <1>5 DEF Live, WorkFinished
    <2>3. Live(o)' <=> life[o] = "open" \/ pending'[o] # 0
      BY <1>0, <1>5 DEF Live, WorkFinished
    <2>4. slot' = IF life[o] = "closed" /\ pending'[o] = 0 THEN NoLease ELSE o
      BY <1>5, <2>1 DEF WorkFinished, ReleaseIfFinished
    <2>5. life[o] # "free"
      BY <1>5 DEF OwnedCalls, Unfinished, Outstanding
    <2>6. life[o] \in {"open", "closed"}
      BY <2>5, <1>5
    <2> QED
      BY <2>1, <2>2, <2>3, <2>4, <2>6, <1>5, LeaseAssumption DEF AdmissionExact
  <1>6. ASSUME \A l \in Lease : Unfinished(l)' = Unfinished(l), UNCHANGED <<slot, life>>
        PROVE  AdmissionExact'
    BY <1>6 DEF AdmissionExact, Live
  <1>7. ASSUME \A l \in Lease : Unfinished(l)' = Unfinished(l)
        PROVE  AdmissionExact'
    <2>1. ASSUME NEW l \in Lease, NEW c \in Call, Submit(l, c) PROVE FALSE
      BY <1>7, <2>1 DEF Submit, Unfinished, Outstanding
    <2>2. ASSUME NEW c \in Call, WorkFinished(c) PROVE FALSE
      BY <1>7, <2>2 DEF WorkFinished, Unfinished, Outstanding, OwnedCalls
    <2>3. ASSUME NEW c \in Call, CallStep(c) PROVE UNCHANGED <<slot, life>>
      BY <2>2, <2>3 DEF CallStep, CancelQueued, Start, Return, leaseVars
    <2>4. ShutdownStep \/ UNCHANGED workerVars => UNCHANGED <<slot, life>>
      BY DEF ShutdownStep, CloseWorker, Drained, Joined, workerVars, leaseVars
    <2> QED
      BY <1>1, <1>2, <1>3, <1>6, <1>7, <2>1, <2>3, <2>4 DEF WorkerNext, ClientStep
  <1> QED
    BY <1>4, <1>5, <1>7, UnfinishedStep

-----------------------------------------------------------------------------
\* The inductive invariant holds initially.
LEMMA WorkerInvInit == WorkerInit => WorkerInv
  <1> SUFFICES ASSUME WorkerInit PROVE WorkerInv
    OBVIOUS
  <1> USE DEF WorkerInit
  <1>1. WorkerTypeOK
    BY DEF WorkerTypeOK, CallState
  <1>2. \A l \in Lease : Unfinished(l) = {}
    BY DEF Unfinished, Outstanding
  <1>3. PendingExact
    BY <1>2, FS_EmptySet DEF PendingExact
  <1>4. AdmissionExact
    BY <1>2, LeaseAssumption DEF AdmissionExact, Live
  <1> QED
    BY <1>1, <1>3, <1>4 DEF WorkerInv, OwnedCalls

\* Every step of the worker preserves it; modules that use the worker cite this.
LEMMA WorkerInvStep == WorkerInv /\ [WorkerNext]_workerVars => WorkerInv'
  BY WorkerTypeStep, OwnedStep, PendingStep, AdmissionStep DEF WorkerInv

\* The inductive invariant, and with it type correctness (api_worker.py:16-48), for
\* every set of leases and every finite set of calls.
THEOREM WorkerInvariant == WorkerSpec => []WorkerInv
  BY WorkerInvInit, WorkerInvStep, PTL DEF WorkerSpec

\* The counter of unfinished functions is exact, over every interleaving of submits,
\* cancellations and done callbacks (api_worker.py:64-80).
THEOREM WorkerPendingExact == WorkerSpec => []PendingExact
  <1>1. WorkerInv => PendingExact
    BY DEF WorkerInv
  <1> QED
    BY <1>1, WorkerInvariant, PTL

\* Admission is held exactly while a lease lives (api_worker.py:14, 30-33).
THEOREM WorkerAdmissionExact == WorkerSpec => []AdmissionExact
  <1>1. WorkerInv => AdmissionExact
    BY DEF WorkerInv
  <1> QED
    BY <1>1, WorkerInvariant, PTL

\* Two leases never live together (api_worker.py:14).
THEOREM OneLiveLease ==
    WorkerSpec => [](\A l, m \in Lease : Live(l) /\ Live(m) => l = m)
  <1>1. WorkerInv => \A l, m \in Lease : Live(l) /\ Live(m) => l = m
    BY DEF WorkerInv, AdmissionExact
  <1> QED
    BY <1>1, WorkerInvariant, PTL

\* Type correctness, among it that no counter ever goes below zero.
THEOREM WorkerTypeCorrect == WorkerSpec => []WorkerTypeOK
  <1>1. WorkerInv => WorkerTypeOK
    BY DEF WorkerInv
  <1> QED
    BY <1>1, WorkerInvariant, PTL

-----------------------------------------------------------------------------
(* One function at a time.                                                 *)

\* The executor has one thread.
ThreadExclusive ==
    \A c, d \in Call : call[c] \in OnThread /\ call[d] \in OnThread => c = d

\* No step puts a second function on the thread.
LEMMA ThreadExclusiveStep ==
    WorkerInv /\ ThreadExclusive /\ [WorkerNext]_workerVars => ThreadExclusive'
  <1> SUFFICES ASSUME WorkerInv, ThreadExclusive, [WorkerNext]_workerVars
               PROVE  ThreadExclusive'
    OBVIOUS
  <1> USE DEF WorkerInv, WorkerTypeOK, ThreadExclusive, OnThread
  <1>1. ASSUME NEW c \in Call, Start(c) PROVE ThreadExclusive'
    BY <1>1 DEF Start, ThreadFree
  <1>2. ASSUME NEW c \in Call, CancelQueued(c) \/ Return(c) \/ WorkFinished(c)
        PROVE  ThreadExclusive'
    BY <1>2 DEF CancelQueued, Return, WorkFinished
  <1>3. ASSUME NEW l \in Lease, NEW c \in Call, Submit(l, c) PROVE ThreadExclusive'
    BY <1>3 DEF Submit
  <1>4. ASSUME UNCHANGED call PROVE ThreadExclusive'
    BY <1>4
  <1>5. ASSUME NEW l \in Lease, Acquire(l) \/ AcquireAndClose(l) \/ CloseLease(l)
        PROVE  UNCHANGED call
    BY <1>5 DEF Acquire, AcquireAndClose, CloseLease, callVars
  <1>6. ShutdownStep \/ UNCHANGED workerVars => UNCHANGED call
    BY DEF ShutdownStep, CloseWorker, Drained, Joined, workerVars, callVars
  <1> QED
    BY <1>1, <1>2, <1>3, <1>4, <1>5, <1>6 DEF WorkerNext, ClientStep, CallStep

\* At most one function is on the thread, and the lease that submitted it has the
\* worker (api_worker.py:17, api_app.py:737-744).
THEOREM WorkerNativeExclusive == WorkerSpec => []NativeExclusive
  <1>1. WorkerInit => ThreadExclusive
    BY DEF WorkerInit, ThreadExclusive, OnThread
  <1>2. WorkerInv /\ ThreadExclusive => NativeExclusive
    <2> SUFFICES ASSUME WorkerInv, ThreadExclusive, NEW c \in Call,
                        call[c] \in OnThread
                 PROVE  slot = owner[c]
      BY DEF NativeExclusive, ThreadExclusive
    <2>1. owner[c] \in Lease /\ c \in Unfinished(owner[c])
      BY DEF WorkerInv, OwnedCalls, OnThread, Unfinished, Outstanding
    <2> QED
      BY <2>1 DEF WorkerInv, AdmissionExact, Live
  <1> QED
    BY <1>1, <1>2, ThreadExclusiveStep, WorkerInvariant, PTL DEF WorkerSpec

-----------------------------------------------------------------------------
(* The worker implements the admission slot (safety).                      *)

\* A step that leaves the slot, the leases and what is unfinished alone.
LEMMA SlotStutter ==
    ASSUME UNCHANGED <<slot, life>>, \A l \in Lease : Unfinished(l)' = Unfinished(l)
    PROVE  UNCHANGED Slot!avars
  BY DEF Slot!avars

\* Every step of the worker is a step of the slot or leaves it alone.
LEMMA SlotStep ==
    WorkerInv /\ WorkerInv' /\ [WorkerNext]_workerVars => [Slot!SlotNext]_(Slot!avars)
  <1> SUFFICES ASSUME WorkerInv, WorkerInv', [WorkerNext]_workerVars
               PROVE  Slot!SlotNext \/ UNCHANGED Slot!avars
    OBVIOUS
  <1> USE DEF WorkerInv, WorkerTypeOK
  <1>1. ASSUME NEW l \in Lease, Acquire(l), \A m \in Lease : Unfinished(m)' = Unfinished(m)
        PROVE  Slot!Admit(l)
    BY <1>1 DEF Acquire, Idle, Slot!Admit
  <1>2. ASSUME NEW l \in Lease, AcquireAndClose(l),
               \A m \in Lease : Unfinished(m)' = Unfinished(m)
        PROVE  Slot!Waste(l)
    BY <1>2 DEF AcquireAndClose, Idle, Slot!Waste
  <1>3. ASSUME NEW l \in Lease, CloseLease(l),
               \A m \in Lease : Unfinished(m)' = Unfinished(m)
        PROVE  Slot!EndRequest(l) \/ UNCHANGED Slot!avars
    <2>1. CASE life[l] = "open"
      <3>1. slot = l
        BY <2>1 DEF AdmissionExact, Live
      <3>2. slot' = IF Unfinished(l) = {} THEN NoLease ELSE l
        BY <1>3, <3>1 DEF AdmissionExact, Live, CloseLease, ReleaseIfFinished
      <3> QED
        BY <1>3, <2>1, <3>1, <3>2 DEF CloseLease, Slot!EndRequest, Slot!Kept
    <2>2. CASE life[l] = "closed"
      <3>1. life' = life
        BY <1>3, <2>2 DEF CloseLease
      <3>2. \A m \in Lease : Live(m)' <=> Live(m)
        BY <1>3, <3>1 DEF Live
      <3>3. slot' = slot
        BY <1>3, <3>2 DEF AdmissionExact, CloseLease, ReleaseIfFinished
      <3> QED
        BY <1>3, <3>1, <3>3, SlotStutter
    <2> QED
      BY <1>3, <2>1, <2>2 DEF CloseLease
  <1>4. ASSUME NEW l \in Lease, NEW c \in Call, Submit(l, c),
               Unfinished(l)' = Unfinished(l) \cup {c},
               \A m \in Lease \ {l} : Unfinished(m)' = Unfinished(m)
        PROVE  Slot!BeginWork(l)
    <2>1. slot = l /\ life[l] = "open"
      BY <1>4 DEF AdmissionExact, Live, Submit, Accepts
    <2> QED
      BY <1>4, <2>1 DEF Submit, Slot!BeginWork
  <1>5. ASSUME NEW l \in Lease, NEW c \in Call, WorkFinished(c), owner[c] = l,
               c \in Unfinished(l),
               \A m \in Lease \ {l} : Unfinished(m)' = Unfinished(m)
        PROVE  Slot!EndWork(l) \/ UNCHANGED Slot!avars
    <2>1. slot = l
      BY <1>5 DEF AdmissionExact, Live
    <2>2. UNCHANGED life
      BY <1>5 DEF WorkFinished
    <2>3. CASE Unfinished(l)' = {}
      <3>1. slot' = IF life[l] = "open" THEN l ELSE NoLease
        BY <1>5, <2>1, <2>2, <2>3
           DEF AdmissionExact, Live, WorkFinished, ReleaseIfFinished
      <3> QED
        BY <1>5, <2>1, <2>2, <2>3, <3>1 DEF Slot!EndWork, Slot!Kept
    <2>4. CASE Unfinished(l)' # {}
      <3>1. slot' = l
        BY <2>4 DEF AdmissionExact, Live
      <3> QED
        BY <1>5, <2>1, <2>2, <2>4, <3>1 DEF Slot!avars
    <2> QED
      BY <2>3, <2>4
  <1>6. ASSUME \A l \in Lease : Unfinished(l)' = Unfinished(l)
        PROVE  Slot!SlotNext \/ UNCHANGED Slot!avars
    <2>1. ASSUME NEW l \in Lease, NEW c \in Call, Submit(l, c) PROVE FALSE
      BY <1>6, <2>1 DEF Submit, Unfinished, Outstanding
    <2>2. ASSUME NEW c \in Call, WorkFinished(c) PROVE FALSE
      BY <1>6, <2>2 DEF WorkFinished, Unfinished, Outstanding, OwnedCalls
    <2>3. ASSUME NEW c \in Call, CallStep(c) PROVE UNCHANGED <<slot, life>>
      BY <2>2, <2>3 DEF CallStep, CancelQueued, Start, Return, leaseVars
    <2>4. ShutdownStep \/ UNCHANGED workerVars => UNCHANGED <<slot, life>>
      BY DEF ShutdownStep, CloseWorker, Drained, Joined, workerVars, leaseVars
    <2> QED
      BY <1>1, <1>2, <1>3, <1>6, <2>1, <2>3, <2>4, SlotStutter
         DEF WorkerNext, ClientStep, Slot!SlotNext
  <1> QED
    BY <1>4, <1>5, <1>6, UnfinishedStep DEF Slot!SlotNext

\* The safety part of ImplementsSlot: what the worker does to its slot is what the
\* one-slot admission allows (api_worker.py:13-14).
THEOREM WorkerImplementsSlot == WorkerSpec => Slot!SlotSpec
  <1>1. WorkerInit => Slot!SlotInit
    BY DEF WorkerInit, Slot!SlotInit, Unfinished, Outstanding
  <1> QED
    BY <1>1, SlotStep, WorkerInvariant, PTL DEF WorkerSpec, Slot!SlotSpec

-----------------------------------------------------------------------------
\* How a job's attributes r, its coroutines c, its call k, its lease's life f and
\* whether it is the current job (cur) go together between any two steps.  The parts
\* follow the job's stages; each is preserved only together with the others.
Reserving(r, c, k, f, cur) ==
    r.state = "absent" =>
        /\ ~cur /\ f \in {"free", "closed"} /\ k = "unused"
        /\ c.up = "idle" /\ c.run = "idle" /\ ~r.cancel /\ ~r.discard
        /\ ~r.input /\ ~r.output /\ ~r.result /\ ~r.downloading
        /\ c.down = "idle"

Uploading(r, c) ==
    /\ r.state \in {"awaiting_upload", "ready"} =>
          c.up = "idle" /\ c.run = "idle" /\ ~r.cancel
    /\ r.state = "uploading" => c.up # "idle" /\ ~r.cancel
    /\ c.up # "idle" =>
          /\ c.run = "idle"
          /\ r.state = "uploading" \/ (r.state = "cancelling" /\ c.interrupt)

Running(r, c, k) ==
    /\ r.state = "running" => c.run \in {"created", "awaiting"} /\ ~r.cancel
    /\ r.state = "cancelling" =>
          r.cancel /\ (c.up # "idle" \/ c.run \in {"created", "awaiting"})
    /\ c.run \in {"created", "awaiting"} => r.state \in {"running", "cancelling"}
    /\ c.run \in {"idle", "created"} => k = "unused"
    /\ c.run = "awaiting" => k \in {"queued", "running", "returned", "settled"}
    /\ c.run = "done" => k = "settled" /\ r.state \in Ended

Processing(r, c, k) ==
    /\ k \in {"unused", "queued"} <=> c.proc = "idle"
    /\ k \in {"returned", "settled"} => c.proc \in {"ok", "cancelled", "error"}
    /\ k # "cancelled"
    /\ r.output => c.proc \notin {"idle", "entered", "verifying"}
    /\ r.result => c.proc \notin {"idle", "entered", "verifying", "streaming"}
    /\ c.proc = "verifying" => r.mode = "verify"
    /\ c.proc \in {"streaming", "rewinding"} => r.output /\ r.mode # "verify"
    /\ c.proc = "rewinding" => r.result
    /\ c.proc = "ok" /\ r.state \in Busy =>
          r.result /\ (r.output <=> r.mode # "verify")

Ending(r, c, f, cur) ==
    /\ r.state \in Working => f = "open" /\ r.input /\ cur /\ ~r.downloading
    /\ r.state \in Ended => f = "closed" /\ ~r.input
    /\ r.state \in Ended => c.run \in {"idle", "done"} /\ c.up = "idle"
    /\ r.state \in {"failed", "cancelled"} =>
          ~r.output /\ ~r.result /\ ~r.downloading
    /\ r.state = "complete" =>
          /\ cur
          /\ c.proc = "ok" /\ r.result /\ (r.output <=> r.mode # "verify")
          /\ r.cancel => r.downloading
    /\ r.discard => r.cancel /\ (cur => r.state \in Busy \/ r.downloading)

Downloading(r, c) ==
    /\ r.downloading <=> c.down # "idle"
    /\ r.downloading => r.state = "complete" /\ r.output
    /\ c.io = "input" => c.up \in {"writing", "seeking"}
    /\ c.io = "output" => c.down \in {"seeking", "reading"}

Coherent(r, c, k, f, cur) ==
    /\ Reserving(r, c, k, f, cur)
    /\ Uploading(r, c)
    /\ Running(r, c, k)
    /\ Processing(r, c, k)
    /\ Ending(r, c, f, cur)
    /\ Downloading(r, c)

\* A job's function is submitted through its own lease and nothing else is.
OwnCalls == \A c \in Call : owner[c] \in Job => owner[c] = c

\* What JobStore.close knows at each of its steps.
Closing ==
    /\ closed => closing \in {"worker", "done"}
    /\ closing \in {"upload", "task", "download"} =>
          closingJob \in Job /\ job[closingJob].discard
    /\ closing \in {"task", "download"} => co[closingJob].up = "idle"
    /\ closing = "download" => co[closingJob].run \in {"idle", "done"}
    /\ closing \in {"upload", "task", "download"} => current \in {closingJob, NoJob}
    /\ closing \in {"worker", "done"} => current = NoJob

JobInv ==
    /\ JobTypeOK
    /\ OwnCalls
    /\ \A j \in Job : Coherent(job[j], co[j], call[j], life[j], current = j)
    /\ Closing
-----------------------------------------------------------------------------
(* Jobs use the worker only through its interface.                         *)

\* Closing files closes the lease and nothing else of the worker.
LEMMA SettleWorker ==
    ASSUME NEW j \in Job, NEW r, NEW keep, Settle(j, r, keep)
    PROVE  CloseLease(j)
  BY DEF Settle

\* A cancellation closes the job's lease or leaves the worker alone.
LEMMA CancelWorker ==
    ASSUME NEW j \in Job, NEW d, Cancel(j, d)
    PROVE  CloseLease(j) \/ UNCHANGED workerVars
  BY SettleWorker DEF Cancel, CancelActive, CancelDownload, CancelUnowned

\* A job uses its own lease, through which it submits its own function, or its function
\* goes on.
LEMMA JobUsesOwnLease ==
    ASSUME NEW j \in Job, JobStep(j)
    PROVE  ClientStep(j, {j}) \/ CallStep(j) \/ UNCHANGED workerVars
  <1>1. ASSUME CloseLease(j) PROVE ClientStep(j, {j})
    BY <1>1 DEF ClientStep
  <1>2. CASE RequestStep(j)
    BY <1>2, <1>1, CancelWorker
       DEF RequestStep, Reserve, ReserveFails, GetExpired, CancelJob, ClearJob,
       UploadBegin, UploadChunk, UploadEnd, StartRequest, StartRefused, Started,
       DownloadBegin, DownloadSeek, DownloadDisconnect, ClientStep
  <1>3. CASE Expire(j) \/ Reap(j) \/ IoDone(j)
    BY <1>3, <1>1, CancelWorker DEF Expire, Reap, IoDone
  <1>4. CASE UploadStep(j) \/ DownloadStep(j)
    BY <1>4, <1>1, SettleWorker
       DEF UploadStep, UploadWritten, UploadReady, UploadFails, DownloadStep,
       DownloadNext, DownloadRead, DownloadEnd, FinishDownload
  <1>5. CASE ProcessStep(j)
    BY <1>5
       DEF ProcessStep, ProcessStart, ProcessEnter, ProcessStreamed, ProcessRewound,
       ProcessCancelled, ProcessError, ProcessReturn, ProcessFinished, CallStep
  <1>6. CASE ExecuteStep(j)
    BY <1>6, <1>1, SettleWorker DEF ExecuteStep, ExecuteBegin, ExecuteEnd, ClientStep
  <1> QED
    BY <1>2, <1>3, <1>4, <1>5, <1>6 DEF JobStep

\* A shutdown closes the lease of a job, or closes the worker.
LEMMA CloseUsesOwnLease ==
    ASSUME Closing, CloseStep
    PROVE  \/ \E j \in Job : CloseLease(j)
           \/ CloseWorker
           \/ UNCHANGED workerVars
  <1>1. CASE CloseBegin
    BY <1>1, CancelWorker DEF CloseBegin
  <1>2. CASE CloseAwaited \/ CloseEnd \/ CloseStoreWorker
    BY <1>2 DEF CloseAwaited, CloseEnd, CloseStoreWorker
  <1>3. CASE CloseJobFiles
    BY <1>3, SettleWorker DEF CloseJobFiles, Closing
  <1> QED
    BY <1>1, <1>2, <1>3 DEF CloseStep

\* Every step of the store is a step of the worker or leaves the worker alone.
LEMMA StoreUsesWorker == Closing /\ [JobNext]_vars => [WorkerNext]_workerVars
  <1> SUFFICES ASSUME Closing, [JobNext]_vars PROVE WorkerNext \/ UNCHANGED workerVars
    OBVIOUS
  <1>0. Job \subseteq Lease /\ Job \subseteq Call
    BY JobAssumption
  <1>1. ASSUME NEW j \in Job, JobStep(j) PROVE WorkerNext \/ UNCHANGED workerVars
    BY <1>0, <1>1, JobUsesOwnLease DEF WorkerNext, ClientStep
  <1>2. CASE CloseStep
    BY <1>0, <1>2, CloseUsesOwnLease DEF WorkerNext, ClientStep, ShutdownStep
  <1>3. CASE OtherStep
    BY <1>3 DEF OtherStep, WorkerNext, ClientStep, ShutdownStep
  <1>4. CASE UNCHANGED vars
    BY <1>4 DEF vars
  <1> QED
    BY <1>1, <1>2, <1>3, <1>4 DEF JobNext
-----------------------------------------------------------------------------
(* Type correctness.                                                       *)

\* The variables of the store itself.
StoreTypeOK ==
    /\ job \in [Job -> JobRecord]
    /\ co \in [Job -> CoRecord]
    /\ current \in Job \cup {NoJob}

\* close_files keeps a FileJob a FileJob.
LEMMA CloseFilesType ==
    ASSUME NEW r \in JobRecord, NEW keep \in BOOLEAN, NEW fails \in BOOLEAN
    PROVE  CloseFiles(r, keep, fails) \in JobRecord
  BY DEF CloseFiles, JobRecord, JobState

\* Ending a job keeps its record's type.
LEMMA SettleType ==
    ASSUME StoreTypeOK, NEW j \in Job, NEW r \in JobRecord, NEW keep \in BOOLEAN,
           Settle(j, r, keep)
    PROVE  job' \in [Job -> JobRecord] /\ current' \in Job \cup {NoJob}
  <1>1. CloseMayFail(r, keep) \in BOOLEAN
    BY DEF CloseMayFail, JobRecord
  <1>2. PICK fails \in BOOLEAN :
           /\ job' = [job EXCEPT ![j] = CloseFiles(r, keep, fails)]
           /\ current' \in {NoJob, current}
    BY <1>1 DEF Settle
  <1> QED
    BY <1>2, CloseFilesType DEF StoreTypeOK

\* Asking a coroutine to stop keeps the coroutines' type.
LEMMA InterruptType ==
    ASSUME StoreTypeOK, NEW j \in Job, NEW v \in BOOLEAN
    PROVE  [co EXCEPT ![j].interrupt = v] \in [Job -> CoRecord]
  <1>1. [co[j] EXCEPT !.interrupt = v] \in CoRecord
    BY DEF StoreTypeOK, CoRecord
  <1> QED
    BY <1>1 DEF StoreTypeOK

\* A cancellation keeps the types.
LEMMA CancelType ==
    ASSUME StoreTypeOK, NEW j \in Job, NEW d \in BOOLEAN, Cancel(j, d)
    PROVE  StoreTypeOK'
  <1>0. PICK r \in JobRecord : CancelActive(j, r) \/ CancelDownload(j, r)
                                  \/ CancelUnowned(j, r)
    <2>1. [job[j] EXCEPT !.cancel = TRUE, !.discard = @ \/ d] \in JobRecord
      BY DEF StoreTypeOK, JobRecord
    <2> QED
      BY <2>1 DEF Cancel
  <1>1. job[j] \in JobRecord /\ co[j] \in CoRecord
    BY DEF StoreTypeOK
  <1>2. CASE CancelActive(j, r)
    <2>1. [r EXCEPT !.state = "cancelling"] \in JobRecord
      BY DEF JobRecord, JobState
    <2>2. (co[j].interrupt \/ co[j].up # "idle") \in BOOLEAN
      OBVIOUS
    <2>3. co' = [co EXCEPT ![j].interrupt = co[j].interrupt \/ co[j].up # "idle"]
      BY <1>2 DEF CancelActive
    <2> QED
      BY <1>2, <2>1, <2>2, <2>3, InterruptType DEF CancelActive, StoreTypeOK
  <1>3. CASE CancelDownload(j, r)
    <2>1. co' = [co EXCEPT ![j].interrupt = TRUE]
      BY <1>3 DEF CancelDownload
    <2> QED
      BY <1>3, <2>1, InterruptType DEF CancelDownload, StoreTypeOK
  <1>4. CASE CancelUnowned(j, r)
    <2>1. [r EXCEPT !.state = "cancelled", !.result = FALSE] \in JobRecord
      BY DEF JobRecord, JobState
    <2> QED
      BY <1>4, <2>1, SettleType DEF CancelUnowned, StoreTypeOK
  <1> QED
    BY <1>0, <1>2, <1>3, <1>4
\* The store's variables keep their types.
LEMMA StoreTypeStep ==
    ASSUME StoreTypeOK, MaxStarts \in Nat, closing = "download" => closingJob \in Job,
           [JobNext]_vars
    PROVE  StoreTypeOK'
  <1> USE DEF StoreTypeOK
  <1>1. ASSUME NEW j \in Job, RequestStep(j) PROVE StoreTypeOK'
    <2>0. co[j] \in CoRecord /\ job[j] \in JobRecord
      OBVIOUS
    <2>1. ASSUME NEW m \in Mode, Reserve(j, m) PROVE StoreTypeOK'
      <3>1. ReservedJob(m) \in JobRecord
        BY JobAssumption DEF ReservedJob, AbsentJob, JobRecord, JobState
      <3> QED
        BY <2>1, <3>1 DEF Reserve
    <2>2. CASE ReserveFails(j)
      BY <2>2 DEF ReserveFails, jobVars, storeVars
    <2>3. CASE GetExpired(j) \/ CancelJob(j) \/ ClearJob(j)
      BY <2>3, CancelType DEF GetExpired, CancelJob, ClearJob
    <2>4. CASE UploadBegin(j)
      <3>1. [job[j] EXCEPT !.state = "uploading"] \in JobRecord
        BY <2>0 DEF JobRecord, JobState
      <3>2. [co[j] EXCEPT !.up = "receiving"] \in CoRecord
        BY <2>0 DEF CoRecord
      <3> QED
        BY <2>4, <3>1, <3>2 DEF UploadBegin
    <2>5. CASE UploadChunk(j)
      <3>1. [co[j] EXCEPT !.up = "writing", !.io = "input"] \in CoRecord
        BY <2>0 DEF CoRecord
      <3> QED
        BY <2>5, <3>1 DEF UploadChunk
    <2>6. CASE UploadEnd(j)
      <3>1. [co[j] EXCEPT !.up = "seeking", !.io = "input"] \in CoRecord
        BY <2>0 DEF CoRecord
      <3> QED
        BY <2>6, <3>1 DEF UploadEnd
    <2>7. CASE StartRequest(j)
      <3>1. [co[j] EXCEPT !.starts = @ + 1] \in CoRecord
        BY <2>0, <2>7 DEF CoRecord, StartRequest
      <3> QED
        BY <2>7, <3>1 DEF StartRequest
    <2>8. CASE StartRefused(j)
      <3>1. [co[j] EXCEPT !.starts = @ - 1] \in CoRecord
        BY <2>0, <2>8 DEF CoRecord, StartRefused
      <3> QED
        BY <2>8, <3>1 DEF StartRefused
    <2>9. CASE Started(j)
      <3>0. PICK n \in 0..MaxStarts : n = co[j].starts - 1
        BY <2>0, <2>9 DEF CoRecord, Started
      <3>1. [co[j] EXCEPT !.starts = n, !.run = "created"] \in CoRecord
        BY <2>0 DEF CoRecord
      <3>2. [job[j] EXCEPT !.state = "running"] \in JobRecord
        BY <2>0 DEF JobRecord, JobState
      <3> QED
        BY <2>9, <3>0, <3>1, <3>2 DEF Started
    <2>10. CASE DownloadBegin(j)
      <3>1. [co[j] EXCEPT !.down = "headers"] \in CoRecord
        BY <2>0 DEF CoRecord
      <3>2. [job[j] EXCEPT !.downloading = TRUE] \in JobRecord
        BY <2>0 DEF JobRecord
      <3> QED
        BY <2>10, <3>1, <3>2 DEF DownloadBegin
    <2>11. CASE DownloadSeek(j)
      <3>1. [co[j] EXCEPT !.down = "seeking", !.io = "output"] \in CoRecord
        BY <2>0 DEF CoRecord
      <3> QED
        BY <2>11, <3>1 DEF DownloadSeek
    <2>12. CASE DownloadDisconnect(j)
      BY <2>12, InterruptType DEF DownloadDisconnect
    <2> QED
      BY <1>1, <2>1, <2>2, <2>3, <2>4, <2>5, <2>6, <2>7, <2>8, <2>9, <2>10, <2>11,
         <2>12 DEF RequestStep
  <1>2. ASSUME NEW j \in Job, Expire(j) \/ Reap(j) \/ IoDone(j) PROVE StoreTypeOK'
    <2>1. CASE Expire(j)
      <3>1. [job[j] EXCEPT !.expired = TRUE] \in JobRecord
        BY DEF JobRecord
      <3> QED
        BY <2>1, <3>1 DEF Expire
    <2>2. CASE IoDone(j)
      <3>1. [co[j] EXCEPT !.io = "none"] \in CoRecord
        BY DEF CoRecord
      <3> QED
        BY <2>2, <3>1 DEF IoDone
    <2> QED
      BY <1>2, <2>1, <2>2, CancelType DEF Reap
  <1>3. ASSUME NEW j \in Job, UploadStep(j) PROVE StoreTypeOK'
    <2>0. co[j] \in CoRecord /\ job[j] \in JobRecord
      OBVIOUS
    <2>1. CASE UploadWritten(j)
      <3>1. /\ [co[j] EXCEPT !.up = "receiving"] \in CoRecord
            /\ [co[j] EXCEPT !.io = "input"] \in CoRecord
        BY <2>0 DEF CoRecord
      <3> QED
        BY <2>1, <3>1 DEF UploadWritten
    <2>2. CASE UploadReady(j)
      <3>1. [co[j] EXCEPT !.up = "idle"] \in CoRecord
        BY <2>0 DEF CoRecord
      <3>2. [job[j] EXCEPT !.state = "ready"] \in JobRecord
        BY <2>0 DEF JobRecord, JobState
      <3> QED
        BY <2>2, <3>1, <3>2 DEF UploadReady
    <2>3. CASE UploadFails(j)
      <3>1. [co[j] EXCEPT !.up = "idle", !.interrupt = FALSE] \in CoRecord
        BY <2>0 DEF CoRecord
      <3>2. [job[j] EXCEPT !.state = IF job[j].cancel THEN "cancelled" ELSE "failed"]
               \in JobRecord
        BY <2>0 DEF JobRecord, JobState
      <3> QED
        BY <2>3, <3>1, <3>2, SettleType DEF UploadFails
    <2> QED
      BY <1>3, <2>1, <2>2, <2>3 DEF UploadStep
  <1>4. ASSUME NEW j \in Job, DownloadStep(j) PROVE StoreTypeOK'
    <2>0. co[j] \in CoRecord /\ job[j] \in JobRecord
      OBVIOUS
    <2>1. CASE DownloadNext(j)
      <3>1. /\ [co[j] EXCEPT !.down = "final"] \in CoRecord
            /\ [co[j] EXCEPT !.down = "reading", !.io = "output"] \in CoRecord
        BY <2>0 DEF CoRecord
      <3> QED
        BY <2>1, <3>1 DEF DownloadNext, Read
    <2>2. CASE DownloadRead(j)
      <3>1. \A next \in {"sending", "final"} : [co[j] EXCEPT !.down = next] \in CoRecord
        BY <2>0 DEF CoRecord
      <3> QED
        BY <2>2, <3>1 DEF DownloadRead
    <2>3. CASE DownloadEnd(j)
      <3>1. [co[j] EXCEPT !.down = "idle", !.interrupt = FALSE] \in CoRecord
        BY <2>0 DEF CoRecord
      <3>2. PICK r \in JobRecord : r = [job[j] EXCEPT !.downloading = FALSE]
        BY <2>0 DEF JobRecord
      <3>3. [r EXCEPT !.state = "cancelled", !.result = FALSE] \in JobRecord
        BY DEF JobRecord, JobState
      <3> QED
        BY <2>3, <3>1, <3>2, <3>3, SettleType DEF DownloadEnd, FinishDownload
    <2> QED
      BY <1>4, <2>1, <2>2, <2>3 DEF DownloadStep
  <1>5. ASSUME NEW j \in Job, ProcessStep(j) PROVE StoreTypeOK'
    <2>0. co[j] \in CoRecord /\ job[j] \in JobRecord
      OBVIOUS
    <2>1. \A p \in {"entered", "verifying", "streaming", "rewinding", "ok",
                    "cancelled", "error"} : [co[j] EXCEPT !.proc = p] \in CoRecord
      BY <2>0 DEF CoRecord
    <2>2. /\ [job[j] EXCEPT !.output = TRUE] \in JobRecord
          /\ [job[j] EXCEPT !.result = TRUE] \in JobRecord
      BY <2>0 DEF JobRecord
    <2>3. CASE ProcessEnter(j)
      BY <2>3, <2>1, <2>2 DEF ProcessEnter
    <2>4. CASE ProcessStreamed(j)
      BY <2>4, <2>1, <2>2 DEF ProcessStreamed
    <2>5. CASE ProcessStart(j) \/ ProcessRewound(j) \/ ProcessCancelled(j)
                 \/ ProcessError(j)
      BY <2>5, <2>1 DEF ProcessStart, ProcessRewound, ProcessCancelled, ProcessError
    <2>6. CASE ProcessReturn(j) \/ ProcessFinished(j)
      BY <2>6 DEF ProcessReturn, ProcessFinished, jobVars, storeVars
    <2> QED
      BY <1>5, <2>3, <2>4, <2>5, <2>6 DEF ProcessStep
  <1>6. ASSUME NEW j \in Job, ExecuteStep(j) PROVE StoreTypeOK'
    <2>0. co[j] \in CoRecord /\ job[j] \in JobRecord
      OBVIOUS
    <2>1. \A p \in {"awaiting", "done"} : [co[j] EXCEPT !.run = p] \in CoRecord
      BY <2>0 DEF CoRecord
    <2>2. CASE ExecuteBegin(j)
      BY <2>2, <2>1 DEF ExecuteBegin
    <2>3. ASSUME NEW o \in JobState, NEW done \in BOOLEAN
          PROVE  [job[j] EXCEPT !.state = o, !.result = @ /\ done] \in JobRecord
      BY <2>0 DEF JobRecord
    <2>4. CASE ExecuteEnd(j)
      <3>1. Outcome(j) \in JobState
        BY DEF Outcome, JobState
      <3> QED
        BY <2>4, <3>1, <2>1, <2>3, SettleType DEF ExecuteEnd
    <2> QED
      BY <1>6, <2>2, <2>4 DEF ExecuteStep
  <1>7. CASE CloseStep
    <2>1. CASE CloseBegin
      BY <2>1, CancelType DEF CloseBegin, storeVars
    <2>2. CASE CloseJobFiles
      BY <2>2, SettleType DEF CloseJobFiles
    <2>3. CASE CloseAwaited \/ CloseStoreWorker \/ CloseEnd
      BY <2>3 DEF CloseAwaited, CloseStoreWorker, CloseEnd, jobVars, storeVars
    <2> QED
      BY <1>7, <2>1, <2>2, <2>3 DEF CloseStep
  <1>8. CASE OtherStep \/ UNCHANGED vars
    BY <1>8 DEF OtherStep, vars, jobVars, storeVars
  <1> QED
    BY <1>1, <1>2, <1>3, <1>4, <1>5, <1>6, <1>7, <1>8 DEF JobNext, JobStep
-----------------------------------------------------------------------------
(* How a step of one job leaves things.                                    *)

CoherentJob(j) == Coherent(job[j], co[j], call[j], life[j], current = j)

\* Nothing that another job's coherence rests on changes.
OthersKept(j) ==
    \A i \in Job \ {j} : /\ job'[i] = job[i] /\ co'[i] = co[i]
                         /\ call'[i] = call[i] /\ life'[i] = life[i]
                         /\ current' = i <=> current = i

\* What a shutdown under way relies on: a discarded job begins nothing, and no job
\* takes the store once it is closed.
ShutdownKept(j) ==
    /\ job[j].discard =>
          /\ job'[j].discard
          /\ co[j].up = "idle" => co'[j].up = "idle"
          /\ co[j].run \in {"idle", "done"} => co'[j].run \in {"idle", "done"}
    /\ current' \in {current, NoJob} \/ closing = "open"

JobStepOK(j) == CoherentJob(j)' /\ OthersKept(j) /\ ShutdownKept(j)

\* What a step of j may use.
Fit(j) ==
    /\ StoreTypeOK
    /\ CoherentJob(j)
    /\ life \in [Lease -> {"free", "open", "closed"}]
    /\ call \in [Call -> CallState]

\* What settling a job does to it and to the rest of the store.
LEMMA SettleEffect ==
    ASSUME NEW j \in Job, Fit(j), NEW r \in JobRecord, NEW keep \in BOOLEAN,
           Settle(j, r, keep)
    PROVE  /\ \E fails \in BOOLEAN : job'[j] = CloseFiles(r, keep, fails)
           /\ job'[j] \in JobRecord
           /\ current' = j <=> current = j /\ ~Forgettable(job'[j])
           /\ current' \in {current, NoJob}
           /\ life'[j] = "closed" /\ call' = call
           /\ \A i \in Job \ {j} : /\ job'[i] = job[i] /\ life'[i] = life[i]
                                   /\ current' = i <=> current = i
  <1>1. CloseMayFail(r, keep) \in BOOLEAN
    BY DEF CloseMayFail, JobRecord
  <1>2. PICK fails \in BOOLEAN :
           LET s == CloseFiles(r, keep, fails) IN
           /\ job' = [job EXCEPT ![j] = s]
           /\ current' = IF Forgettable(s) /\ current = j THEN NoJob ELSE current
    BY <1>1 DEF Settle
  <1>3. job'[j] = CloseFiles(r, keep, fails)
    BY <1>2 DEF Fit, StoreTypeOK
  <1>4. CloseLease(j)
    BY SettleWorker
  <1>5. life' = [life EXCEPT ![j] = "closed"] /\ call' = call
    BY <1>4 DEF CloseLease, callVars
  <1>6. j \in Lease /\ NoJob \notin Job /\ Job \subseteq Lease
    BY JobAssumption
  <1> QED
    BY <1>2, <1>3, <1>5, <1>6, CloseFilesType DEF Fit, StoreTypeOK

\* The end of a job's use of its files by its own coroutine, a cancellation or a
\* shutdown leaves it coherent.
LEMMA SettleOK ==
    ASSUME NEW j \in Job, Fit(j), NEW r \in JobRecord, NEW keep \in BOOLEAN,
           Settle(j, r, keep),
           r.state \in {"failed", "cancelled"}, ~keep, ~r.result, ~r.downloading,
           co'[j] \in CoRecord, co'[j].up = "idle", co'[j].down = "idle",
           co'[j].io = "none",
           \/ co'[j].run = "idle" /\ call[j] = "unused"
           \/ co'[j].run = "done" /\ call[j] = "settled",
           co'[j].proc \in {"idle", "ok", "cancelled", "error"},
           co'[j].proc = "idle" <=> call[j] = "unused",
           r.discard => r.cancel
    PROVE  CoherentJob(j)'
  <1>1. PICK fails \in BOOLEAN : job'[j] = CloseFiles(r, keep, fails)
    BY SettleEffect
  <1>2. /\ job'[j] \in JobRecord /\ life'[j] = "closed" /\ call' = call
        /\ current' = j <=> current = j /\ ~Forgettable(job'[j])
    BY SettleEffect
  <1>3. /\ job'[j].state \in {"failed", "cancelled"} /\ ~job'[j].input
        /\ ~job'[j].output /\ ~job'[j].result /\ ~job'[j].downloading
        /\ job'[j].discard = r.discard /\ job'[j].cancel = r.cancel
    BY <1>1 DEF CloseFiles, JobRecord
  <1>4. job'[j].discard => current' # j
    BY <1>2, <1>3 DEF Forgettable, Busy
  <1>5. Processing(job'[j], co'[j], call'[j])
    BY <1>2, <1>3 DEF Processing, Busy
  <1> QED
    BY <1>2, <1>3, <1>4, <1>5
       DEF CoherentJob, Coherent, Reserving, Uploading, Running, Ending, Downloading,
       Working, Ended

\* A cancellation leaves its job coherent, whatever the job was doing.
LEMMA CancelOK ==
    ASSUME NEW j \in Job, Fit(j), current = j, NEW d \in BOOLEAN, Cancel(j, d)
    PROVE  JobStepOK(j)
  <1> DEFINE r == [job[j] EXCEPT !.cancel = TRUE, !.discard = @ \/ d]
  <1>0. job[j] \in JobRecord /\ co[j] \in CoRecord
    BY DEF Fit, StoreTypeOK
  <1>1. r \in JobRecord
    BY <1>0 DEF JobRecord
  <1>2. /\ r.state = job[j].state /\ r.downloading = job[j].downloading
        /\ r.input = job[j].input /\ r.output = job[j].output /\ r.mode = job[j].mode
        /\ r.result = job[j].result /\ r.cancel
        /\ job[j].discard => r.discard
    BY <1>0 DEF JobRecord
  <1>3. Coherent(job[j], co[j], call[j], life[j], TRUE)
    BY DEF Fit, CoherentJob
  <1> HIDE DEF r
  <1>4. CASE CancelActive(j, r)
    <2>1. /\ job'[j] = [r EXCEPT !.state = "cancelling"]
          /\ co'[j] = [co[j] EXCEPT !.interrupt = co[j].interrupt \/ co[j].up # "idle"]
          /\ UNCHANGED <<call, life, current>>
      BY <1>4 DEF CancelActive, Fit, StoreTypeOK, workerVars, callVars, leaseVars
    <2>2. \A i \in Job \ {j} : job'[i] = job[i] /\ co'[i] = co[i]
      BY <1>4 DEF CancelActive
    <2>3. Coherent(job'[j], co'[j], call[j], life[j], TRUE)
      BY <1>0, <1>1, <1>2, <1>3, <1>4, <2>1
         DEF CancelActive, Coherent, Reserving, Uploading, Running, Processing, Ending,
         Downloading, Working, Ended, Busy, JobRecord, CoRecord
    <2>4. ShutdownKept(j)
      BY <1>0, <1>1, <1>2, <2>1 DEF ShutdownKept, JobRecord, CoRecord
    <2> QED
      BY <2>1, <2>2, <2>3, <2>4 DEF JobStepOK, CoherentJob, OthersKept
  <1>5. CASE CancelDownload(j, r)
    <2>1. /\ job'[j] = r
          /\ co'[j] = [co[j] EXCEPT !.interrupt = TRUE]
          /\ UNCHANGED <<call, life, current>>
      BY <1>5 DEF CancelDownload, Fit, StoreTypeOK, workerVars, callVars, leaseVars
    <2>2. \A i \in Job \ {j} : job'[i] = job[i] /\ co'[i] = co[i]
      BY <1>5 DEF CancelDownload
    <2>3. Coherent(job'[j], co'[j], call[j], life[j], TRUE)
      BY <1>0, <1>1, <1>2, <1>3, <1>5, <2>1
         DEF CancelDownload, Coherent, Reserving, Uploading, Running, Processing,
         Ending, Downloading, Working, Ended, Busy, CoRecord
    <2>4. ShutdownKept(j)
      BY <1>0, <1>1, <1>2, <2>1 DEF ShutdownKept, CoRecord
    <2> QED
      BY <2>1, <2>2, <2>3, <2>4 DEF JobStepOK, CoherentJob, OthersKept
  <1>6. CASE CancelUnowned(j, r)
    <2> DEFINE s == [r EXCEPT !.state = "cancelled", !.result = FALSE]
    <2>1. /\ s \in JobRecord /\ s.state = "cancelled" /\ ~s.result
          /\ ~s.downloading /\ s.cancel /\ s.discard = r.discard
      BY <1>1, <1>2, <1>6 DEF CancelUnowned, JobRecord, JobState
    <2>2. Settle(j, s, FALSE) /\ co' = co
      BY <1>6 DEF CancelUnowned
    <2> HIDE DEF s
    <2>3. /\ co[j].up = "idle" /\ co[j].down = "idle" /\ co[j].io = "none"
          /\ \/ co[j].run = "idle" /\ call[j] = "unused"
             \/ co[j].run = "done" /\ call[j] = "settled"
          /\ co[j].proc \in {"idle", "ok", "cancelled", "error"}
          /\ co[j].proc = "idle" <=> call[j] = "unused"
      BY <1>0, <1>2, <1>3, <1>6
         DEF CancelUnowned, Coherent, Uploading, Running, Processing, Ending,
         Downloading, Ended, Busy, JobRecord, JobState, CoRecord, Reserving
    <2>4. CoherentJob(j)'
      BY <1>0, <2>1, <2>2, <2>3, SettleOK
    <2>5. OthersKept(j) /\ current' \in {current, NoJob}
      BY ZenonT(40), <2>1, <2>2, SettleEffect DEF OthersKept
    <2>6. job[j].discard => job'[j].discard
      <3>1. PICK fails \in BOOLEAN : job'[j] = CloseFiles(s, FALSE, fails)
        BY <2>1, <2>2, SettleEffect
      <3> QED
        BY <3>1, <1>2, <2>1 DEF CloseFiles, JobRecord
    <2> QED
      BY <2>2, <2>4, <2>5, <2>6 DEF JobStepOK, ShutdownKept
  <1> QED
    BY <1>4, <1>5, <1>6 DEF Cancel, r

\* A step that changes only the job's attributes and coroutines.
LEMMA QuietStep ==
    ASSUME NEW j \in Job, Fit(j), NEW r, NEW c,
           job' = [job EXCEPT ![j] = r], co' = [co EXCEPT ![j] = c],
           UNCHANGED <<workerVars, current>>,
           Coherent(r, c, call[j], life[j], current = j),
           job[j].discard => /\ r.discard
                             /\ co[j].up = "idle" => c.up = "idle"
                             /\ co[j].run \in {"idle", "done"} =>
                                   c.run \in {"idle", "done"}
    PROVE  JobStepOK(j)
  <1>1. job'[j] = r /\ co'[j] = c
    BY DEF Fit, StoreTypeOK
  <1>2. \A i \in Job \ {j} : job'[i] = job[i] /\ co'[i] = co[i]
    OBVIOUS
  <1>3. UNCHANGED <<call, life, current>>
    BY DEF workerVars, callVars, leaseVars
  <1> QED
    BY <1>1, <1>2, <1>3 DEF JobStepOK, CoherentJob, OthersKept, ShutdownKept

\* A reservation makes its job coherent.
LEMMA ReserveOK ==
    ASSUME NEW j \in Job, Fit(j), NEW m \in Mode, Reserve(j, m)
    PROVE  JobStepOK(j)
  <1>0. job[j] \in JobRecord /\ co[j] \in CoRecord /\ j \in Lease /\ j # NoJob
    BY JobAssumption DEF Fit, StoreTypeOK
  <1>1. job[j].state = "absent"
    BY <1>0 DEF Reserve, Acquire, Fit, CoherentJob, Coherent, Ending, Working, Ended,
       JobRecord, JobState
  <1>2. /\ job'[j] = ReservedJob(m) /\ co' = co /\ call' = call
        /\ life'[j] = "open" /\ current' = j
    BY <1>0 DEF Reserve, Acquire, Fit, StoreTypeOK, callVars
  <1>3. OthersKept(j)
    BY JobAssumption DEF Reserve, Acquire, OthersKept, Fit, StoreTypeOK, callVars
  <1>4. CoherentJob(j)'
    BY <1>0, <1>1, <1>2
       DEF ReservedJob, AbsentJob, Fit, CoherentJob, Coherent, Reserving, Uploading,
       Running, Processing, Ending, Downloading, Working, Ended, Busy, CoRecord
  <1>5. ShutdownKept(j)
    BY <1>1 DEF Reserve, ShutdownKept, Fit, CoherentJob, Coherent, Reserving
  <1> QED
    BY <1>3, <1>4, <1>5 DEF JobStepOK

\* A reservation that fails leaves its job coherent.
LEMMA ReserveFailsOK ==
    ASSUME NEW j \in Job, Fit(j), ReserveFails(j)
    PROVE  JobStepOK(j)
  <1>0. job[j] \in JobRecord /\ co[j] \in CoRecord /\ j \in Lease
    BY JobAssumption DEF Fit, StoreTypeOK
  <1>1. job[j].state = "absent"
    BY <1>0 DEF ReserveFails, AcquireAndClose, Fit, CoherentJob, Coherent, Ending,
       Working, Ended, JobRecord, JobState
  <1>2. UNCHANGED <<job, co, current, call>> /\ life'[j] = "closed"
    BY <1>0 DEF ReserveFails, AcquireAndClose, Fit, jobVars, storeVars, callVars
  <1>3. \A i \in Job \ {j} : life'[i] = life[i]
    BY JobAssumption DEF ReserveFails, AcquireAndClose, Fit
  <1>4. CoherentJob(j)'
    BY <1>0, <1>1, <1>2
       DEF Fit, CoherentJob, Coherent, Reserving, Uploading, Running, Processing,
       Ending, Downloading, Working, Ended, Busy
  <1> QED
    BY <1>2, <1>3, <1>4 DEF JobStepOK, OthersKept, ShutdownKept

\* The steps of an upload up to its end or failure.
LEMMA UploadOK ==
    ASSUME NEW j \in Job, Fit(j),
           \/ UploadBegin(j) \/ UploadChunk(j) \/ UploadEnd(j)
           \/ UploadWritten(j) \/ UploadReady(j)
    PROVE  JobStepOK(j)
  <1>0. job[j] \in JobRecord /\ co[j] \in CoRecord
    BY DEF Fit, StoreTypeOK
  <1>1. Coherent(job[j], co[j], call[j], life[j], current = j)
    BY DEF Fit, CoherentJob
  <1>2. job = [job EXCEPT ![j] = job[j]]
    BY DEF Fit, StoreTypeOK
  <1> USE DEF Coherent, Reserving, Uploading, Running, Processing, Ending, Downloading,
              Working, Ended, Busy
  <1>3. CASE UploadBegin(j)
    <2> DEFINE r == [job[j] EXCEPT !.state = "uploading"]
               c == [co[j] EXCEPT !.up = "receiving"]
    <2>1. Coherent(r, c, call[j], life[j], current = j) /\ ~job[j].discard
      BY <1>0, <1>1, <1>3 DEF UploadBegin, Found, JobRecord, CoRecord
    <2> QED
      BY <1>3, <2>1, QuietStep DEF UploadBegin
  <1>4. CASE UploadChunk(j)
    <2> DEFINE c == [co[j] EXCEPT !.up = "writing", !.io = "input"]
    <2>1. /\ Coherent(job[j], c, call[j], life[j], current = j)
          /\ co[j].up # "idle" /\ c.run = co[j].run
      BY <1>0, <1>1, <1>4 DEF UploadChunk, Receiving, CoRecord
    <2>2. co' = [co EXCEPT ![j] = c]
      BY <1>0, <1>4 DEF UploadChunk
    <2>3. job' = [job EXCEPT ![j] = job[j]] /\ UNCHANGED <<workerVars, current>>
      BY <1>2, <1>4 DEF UploadChunk
    <2> HIDE DEF c, Coherent
    <2> QED
      BY <2>1, <2>2, <2>3, QuietStep
  <1>5. CASE UploadEnd(j)
    <2> DEFINE c == [co[j] EXCEPT !.up = "seeking", !.io = "input"]
    <2>1. /\ Coherent(job[j], c, call[j], life[j], current = j)
          /\ co[j].up # "idle" /\ c.run = co[j].run
      BY <1>0, <1>1, <1>5 DEF UploadEnd, Receiving, CoRecord
    <2>2. co' = [co EXCEPT ![j] = c]
      BY <1>0, <1>5 DEF UploadEnd
    <2>3. job' = [job EXCEPT ![j] = job[j]] /\ UNCHANGED <<workerVars, current>>
      BY <1>2, <1>5 DEF UploadEnd
    <2> HIDE DEF c, Coherent
    <2> QED
      BY <2>1, <2>2, <2>3, QuietStep
  <1>6. CASE UploadWritten(j)
    <2>1. ASSUME NEW c \in {[co[j] EXCEPT !.up = "receiving"],
                            [co[j] EXCEPT !.io = "input"]}
          PROVE  /\ Coherent(job[j], c, call[j], life[j], current = j)
                 /\ co[j].up # "idle" /\ c.run = co[j].run
      BY <1>0, <1>1, <1>6, <2>1 DEF UploadWritten, UploadResumed, CoRecord
    <2>2. PICK c \in {[co[j] EXCEPT !.up = "receiving"], [co[j] EXCEPT !.io = "input"]} :
             co' = [co EXCEPT ![j] = c]
      BY <1>6 DEF UploadWritten
    <2> QED
      BY <1>2, <1>6, <2>1, <2>2, QuietStep DEF UploadWritten
  <1>7. CASE UploadReady(j)
    <2> DEFINE r == [job[j] EXCEPT !.state = "ready"]
               c == [co[j] EXCEPT !.up = "idle"]
    <2>1. /\ Coherent(r, c, call[j], life[j], current = j)
          /\ c.up = "idle" /\ c.run = co[j].run /\ r.discard = job[j].discard
      BY <1>0, <1>1, <1>7 DEF UploadReady, UploadResumed, JobRecord, CoRecord
    <2> QED
      BY <1>7, <2>1, QuietStep DEF UploadReady
  <1> QED
    BY <1>3, <1>4, <1>5, <1>6, <1>7

\* A step that also moves the job's function on.
LEMMA CallChange ==
    ASSUME NEW j \in Job, Fit(j), NEW c, NEW k,
           job' = job, co' = [co EXCEPT ![j] = c], call' = [call EXCEPT ![j] = k],
           UNCHANGED <<life, current>>,
           Coherent(job[j], c, k, life[j], current = j),
           c.up = co[j].up,
           co[j].run \in {"idle", "done"} => c.run \in {"idle", "done"}
    PROVE  JobStepOK(j)
  <1>1. co'[j] = c /\ call'[j] = k
    BY JobAssumption DEF Fit, StoreTypeOK
  <1>2. \A i \in Job \ {j} : co'[i] = co[i] /\ call'[i] = call[i]
    BY JobAssumption DEF Fit
  <1>3. UNCHANGED <<job, life, current>>
    OBVIOUS
  <1>4. CoherentJob(j)'
    BY <1>1, <1>3 DEF CoherentJob
  <1> QED
    BY <1>1, <1>2, <1>3, <1>4 DEF JobStepOK, OthersKept, ShutdownKept

\* An upload that fails or is cancelled.
LEMMA UploadFailsOK ==
    ASSUME NEW j \in Job, Fit(j), UploadFails(j)
    PROVE  JobStepOK(j)
  <1> DEFINE s == IF job[j].cancel THEN "cancelled" ELSE "failed"
             r == [job[j] EXCEPT !.state = s]
  <1>0. job[j] \in JobRecord /\ co[j] \in CoRecord
    BY DEF Fit, StoreTypeOK
  <1>1. Coherent(job[j], co[j], call[j], life[j], current = j)
    BY DEF Fit, CoherentJob
  <1>2. /\ co'[j] = [co[j] EXCEPT !.up = "idle", !.interrupt = FALSE]
        /\ \A i \in Job \ {j} : co'[i] = co[i]
    <2>1. co' = [co EXCEPT ![j] = [co[j] EXCEPT !.up = "idle", !.interrupt = FALSE]]
      BY <1>0 DEF UploadFails
    <2> QED
      BY <2>1 DEF Fit, StoreTypeOK
  <1>4. Settle(j, r, FALSE)
    BY DEF UploadFails
  <1>5. /\ co[j].up # "idle" /\ co[j].run = "idle" /\ call[j] = "unused"
        /\ job[j].state \in {"uploading", "cancelling"}
    BY <1>0, <1>1 DEF UploadFails, UploadResumed, Coherent, Uploading, Running
  <1>6. /\ r \in JobRecord /\ r.state \in {"cancelled", "failed"}
        /\ r.result = job[j].result /\ r.downloading = job[j].downloading
        /\ r.discard = job[j].discard /\ r.cancel = job[j].cancel
    BY <1>0 DEF JobRecord, JobState
  <1>7. /\ ~job[j].downloading /\ ~job[j].result
        /\ co[j].down = "idle" /\ co[j].proc = "idle"
    BY <1>1, <1>5 DEF Coherent, Processing, Ending, Downloading, Working
  <1>8. co[j].io = "none"
    BY <1>0, <1>1, <1>7 DEF UploadFails, UploadResumed, Coherent, Downloading, CoRecord
  <1>9. /\ co'[j] \in CoRecord /\ co'[j].up = "idle" /\ co'[j].down = "idle"
        /\ co'[j].io = "none" /\ co'[j].run = "idle" /\ co'[j].proc = "idle"
    BY <1>0, <1>2, <1>5, <1>7, <1>8 DEF CoRecord
  <1> HIDE DEF r
  <1>10. r.discard => r.cancel
    BY <1>1, <1>6 DEF Coherent, Ending
  <1>11. PICK fails \in BOOLEAN : job'[j] = CloseFiles(r, FALSE, fails)
    BY <1>4, <1>6, SettleEffect
  <1>12. job'[j].discard = r.discard
    BY <1>6, <1>11 DEF CloseFiles, JobRecord
  <1>13. /\ call' = call /\ current' \in {current, NoJob}
         /\ \A i \in Job \ {j} : /\ job'[i] = job[i] /\ life'[i] = life[i]
                                 /\ current' = i <=> current = i
    BY <1>4, <1>6, SettleEffect
  <1>14. CoherentJob(j)'
    BY <1>4, <1>5, <1>6, <1>7, <1>9, <1>10, SettleOK
  <1> QED
    BY <1>2, <1>5, <1>6, <1>9, <1>12, <1>13, <1>14
       DEF JobStepOK, OthersKept, ShutdownKept

\* The deadline, a thread's file operation, start requests, and the responses that a
\* client leaves.
LEMMA RequestOK ==
    ASSUME NEW j \in Job, Fit(j),
           \/ Expire(j) \/ IoDone(j) \/ StartRequest(j) \/ StartRefused(j)
           \/ Started(j) \/ DownloadDisconnect(j)
    PROVE  JobStepOK(j)
  <1>0. job[j] \in JobRecord /\ co[j] \in CoRecord
    BY DEF Fit, StoreTypeOK
  <1>1. Coherent(job[j], co[j], call[j], life[j], current = j)
    BY DEF Fit, CoherentJob
  <1>2. job = [job EXCEPT ![j] = job[j]] /\ co = [co EXCEPT ![j] = co[j]]
    BY DEF Fit, StoreTypeOK
  <1> USE DEF Coherent, Reserving, Uploading, Running, Processing, Ending, Downloading,
              Working, Ended, Busy
  <1>3. CASE Expire(j)
    <2> DEFINE r == [job[j] EXCEPT !.expired = TRUE]
    <2>1. /\ Coherent(r, co[j], call[j], life[j], current = j)
          /\ r.discard = job[j].discard
      BY <1>0, <1>1 DEF JobRecord
    <2>2. /\ job' = [job EXCEPT ![j] = r] /\ co' = [co EXCEPT ![j] = co[j]]
          /\ UNCHANGED <<workerVars, current>>
      BY <1>2, <1>3 DEF Expire
    <2> HIDE DEF r, Coherent
    <2> QED
      BY <2>1, <2>2, QuietStep
  <1>4. ASSUME NEW c, job' = job, co' = [co EXCEPT ![j] = c],
               UNCHANGED <<workerVars, current>>,
               c.up = co[j].up, c.run = co[j].run, c.proc = co[j].proc,
               c.down = co[j].down, c.io \in {co[j].io, "none"},
               co[j].interrupt => c.interrupt
        PROVE  JobStepOK(j)
    <2>1. Coherent(job[j], c, call[j], life[j], current = j)
      BY <1>1, <1>4
    <2>2. job' = [job EXCEPT ![j] = job[j]]
      BY <1>2, <1>4
    <2> HIDE DEF Coherent
    <2> QED
      BY <1>4, <2>1, <2>2, QuietStep
  <1>5. CASE IoDone(j)
    <2> DEFINE c == [co[j] EXCEPT !.io = "none"]
    <2>1. /\ c.up = co[j].up /\ c.run = co[j].run /\ c.proc = co[j].proc
          /\ c.down = co[j].down /\ c.io = "none" /\ c.interrupt = co[j].interrupt
      BY <1>0 DEF CoRecord
    <2> HIDE DEF c
    <2> QED
      BY <1>4, <1>5, <2>1 DEF IoDone, c
  <1>6. CASE StartRequest(j) \/ StartRefused(j)
    <2>1. PICK n : co' = [co EXCEPT ![j] = [co[j] EXCEPT !.starts = n]]
      BY <1>6 DEF StartRequest, StartRefused
    <2> DEFINE c == [co[j] EXCEPT !.starts = n]
    <2>2. /\ c.up = co[j].up /\ c.run = co[j].run /\ c.proc = co[j].proc
          /\ c.down = co[j].down /\ c.io = co[j].io /\ c.interrupt = co[j].interrupt
      BY <1>0 DEF CoRecord
    <2>3. UNCHANGED <<job, workerVars, current>>
      BY <1>6 DEF StartRequest, StartRefused
    <2>4. co' = [co EXCEPT ![j] = c]
      BY <2>1
    <2> HIDE DEF c
    <2> QED
      BY <1>4, <2>2, <2>3, <2>4
  <1>7. CASE DownloadDisconnect(j)
    <2> DEFINE c == [co[j] EXCEPT !.interrupt = TRUE]
    <2>1. /\ c.up = co[j].up /\ c.run = co[j].run /\ c.proc = co[j].proc
          /\ c.down = co[j].down /\ c.io = co[j].io /\ c.interrupt
      BY <1>0 DEF CoRecord
    <2> HIDE DEF c
    <2> QED
      BY <1>4, <1>7, <2>1 DEF DownloadDisconnect, c
  <1>8. CASE Started(j)
    <2> DEFINE r == [job[j] EXCEPT !.state = "running"]
               c == [co[j] EXCEPT !.starts = co[j].starts - 1, !.run = "created"]
    <2>1. Coherent(r, c, call[j], life[j], current = j) /\ ~job[j].discard
      BY <1>0, <1>1, <1>8 DEF Started, Startable, JobRecord, CoRecord
    <2>2. co' = [co EXCEPT ![j] = c]
      BY <1>0, <1>8 DEF Started
    <2>3. job' = [job EXCEPT ![j] = r] /\ UNCHANGED <<workerVars, current>>
      BY <1>8 DEF Started
    <2> HIDE DEF r, c, Coherent
    <2> QED
      BY <2>1, <2>2, <2>3, QuietStep
  <1> QED
    BY <1>3, <1>5, <1>6, <1>7, <1>8

\* The task of _execute begins, and _process runs on the executor's thread.
LEMMA ProcessOK ==
    ASSUME NEW j \in Job, Fit(j), ExecuteBegin(j) \/ ProcessStep(j)
    PROVE  JobStepOK(j)
  <1>0. job[j] \in JobRecord /\ co[j] \in CoRecord /\ call[j] \in CallState
    BY JobAssumption DEF Fit, StoreTypeOK
  <1>1. Coherent(job[j], co[j], call[j], life[j], current = j)
    BY DEF Fit, CoherentJob
  <1>2. job = [job EXCEPT ![j] = job[j]] /\ co = [co EXCEPT ![j] = co[j]]
    BY DEF Fit, StoreTypeOK
  <1> USE DEF Coherent, Reserving, Uploading, Running, Processing, Ending, Downloading,
              Working, Ended, Busy
  <1>3. CASE ExecuteBegin(j)
    <2> DEFINE c == [co[j] EXCEPT !.run = "awaiting"]
    <2>1. /\ Coherent(job[j], c, "queued", life[j], current = j)
          /\ c.up = co[j].up /\ co[j].run = "created"
      BY <1>0, <1>1, <1>3 DEF ExecuteBegin, Submit, CoRecord
    <2>2. co' = [co EXCEPT ![j] = c] /\ call' = [call EXCEPT ![j] = "queued"]
      BY <1>3 DEF ExecuteBegin, Submit
    <2>3. UNCHANGED <<job, life, current>>
      BY <1>3 DEF ExecuteBegin, Submit
    <2> HIDE DEF c, Coherent
    <2> QED
      BY <2>1, <2>2, <2>3, CallChange
  <1>4. CASE ProcessStart(j)
    <2> DEFINE c == [co[j] EXCEPT !.proc = "entered"]
    <2>1. /\ Coherent(job[j], c, "running", life[j], current = j)
          /\ c.up = co[j].up /\ c.run = co[j].run
      BY <1>0, <1>1, <1>4 DEF ProcessStart, Start, CoRecord
    <2>2. co' = [co EXCEPT ![j] = c] /\ call' = [call EXCEPT ![j] = "running"]
      BY <1>4 DEF ProcessStart, Start
    <2>3. UNCHANGED <<job, life, current>>
      BY <1>4 DEF ProcessStart, Start, leaseVars
    <2> HIDE DEF c, Coherent
    <2> QED
      BY <2>1, <2>2, <2>3, CallChange
  <1>5. CASE ProcessReturn(j)
    <2>1. Coherent(job[j], co[j], "returned", life[j], current = j)
      BY <1>0, <1>1, <1>5 DEF ProcessReturn, Return, CoRecord
    <2>2. co' = [co EXCEPT ![j] = co[j]] /\ call' = [call EXCEPT ![j] = "returned"]
      BY <1>2, <1>5 DEF ProcessReturn, Return, jobVars, storeVars
    <2>3. UNCHANGED <<job, life, current>>
      BY <1>5 DEF ProcessReturn, Return, leaseVars, jobVars, storeVars
    <2> HIDE DEF Coherent
    <2> QED
      BY <2>1, <2>2, <2>3, CallChange
  <1>6. CASE ProcessFinished(j)
    <2>1. Coherent(job[j], co[j], "settled", life[j], current = j)
      BY <1>0, <1>1, <1>6 DEF ProcessFinished, WorkFinished, CoRecord
    <2>2. co' = [co EXCEPT ![j] = co[j]] /\ call' = [call EXCEPT ![j] = "settled"]
      BY <1>2, <1>6 DEF ProcessFinished, WorkFinished, jobVars, storeVars
    <2>3. UNCHANGED <<job, life, current>>
      BY <1>6 DEF ProcessFinished, WorkFinished, jobVars, storeVars
    <2> HIDE DEF Coherent
    <2> QED
      BY <2>1, <2>2, <2>3, CallChange
  <1>7. ASSUME NEW r, NEW p, Coherent(r, [co[j] EXCEPT !.proc = p], call[j], life[j],
                                      current = j),
               job' = [job EXCEPT ![j] = r],
               co' = [co EXCEPT ![j] = [co[j] EXCEPT !.proc = p]],
               UNCHANGED <<workerVars, current>>, job[j].discard => r.discard
        PROVE  JobStepOK(j)
    <2> DEFINE c == [co[j] EXCEPT !.proc = p]
    <2>1. c.up = co[j].up /\ c.run = co[j].run
      BY <1>0 DEF CoRecord
    <2>2. Coherent(r, c, call[j], life[j], current = j) /\ co' = [co EXCEPT ![j] = c]
      BY <1>7
    <2> HIDE DEF c, Coherent
    <2> QED
      BY <1>7, <2>1, <2>2, QuietStep
  <1>8. CASE ProcessEnter(j)
    <2>1. CASE job[j].mode = "verify"
      <3>1. Coherent(job[j], [co[j] EXCEPT !.proc = "verifying"], call[j], life[j],
                     current = j)
        BY <1>0, <1>1, <1>8, <2>1 DEF ProcessEnter, CoRecord, CallState
      <3>2. /\ job' = [job EXCEPT ![j] = job[j]]
            /\ co' = [co EXCEPT ![j] = [co[j] EXCEPT !.proc = "verifying"]]
            /\ UNCHANGED <<workerVars, current>>
        BY <1>2, <1>8, <2>1 DEF ProcessEnter
      <3> HIDE DEF Coherent
      <3> QED
        BY <1>7, <3>1, <3>2
    <2>2. CASE job[j].mode # "verify"
      <3> DEFINE r == [job[j] EXCEPT !.output = TRUE]
      <3>1. /\ Coherent(r, [co[j] EXCEPT !.proc = "streaming"], call[j], life[j],
                        current = j)
            /\ r.discard = job[j].discard
        BY <1>0, <1>1, <1>8, <2>2 DEF ProcessEnter, CoRecord, JobRecord, CallState
      <3>2. /\ job' = [job EXCEPT ![j] = r]
            /\ co' = [co EXCEPT ![j] = [co[j] EXCEPT !.proc = "streaming"]]
            /\ UNCHANGED <<workerVars, current>>
        BY <1>8, <2>2 DEF ProcessEnter
      <3> HIDE DEF r, Coherent
      <3> QED
        BY <1>7, <3>1, <3>2
    <2> QED
      BY <2>1, <2>2
  <1>9. CASE ProcessStreamed(j)
    <2> DEFINE r == [job[j] EXCEPT !.result = TRUE]
               p == IF co[j].proc = "verifying" THEN "ok" ELSE "rewinding"
    <2>1. /\ Coherent(r, [co[j] EXCEPT !.proc = p], call[j], life[j], current = j)
          /\ r.discard = job[j].discard
      BY <1>0, <1>1, <1>9 DEF ProcessStreamed, CoRecord, JobRecord, CallState
    <2>2. /\ job' = [job EXCEPT ![j] = r]
          /\ co' = [co EXCEPT ![j] = [co[j] EXCEPT !.proc = p]]
          /\ UNCHANGED <<workerVars, current>>
      BY <1>9 DEF ProcessStreamed
    <2> HIDE DEF r, p, Coherent
    <2> QED
      BY <1>7, <2>1, <2>2
  <1>10. CASE ProcessRewound(j) \/ ProcessCancelled(j) \/ ProcessError(j)
    <2>1. PICK p \in {"ok", "cancelled", "error"} :
             /\ co' = [co EXCEPT ![j] = [co[j] EXCEPT !.proc = p]]
             /\ co[j].proc \in {"entered", "verifying", "streaming", "rewinding"}
             /\ p = "ok" => co[j].proc = "rewinding"
      BY <1>10 DEF ProcessRewound, ProcessCancelled, ProcessError
    <2>2. Coherent(job[j], [co[j] EXCEPT !.proc = p], call[j], life[j], current = j)
      BY <1>0, <1>1, <2>1 DEF CoRecord, CallState
    <2>3. job' = [job EXCEPT ![j] = job[j]] /\ UNCHANGED <<workerVars, current>>
      BY <1>2, <1>10 DEF ProcessRewound, ProcessCancelled, ProcessError
    <2> HIDE DEF Coherent
    <2> QED
      BY <1>7, <2>1, <2>2, <2>3
  <1> QED
    BY <1>3, <1>4, <1>5, <1>6, <1>8, <1>9, <1>10 DEF ProcessStep

\* _execute cleans up after its function.
LEMMA ExecuteEndOK ==
    ASSUME NEW j \in Job, Fit(j), ExecuteEnd(j)
    PROVE  JobStepOK(j)
  <1> DEFINE done == Outcome(j) = "complete"
             r == [job[j] EXCEPT !.state = Outcome(j), !.result = @ /\ done]
  <1>0. job[j] \in JobRecord /\ co[j] \in CoRecord
    BY DEF Fit, StoreTypeOK
  <1>1. Coherent(job[j], co[j], call[j], life[j], current = j)
    BY DEF Fit, CoherentJob
  <1>2. /\ co'[j] = [co[j] EXCEPT !.run = "done"]
        /\ \A i \in Job \ {j} : co'[i] = co[i]
    BY DEF ExecuteEnd, Fit, StoreTypeOK
  <1>3. Settle(j, r, done) /\ co[j].run = "awaiting" /\ call[j] = "settled"
    BY DEF ExecuteEnd
  <1>4. Outcome(j) \in {"complete", "cancelled", "failed"}
    BY DEF Outcome
  <1>5. /\ r \in JobRecord /\ r.state = Outcome(j) /\ r.downloading = job[j].downloading
        /\ r.result = (job[j].result /\ done) /\ r.output = job[j].output
        /\ r.mode = job[j].mode
        /\ r.discard = job[j].discard /\ r.cancel = job[j].cancel
    BY <1>0, <1>4 DEF JobRecord, JobState
  <1>6. /\ ~job[j].downloading /\ co[j].down = "idle" /\ co[j].up = "idle"
        /\ co[j].io = "none" /\ co[j].proc \in {"ok", "cancelled", "error"}
        /\ job[j].state \in {"running", "cancelling"} /\ current = j
    BY <1>0, <1>1, <1>3
       DEF Coherent, Uploading, Running, Processing, Ending, Downloading, Working, Busy,
       CoRecord
  <1>7. done => /\ co[j].proc = "ok" /\ ~job[j].cancel /\ job[j].result
                /\ job[j].output <=> job[j].mode # "verify"
    BY <1>1, <1>6 DEF Outcome, Coherent, Processing, Busy
  <1>8. /\ co'[j] \in CoRecord /\ co'[j].up = "idle" /\ co'[j].down = "idle"
        /\ co'[j].io = "none" /\ co'[j].run = "done" /\ co'[j].proc = co[j].proc
    BY <1>0, <1>2, <1>6 DEF CoRecord
  <1>9. job[j].discard => job[j].cancel
    BY <1>1 DEF Coherent, Ending
  <1>10. done \in BOOLEAN
    OBVIOUS
  <1> HIDE DEF r
  <1>11. PICK fails \in BOOLEAN : job'[j] = CloseFiles(r, done, fails)
    BY <1>3, <1>5, SettleEffect
  <1>12. /\ job'[j] \in JobRecord /\ life'[j] = "closed" /\ call' = call
         /\ current' = j <=> current = j /\ ~Forgettable(job'[j])
         /\ current' \in {current, NoJob}
         /\ \A i \in Job \ {j} : /\ job'[i] = job[i] /\ life'[i] = life[i]
                                 /\ current' = i <=> current = i
    BY <1>3, <1>5, SettleEffect
  <1>13. /\ ~job'[j].input /\ ~job'[j].downloading /\ job'[j].mode = job[j].mode
         /\ job'[j].discard = job[j].discard /\ job'[j].cancel = job[j].cancel
         /\ job'[j].state = IF fails THEN "failed" ELSE Outcome(j)
         /\ job'[j].output = (job[j].output /\ done /\ ~fails)
         /\ job'[j].result = (job[j].result /\ done /\ ~fails)
    BY <1>5, <1>6, <1>11 DEF CloseFiles, JobRecord
  <1>14. CoherentJob(j)'
    <2>1. CASE done /\ ~fails
      BY <1>3, <1>6, <1>7, <1>8, <1>9, <1>12, <1>13, <2>1
         DEF CoherentJob, Coherent, Reserving, Uploading, Running, Processing, Ending,
         Downloading, Working, Ended, Busy, Forgettable
    <2>2. CASE fails \/ ~done
      <3>1. job'[j].state \in {"failed", "cancelled"}
        BY <1>4, <1>13, <2>2
      <3>2. ~job'[j].output /\ ~job'[j].result
        BY <1>13, <2>2
      <3>3. job'[j].discard => current' # j
        BY <1>12, <1>13, <3>1 DEF Forgettable, Busy
      <3> QED
        BY <1>3, <1>6, <1>8, <1>9, <1>12, <1>13, <3>1, <3>2, <3>3
           DEF CoherentJob, Coherent, Reserving, Uploading, Running, Processing, Ending,
           Downloading, Working, Ended, Busy
    <2> QED
      BY <2>1, <2>2
  <1> QED
    BY <1>2, <1>6, <1>8, <1>12, <1>13, <1>14 DEF JobStepOK, OthersKept, ShutdownKept

\* The steps of a download up to its end.
LEMMA DownloadOK ==
    ASSUME NEW j \in Job, Fit(j),
           DownloadBegin(j) \/ DownloadSeek(j) \/ DownloadNext(j) \/ DownloadRead(j)
    PROVE  JobStepOK(j)
  <1>0. job[j] \in JobRecord /\ co[j] \in CoRecord
    BY DEF Fit, StoreTypeOK
  <1>1. Coherent(job[j], co[j], call[j], life[j], current = j)
    BY DEF Fit, CoherentJob
  <1>2. job = [job EXCEPT ![j] = job[j]]
    BY DEF Fit, StoreTypeOK
  <1> USE DEF Coherent, Reserving, Uploading, Running, Processing, Ending, Downloading,
              Working, Ended, Busy
  <1>3. CASE DownloadBegin(j)
    <2> DEFINE r == [job[j] EXCEPT !.downloading = TRUE]
               c == [co[j] EXCEPT !.down = "headers"]
    <2>1. Coherent(r, c, call[j], life[j], current = j) /\ ~job[j].discard
      BY <1>0, <1>1, <1>3 DEF DownloadBegin, Found, JobRecord, CoRecord
    <2>2. /\ job' = [job EXCEPT ![j] = r] /\ co' = [co EXCEPT ![j] = c]
          /\ UNCHANGED <<workerVars, current>>
      BY <1>3 DEF DownloadBegin
    <2> HIDE DEF r, c, Coherent
    <2> QED
      BY <2>1, <2>2, QuietStep
  <1>4. ASSUME NEW c, co' = [co EXCEPT ![j] = c], UNCHANGED <<job, workerVars, current>>,
               c.up = co[j].up, c.run = co[j].run, c.proc = co[j].proc,
               c.interrupt = co[j].interrupt, co[j].down # "idle", c.down # "idle",
               \/ c.io = co[j].io /\ co[j].io # "output"
               \/ c.io = "output" /\ c.down \in {"seeking", "reading"}
        PROVE  JobStepOK(j)
    <2>1. Coherent(job[j], c, call[j], life[j], current = j)
      BY <1>1, <1>4
    <2>2. job' = [job EXCEPT ![j] = job[j]]
      BY <1>2, <1>4
    <2> HIDE DEF Coherent
    <2> QED
      BY <1>4, <2>1, <2>2, QuietStep
  <1>5. CASE DownloadSeek(j)
    <2> DEFINE c == [co[j] EXCEPT !.down = "seeking", !.io = "output"]
    <2>1. /\ c.up = co[j].up /\ c.run = co[j].run /\ c.proc = co[j].proc
          /\ c.down = "seeking" /\ c.io = "output" /\ c.interrupt = co[j].interrupt
      BY <1>0 DEF CoRecord
    <2>2. co' = [co EXCEPT ![j] = c]
      BY <1>0, <1>5 DEF DownloadSeek
    <2>3. UNCHANGED <<job, workerVars, current>> /\ co[j].down # "idle"
      BY <1>5 DEF DownloadSeek
    <2> HIDE DEF c
    <2> QED
      BY <1>4, <2>1, <2>2, <2>3
  <1>6. ASSUME NEW d \in {"sending", "final"},
               co' = [co EXCEPT ![j] = [co[j] EXCEPT !.down = d]],
               UNCHANGED <<job, workerVars, current>>,
               co[j].down # "idle", co[j].io # "output"
        PROVE  JobStepOK(j)
    <2> DEFINE c == [co[j] EXCEPT !.down = d]
    <2>1. /\ c.up = co[j].up /\ c.run = co[j].run /\ c.proc = co[j].proc
          /\ c.down = d /\ c.io = co[j].io /\ c.interrupt = co[j].interrupt
      BY <1>0 DEF CoRecord
    <2>2. co' = [co EXCEPT ![j] = c]
      BY <1>6
    <2> HIDE DEF c
    <2> QED
      BY <1>4, <1>6, <2>1, <2>2
  <1>7. CASE DownloadNext(j)
    <2>1. UNCHANGED <<job, workerVars, current>> /\ co[j].down # "idle"
      BY <1>7 DEF DownloadNext
    <2>2. CASE job[j].cancel
      <3>1. co' = [co EXCEPT ![j] = [co[j] EXCEPT !.down = "final"]]
        BY <1>7, <2>2 DEF DownloadNext, Read
      <3>2. co[j].io # "output"
        BY <1>1, <1>7 DEF DownloadNext
      <3> QED
        BY <1>6, <2>1, <3>1, <3>2
    <2>3. CASE ~job[j].cancel
      <3> DEFINE c == [co[j] EXCEPT !.down = "reading", !.io = "output"]
      <3>1. /\ c.up = co[j].up /\ c.run = co[j].run /\ c.proc = co[j].proc
            /\ c.down = "reading" /\ c.io = "output" /\ c.interrupt = co[j].interrupt
        BY <1>0 DEF CoRecord
      <3>2. co' = [co EXCEPT ![j] = c]
        BY <1>0, <1>7, <2>3 DEF DownloadNext, Read
      <3> HIDE DEF c
      <3> QED
        BY <1>4, <2>1, <3>1, <3>2
    <2> QED
      BY <2>2, <2>3
  <1>8. CASE DownloadRead(j)
    <2>1. /\ UNCHANGED <<job, workerVars, current>> /\ co[j].down # "idle"
          /\ co[j].io # "output"
      BY <1>8 DEF DownloadRead
    <2>2. PICK d \in {"sending", "final"} :
             co' = [co EXCEPT ![j] = [co[j] EXCEPT !.down = d]]
      BY <1>8 DEF DownloadRead
    <2> QED
      BY <1>6, <2>1, <2>2
  <1> QED
    BY <1>3, <1>5, <1>7, <1>8

\* The end of a download.
LEMMA DownloadEndOK ==
    ASSUME NEW j \in Job, Fit(j), DownloadEnd(j)
    PROVE  JobStepOK(j)
  <1> DEFINE r == [job[j] EXCEPT !.downloading = FALSE]
             c == [co[j] EXCEPT !.down = "idle", !.interrupt = FALSE]
             s == [r EXCEPT !.state = "cancelled", !.result = FALSE]
  <1>0. job[j] \in JobRecord /\ co[j] \in CoRecord
    BY DEF Fit, StoreTypeOK
  <1>1. Coherent(job[j], co[j], call[j], life[j], current = j)
    BY DEF Fit, CoherentJob
  <1>2. co' = [co EXCEPT ![j] = c] /\ co[j].down # "idle" /\ co[j].io = "none"
    BY <1>0 DEF DownloadEnd, FinishDownload
  <1>3. /\ c \in CoRecord /\ c.up = co[j].up /\ c.run = co[j].run
        /\ c.proc = co[j].proc /\ c.io = co[j].io /\ c.down = "idle"
    BY <1>0 DEF CoRecord
  <1>4. /\ r \in JobRecord /\ ~r.downloading /\ r.state = job[j].state
        /\ r.cancel = job[j].cancel /\ r.discard = job[j].discard
        /\ r.input = job[j].input /\ r.output = job[j].output
        /\ r.result = job[j].result /\ r.mode = job[j].mode
    BY <1>0 DEF JobRecord
  <1>5. job[j].state = "complete" /\ job[j].downloading
    BY <1>1, <1>2 DEF Coherent, Downloading
  <1>6. IF r.cancel THEN Settle(j, s, FALSE)
                    ELSE job' = [job EXCEPT ![j] = r] /\ UNCHANGED <<workerVars, current>>
    BY DEF DownloadEnd, FinishDownload
  <1>7. /\ s \in JobRecord /\ s.state = "cancelled" /\ ~s.result /\ ~s.downloading
        /\ s.cancel = r.cancel /\ s.discard = r.discard
    BY <1>4 DEF JobRecord, JobState
  <1> HIDE DEF r, c, s
  <1>8. CASE ~r.cancel
    <2>1. Coherent(r, c, call[j], life[j], current = j)
      BY <1>0, <1>1, <1>2, <1>3, <1>4, <1>5, <1>8
         DEF Coherent, Reserving, Uploading, Running, Processing, Ending, Downloading,
         Working, Ended, Busy
    <2> QED
      BY <1>2, <1>3, <1>4, <1>6, <1>8, <2>1, QuietStep
  <1>9. CASE r.cancel
    <2>1. co'[j] = c /\ \A i \in Job \ {j} : co'[i] = co[i]
      BY <1>2 DEF Fit, StoreTypeOK
    <2>2. Settle(j, s, FALSE)
      BY <1>6, <1>9
    <2>3. /\ c.up = "idle"
          /\ \/ c.run = "idle" /\ call[j] = "unused"
             \/ c.run = "done" /\ call[j] = "settled"
          /\ c.proc \in {"idle", "ok", "cancelled", "error"}
          /\ c.proc = "idle" <=> call[j] = "unused"
      BY <1>0, <1>1, <1>3, <1>5
         DEF Coherent, Running, Processing, Ending, Ended, CoRecord
    <2>4. CoherentJob(j)'
      BY <1>2, <1>3, <1>7, <1>9, <2>1, <2>2, <2>3, SettleOK
    <2>5. PICK fails \in BOOLEAN : job'[j] = CloseFiles(s, FALSE, fails)
      BY <1>7, <2>2, SettleEffect
    <2>6. job'[j].discard = job[j].discard
      BY <1>4, <1>7, <2>5 DEF CloseFiles, JobRecord
    <2>7. /\ call' = call /\ current' \in {current, NoJob}
          /\ \A i \in Job \ {j} : /\ job'[i] = job[i] /\ life'[i] = life[i]
                                  /\ current' = i <=> current = i
      BY <1>7, <2>2, SettleEffect
    <2> QED
      BY <1>3, <2>1, <2>4, <2>6, <2>7 DEF JobStepOK, OthersKept, ShutdownKept
  <1> QED
    BY <1>8, <1>9
-----------------------------------------------------------------------------
(* The invariant is inductive.                                             *)

StoreInv == WorkerInv /\ JobInv

\* The invariant gives each job what the lemmas about one job assume.
LEMMA InvFit == ASSUME StoreInv, NEW j \in Job PROVE Fit(j)
  BY DEF StoreInv, WorkerInv, WorkerTypeOK, JobInv, JobTypeOK, Fit, StoreTypeOK,
     CoherentJob

\* Every step of a job keeps all jobs coherent.
LEMMA JobStepCoherent ==
    ASSUME StoreInv, NEW j \in Job, JobStep(j)
    PROVE  JobStepOK(j)
  <1>1. Fit(j)
    BY InvFit
  <1>2. CASE GetExpired(j) \/ CancelJob(j) \/ ClearJob(j) \/ Reap(j)
    BY <1>1, <1>2, CancelOK DEF GetExpired, CancelJob, ClearJob, Reap, Found
  <1>3. CASE \/ UploadBegin(j) \/ UploadChunk(j) \/ UploadEnd(j) \/ UploadStep(j)
    BY <1>1, <1>3, UploadOK, UploadFailsOK DEF UploadStep
  <1>4. CASE \/ StartRequest(j) \/ StartRefused(j) \/ Started(j) \/ Expire(j)
             \/ IoDone(j) \/ DownloadDisconnect(j)
    BY <1>1, <1>4, RequestOK
  <1>5. CASE DownloadBegin(j) \/ DownloadSeek(j) \/ DownloadStep(j)
    BY <1>1, <1>5, DownloadOK, DownloadEndOK DEF DownloadStep
  <1>6. CASE ProcessStep(j) \/ ExecuteStep(j)
    BY <1>1, <1>6, ProcessOK, ExecuteEndOK DEF ExecuteStep
  <1>7. CASE (\E m \in Mode : Reserve(j, m)) \/ ReserveFails(j)
    BY <1>1, <1>7, ReserveOK, ReserveFailsOK
  <1> QED
    BY <1>2, <1>3, <1>4, <1>5, <1>6, <1>7 DEF JobStep, RequestStep

\* Coherence survives the steps of one job.
LEMMA CoherentElsewhere ==
    ASSUME StoreInv, NEW j \in Job, CoherentJob(j)', OthersKept(j)
    PROVE  \A i \in Job : CoherentJob(i)'
  <1>1. ASSUME NEW i \in Job, i # j PROVE CoherentJob(i)'
    <2>1. Coherent(job[i], co[i], call[i], life[i], current = i)
      BY DEF StoreInv, JobInv
    <2>2. /\ job'[i] = job[i] /\ co'[i] = co[i] /\ call'[i] = call[i]
          /\ life'[i] = life[i] /\ (current' = i) = (current = i)
      BY <1>1 DEF OthersKept
    <2> QED
      BY <2>1, <2>2 DEF CoherentJob
  <1> QED
    BY <1>1

\* The worker's other clients do not touch the jobs.
LEMMA OtherStepKeeps ==
    ASSUME StoreInv, OtherStep
    PROVE  /\ UNCHANGED <<job, co, current, closing, closingJob, closed>>
           /\ \A j \in Job : call'[j] = call[j] /\ life'[j] = life[j]
  <1>0. Job \subseteq Lease /\ Job \subseteq Call
    BY JobAssumption
  <1>1. UNCHANGED <<job, co, current, closing, closingJob>>
    BY DEF OtherStep, jobVars, storeVars, closeVars
  <1> USE DEF StoreInv, WorkerInv, WorkerTypeOK
  <1>2. ASSUME NEW l \in Lease \ Job, ClientStep(l, Call \ Job)
        PROVE  /\ UNCHANGED closed
               /\ \A j \in Job : call'[j] = call[j] /\ life'[j] = life[j]
    BY <1>0, <1>2
       DEF ClientStep, Acquire, AcquireAndClose, CloseLease, Submit, callVars, shutVars
  <1>3. ASSUME NEW c \in Call \ Job, CallStep(c)
        PROVE  /\ UNCHANGED closed
               /\ \A j \in Job : call'[j] = call[j] /\ life'[j] = life[j]
    BY <1>0, <1>3
       DEF CallStep, CancelQueued, Start, Return, WorkFinished, leaseVars, shutVars
  <1>4. CASE Drained \/ Joined
    BY <1>1, <1>4 DEF Drained, Joined, leaseVars, callVars
  <1> QED
    BY <1>1, <1>2, <1>3, <1>4 DEF OtherStep

\* Functions stay with the lease that submitted them, a job's with its own.
LEMMA OwnCallsStep ==
    ASSUME StoreInv, [JobNext]_vars
    PROVE  OwnCalls'
  <1>0. /\ Job \subseteq Lease /\ Job \subseteq Call /\ OwnCalls
        /\ owner \in [Call -> Lease \cup {NoLease}] /\ Closing
    BY JobAssumption DEF StoreInv, JobInv, WorkerInv, WorkerTypeOK
  <1>1. ASSUME UNCHANGED owner PROVE OwnCalls'
    BY <1>0, <1>1 DEF OwnCalls
  <1>2. UNCHANGED workerVars => UNCHANGED owner
    BY DEF workerVars, callVars
  <1>3. ASSUME NEW c \in Call, CallStep(c) PROVE UNCHANGED owner
    BY <1>3 DEF CallStep, CancelQueued, Start, Return, WorkFinished
  <1>4. ASSUME NEW j \in Job, JobStep(j) PROVE OwnCalls'
    <2>1. CASE ClientStep(j, {j})
      BY <2>1, <1>0, <1>1
         DEF ClientStep, Acquire, AcquireAndClose, CloseLease, Submit, OwnCalls, callVars
    <2> QED
      BY <1>0, <1>1, <1>2, <1>3, <1>4, <2>1, JobUsesOwnLease
  <1>5. CASE OtherStep
    <2>1. ASSUME NEW l \in Lease \ Job, ClientStep(l, Call \ Job) PROVE OwnCalls'
      BY <2>1, <1>0, <1>1
         DEF ClientStep, Acquire, AcquireAndClose, CloseLease, Submit, OwnCalls, callVars
    <2>2. CASE Drained \/ Joined
      BY <2>2, <1>1 DEF Drained, Joined, callVars
    <2> QED
      BY <1>5, <1>1, <1>3, <2>1, <2>2 DEF OtherStep
  <1>6. CASE CloseStep
    BY <1>0, <1>1, <1>2, <1>6, CloseUsesOwnLease DEF CloseLease, CloseWorker, callVars
  <1>7. CASE UNCHANGED vars
    BY <1>7, <1>1, <1>2 DEF vars
  <1> QED
    BY <1>4, <1>5, <1>6, <1>7 DEF JobNext

\* The last step of a shutdown that closes the files of its job finds it ended.
LEMMA CloseJobFilesOK ==
    ASSUME StoreInv, CloseJobFiles
    PROVE  \E j \in Job : j = closingJob /\ JobStepOK(j) /\ current' = NoJob
  <1>0. PICK j \in Job : j = closingJob
    BY DEF CloseJobFiles, StoreInv, JobInv, Closing
  <1>1. /\ job[j].discard /\ co[j].up = "idle"
        /\ co[j].run \in {"idle", "done"} /\ current \in {j, NoJob}
        /\ ~job[j].downloading /\ Settle(j, job[j], FALSE) /\ co' = co
    BY <1>0 DEF CloseJobFiles, StoreInv, JobInv, Closing
  <1>2. Fit(j)
    BY InvFit
  <1>3. job[j] \in JobRecord /\ co[j] \in CoRecord
    BY <1>2 DEF Fit, StoreTypeOK
  <1>4. Coherent(job[j], co[j], call[j], life[j], current = j)
    BY <1>2 DEF Fit, CoherentJob
  <1>5. /\ job[j].state \in {"failed", "cancelled"} /\ ~job[j].result
        /\ co[j].down = "idle" /\ co[j].io = "none" /\ job[j].cancel /\ current # j
        /\ \/ co[j].run = "idle" /\ call[j] = "unused"
           \/ co[j].run = "done" /\ call[j] = "settled"
        /\ co[j].proc \in {"idle", "ok", "cancelled", "error"}
        /\ co[j].proc = "idle" <=> call[j] = "unused"
    BY <1>1, <1>3, <1>4
       DEF Coherent, Reserving, Uploading, Running, Processing, Ending, Downloading,
       Working, Ended, Busy, JobRecord, JobState, CoRecord
  <1>6. CoherentJob(j)'
    BY <1>1, <1>2, <1>3, <1>5, SettleOK
  <1>7. PICK fails \in BOOLEAN : job'[j] = CloseFiles(job[j], FALSE, fails)
    BY <1>1, <1>2, <1>3, SettleEffect
  <1>8. job'[j].discard
    BY <1>1, <1>3, <1>7 DEF CloseFiles, JobRecord
  <1>9. /\ call' = call /\ current' \in {current, NoJob}
        /\ \A i \in Job \ {j} : /\ job'[i] = job[i] /\ life'[i] = life[i]
                                /\ current' = i <=> current = i
    BY <1>1, <1>2, <1>3, SettleEffect
  <1>10. JobStepOK(j)
    BY <1>1, <1>6, <1>8, <1>9 DEF JobStepOK, OthersKept, ShutdownKept
  <1> QED
    BY <1>0, <1>1, <1>5, <1>9, <1>10

\* What JobStore.close relies on survives the steps of a job.
LEMMA ClosingKept ==
    ASSUME StoreInv, NEW j \in Job, JobStepOK(j), co' \in [Job -> CoRecord],
           UNCHANGED <<closing, closingJob, closed>>
    PROVE  Closing'
  <1>0. Closing
    BY DEF StoreInv, JobInv
  <1>1. CASE closing \in {"upload", "task", "download"}
    <2>1. closingJob \in Job /\ job[closingJob].discard
      BY <1>0, <1>1 DEF Closing
    <2>2. /\ job'[closingJob].discard
          /\ co[closingJob].up = "idle" => co'[closingJob].up = "idle"
          /\ co[closingJob].run \in {"idle", "done"} =>
                co'[closingJob].run \in {"idle", "done"}
      BY <2>1 DEF JobStepOK, OthersKept, ShutdownKept
    <2>3. current' \in {current, NoJob}
      BY <1>1 DEF JobStepOK, ShutdownKept
    <2> QED
      BY <1>0, <1>1, <2>1, <2>2, <2>3 DEF Closing
  <1>2. CASE closing \notin {"upload", "task", "download"}
    BY <1>0, <1>2 DEF Closing, JobStepOK, ShutdownKept
  <1> QED
    BY <1>1, <1>2

\* Only JobStore.close moves the shutdown on.
LEMMA JobStepShutdown ==
    ASSUME NEW j \in Job, JobStep(j)
    PROVE  UNCHANGED <<closing, closingJob, closed>>
  <1> USE DEF closeVars, shutVars, workerVars
  <1>1. ASSUME CloseLease(j) PROVE UNCHANGED closed
    BY <1>1 DEF CloseLease
  <1>2. CASE RequestStep(j)
    BY <1>2, <1>1, CancelWorker
       DEF RequestStep, Reserve, ReserveFails, Acquire, AcquireAndClose, GetExpired,
       CancelJob, ClearJob, UploadBegin, UploadChunk, UploadEnd, StartRequest,
       StartRefused, Started, DownloadBegin, DownloadSeek, DownloadDisconnect, jobVars
  <1>3. CASE Expire(j) \/ Reap(j) \/ IoDone(j)
    BY <1>3, <1>1, CancelWorker DEF Expire, Reap, IoDone
  <1>4. CASE UploadStep(j) \/ DownloadStep(j)
    BY <1>4, <1>1, SettleWorker
       DEF UploadStep, UploadWritten, UploadReady, UploadFails, DownloadStep,
       DownloadNext, DownloadRead, DownloadEnd, FinishDownload
  <1>5. CASE ProcessStep(j) \/ ExecuteBegin(j)
    BY <1>5
       DEF ProcessStep, ProcessStart, ProcessEnter, ProcessStreamed, ProcessRewound,
       ProcessCancelled, ProcessError, ProcessReturn, ProcessFinished, Start, Return,
       WorkFinished, ExecuteBegin, Submit, jobVars
  <1>6. CASE ExecuteEnd(j)
    BY <1>6, <1>1, SettleWorker DEF ExecuteEnd
  <1> QED
    BY <1>2, <1>3, <1>4, <1>5, <1>6 DEF JobStep, ExecuteStep

\* The invariant holds initially.
LEMMA StoreInvInit == JobInit => StoreInv
  <1> SUFFICES ASSUME JobInit PROVE StoreInv
    OBVIOUS
  <1> USE DEF JobInit
  <1>1. WorkerInv
    BY WorkerInvInit
  <1>2. JobTypeOK
    BY <1>1, JobAssumption
       DEF JobTypeOK, WorkerInv, AbsentJob, JobRecord, JobState, CoRecord
  <1>3. OwnCalls
    BY JobAssumption, LeaseAssumption DEF WorkerInit, OwnCalls
  <1>4. Closing
    BY DEF WorkerInit, Closing
  <1>5. \A j \in Job : Coherent(job[j], co[j], call[j], life[j], current = j)
    BY JobAssumption
       DEF WorkerInit, AbsentJob, Coherent, Reserving, Uploading, Running, Processing,
       Ending, Downloading, Working, Ended, Busy
  <1> QED
    BY <1>1, <1>2, <1>3, <1>4, <1>5 DEF StoreInv, JobInv

\* A shutdown that finds a job cancels and discards it.
LEMMA CloseBeginOK ==
    ASSUME StoreInv, CloseBegin, current # NoJob
    PROVE  /\ closing' = "upload" /\ closingJob' \in Job
           /\ \A i \in Job : CoherentJob(i)'
           /\ Closing'
  <1>1. PICK j \in Job : /\ current = j /\ Cancel(j, TRUE)
                         /\ closing' = "upload" /\ closingJob' = j /\ closing = "open"
    BY DEF CloseBegin
  <1>2. JobStepOK(j) /\ Fit(j)
    BY <1>1, InvFit, CancelOK
  <1>3. \A i \in Job : CoherentJob(i)'
    BY <1>2, CoherentElsewhere DEF JobStepOK
  <1>4. job[j] \in JobRecord
    BY DEF StoreInv, JobInv, JobTypeOK
  <1>5. PICK r \in JobRecord :
           r.discard /\ (CancelActive(j, r) \/ CancelDownload(j, r) \/ CancelUnowned(j, r))
    <2> DEFINE r == [job[j] EXCEPT !.cancel = TRUE, !.discard = @ \/ TRUE]
    <2>1. r \in JobRecord /\ r.discard
      BY <1>4 DEF JobRecord
    <2>2. CancelActive(j, r) \/ CancelDownload(j, r) \/ CancelUnowned(j, r)
      BY <1>1 DEF Cancel
    <2> HIDE DEF r
    <2> QED
      BY <2>1, <2>2
  <1>6. job'[j].discard /\ current' \in {current, NoJob}
    <2>1. CASE CancelActive(j, r) \/ CancelDownload(j, r)
      BY <1>5, <2>1 DEF CancelActive, CancelDownload, StoreInv, JobInv, JobTypeOK,
         JobRecord
    <2>2. CASE CancelUnowned(j, r)
      <3> DEFINE s == [r EXCEPT !.state = "cancelled", !.result = FALSE]
      <3>1. s \in JobRecord /\ s.discard
        BY <1>5 DEF JobRecord, JobState
      <3>2. Settle(j, s, FALSE)
        BY <2>2 DEF CancelUnowned
      <3> HIDE DEF s
      <3>3. PICK fails \in BOOLEAN : job'[j] = CloseFiles(s, FALSE, fails)
        BY <1>2, <3>1, <3>2, SettleEffect
      <3>4. current' \in {current, NoJob}
        BY <1>2, <3>1, <3>2, SettleEffect
      <3> QED
        BY <3>1, <3>3, <3>4 DEF CloseFiles, JobRecord
    <2> QED
      BY <1>5, <2>1, <2>2
  <1>7. ~closed'
    BY <1>1, CancelWorker DEF CloseLease, workerVars, shutVars, StoreInv, JobInv, Closing
  <1> QED
    BY <1>1, <1>3, <1>6, <1>7 DEF Closing

\* The invariant is inductive.
LEMMA StoreInvStep == StoreInv /\ [JobNext]_vars => StoreInv'
  <1> SUFFICES ASSUME StoreInv, [JobNext]_vars PROVE StoreInv'
    OBVIOUS
  <1>1. WorkerInv'
    BY StoreUsesWorker, WorkerInvStep DEF StoreInv, JobInv
  <1>2. StoreTypeOK'
    BY StoreTypeStep, JobAssumption DEF StoreInv, JobInv, JobTypeOK, StoreTypeOK, Closing
  <1>3. OwnCalls'
    BY OwnCallsStep
  <1>4. /\ closing \in {"open", "upload", "task", "download", "worker", "done"}
        /\ closingJob \in Job \cup {NoJob}
        /\ Closing
        /\ \A j \in Job : CoherentJob(j)
    BY DEF StoreInv, JobInv, JobTypeOK, CoherentJob
  <1> DEFINE Rest == /\ closing' \in {"open", "upload", "task", "download", "worker", "done"}
                     /\ closingJob' \in Job \cup {NoJob}
                     /\ \A j \in Job : CoherentJob(j)'
                     /\ Closing'
  <1> SUFFICES Rest
    <2>1. ASSUME Rest PROVE JobTypeOK'
      BY <1>1, <1>2, <2>1 DEF JobTypeOK, StoreTypeOK, WorkerInv
    <2> QED
      BY <1>1, <1>3, <2>1 DEF StoreInv, JobInv, CoherentJob
  <1>5. ASSUME UNCHANGED <<job, co, current>>,
               \A j \in Job : call'[j] = call[j] /\ life'[j] = life[j]
        PROVE  \A j \in Job : CoherentJob(j)'
    BY <1>4, <1>5 DEF CoherentJob
  <1>6. /\ UNCHANGED workerVars =>
              UNCHANGED closed /\ \A j \in Job : call'[j] = call[j] /\ life'[j] = life[j]
        /\ UNCHANGED storeVars => UNCHANGED <<job, co, current>>
    BY DEF workerVars, leaseVars, callVars, shutVars, storeVars
  <1>7. ASSUME NEW j \in Job, JobStep(j) PROVE Rest
    <2>1. JobStepOK(j) /\ UNCHANGED <<closing, closingJob, closed>>
      BY <1>7, JobStepCoherent, JobStepShutdown
    <2>2. \A i \in Job : CoherentJob(i)'
      BY <2>1, CoherentElsewhere DEF JobStepOK
    <2>3. Closing'
      BY <1>2, <2>1, ClosingKept DEF StoreTypeOK
    <2> QED
      BY <1>4, <2>1, <2>2, <2>3
  <1>8. CASE CloseBegin
    <2>1. CASE current = NoJob
      <3>1. /\ closing' = "worker" /\ UNCHANGED <<workerVars, storeVars, closingJob>>
        BY <1>8, <2>1, JobAssumption DEF CloseBegin
      <3>2. \A j \in Job : CoherentJob(j)'
        BY <1>5, <1>6, <3>1
      <3>3. Closing'
        BY <1>4, <1>6, <2>1, <3>1 DEF Closing
      <3> QED
        BY <1>4, <3>1, <3>2, <3>3
    <2>2. CASE current # NoJob
      BY <1>8, <2>2, CloseBeginOK, <1>4
    <2> QED
      BY <2>1, <2>2
  <1>9. CASE CloseAwaited \/ CloseEnd
    <2>1. /\ UNCHANGED <<workerVars, storeVars, closingJob>>
          /\ closing' \in {"task", "download", "done"}
      BY <1>9 DEF CloseAwaited, CloseEnd
    <2>2. Closing'
      BY <1>4, <1>6, <1>9, <2>1 DEF CloseAwaited, CloseEnd, Closing
    <2> QED
      BY <1>4, <1>5, <1>6, <2>1, <2>2
  <1>10. CASE CloseJobFiles
    <2>1. PICK j \in Job : j = closingJob /\ JobStepOK(j) /\ current' = NoJob
      BY <1>10, CloseJobFilesOK
    <2>2. \A i \in Job : CoherentJob(i)'
      BY <2>1, CoherentElsewhere DEF JobStepOK
    <2>3. closing' = "worker" /\ closingJob' = closingJob
      BY <1>10 DEF CloseJobFiles
    <2>4. Closing'
      BY <2>1, <2>3 DEF Closing
    <2> QED
      BY <1>4, <2>2, <2>3, <2>4
  <1>11. CASE CloseStoreWorker
    <2>1. /\ UNCHANGED <<job, co, current, closing, closingJob, call, life>>
          /\ closing = "worker"
      BY <1>11
         DEF CloseStoreWorker, CloseWorker, jobVars, storeVars, closeVars, leaseVars,
         callVars
    <2>2. Closing'
      BY <1>4, <2>1 DEF Closing
    <2> QED
      BY <1>4, <1>5, <2>1, <2>2
  <1>12. CASE OtherStep
    <2>1. Closing'
      BY <1>4, <1>12, OtherStepKeeps DEF Closing
    <2> QED
      BY <1>4, <1>5, <1>12, <2>1, OtherStepKeeps
  <1>13. CASE UNCHANGED vars
    <2>1. UNCHANGED <<workerVars, storeVars, job, co, current, closing, closingJob>>
      BY <1>13 DEF vars, jobVars, storeVars, closeVars
    <2>2. Closing'
      BY <1>4, <1>6, <2>1 DEF Closing
    <2> QED
      BY <1>4, <1>5, <1>6, <2>1, <2>2
  <1> QED
    BY <1>7, <1>8, <1>9, <1>10, <1>11, <1>12, <1>13 DEF JobNext, CloseStep

\* The inductive invariant, from which the properties below follow, for every set of
\* jobs, other clients and start requests.
THEOREM StoreInvariant == JobSpec => []StoreInv
  BY StoreInvInit, StoreInvStep, PTL DEF JobSpec

-----------------------------------------------------------------------------
(* The properties of JobStore.                                             *)

\* The store, its worker and their threads keep their types (api_jobs.py:54-80).
THEOREM JobTypeCorrect == JobSpec => []JobTypeOK
  <1>1. StoreInv => JobTypeOK
    BY DEF StoreInv, JobInv
  <1> QED
    BY <1>1, StoreInvariant, PTL

\* No handle is closed while a thread uses it, whoever cancels, clears, expires or
\* shuts down the job (api_jobs.py:39-42, 172-192).
THEOREM JobOwnedFilesStayOpen == JobSpec => []OwnedFilesStayOpen
  <1>1. StoreInv => OwnedFilesStayOpen
    <2> SUFFICES ASSUME StoreInv, NEW j \in Job
                 PROVE  /\ co[j].io = "input" => job[j].input
                        /\ co[j].io = "output" => job[j].output
                        /\ co[j].proc \in {"entered", "verifying", "streaming",
                                           "rewinding"} => job[j].input
                        /\ co[j].proc \in {"streaming", "rewinding"} => job[j].output
      BY DEF OwnedFilesStayOpen
    <2>1. Coherent(job[j], co[j], call[j], life[j], current = j)
      BY DEF StoreInv, JobInv
    <2>2. co[j] \in CoRecord /\ call[j] \in CallState
      BY JobAssumption DEF StoreInv, JobInv, JobTypeOK, WorkerTypeOK
    <2> QED
      BY <2>1, <2>2
         DEF Coherent, Uploading, Running, Processing, Ending, Downloading, Working,
         CoRecord, CallState
  <1> QED
    BY <1>1, StoreInvariant, PTL

\* The worker is admitted to a job exactly from its reservation to its end
\* (api_jobs.py:105-129).
THEOREM JobAdmissionFollowsState == JobSpec => []AdmissionFollowsState
  <1>1. StoreInv => AdmissionFollowsState
    <2> SUFFICES ASSUME StoreInv, NEW j \in Job
                 PROVE  slot = j <=> job[j].state \in Working
      BY DEF AdmissionFollowsState
    <2>1. Coherent(job[j], co[j], call[j], life[j], current = j)
      BY DEF StoreInv, JobInv
    <2>2. co[j] \in CoRecord /\ job[j] \in JobRecord
      BY DEF StoreInv, JobInv, JobTypeOK
    <2>3. slot = j <=> life[j] = "open" \/ Unfinished(j) # {}
      BY JobAssumption DEF StoreInv, WorkerInv, AdmissionExact, Live
    <2>4. ASSUME job[j].state \notin Working PROVE Unfinished(j) = {}
      <3>1. call[j] \notin Outstanding
        BY <2>1, <2>2, <2>4
           DEF Coherent, Reserving, Running, Ending, Working, Ended, Outstanding,
           JobRecord, JobState, CoRecord
      <3> QED
        BY <3>1 DEF StoreInv, JobInv, OwnCalls, Unfinished
    <2>5. life[j] = "open" <=> job[j].state \in Working
      BY <2>1, <2>2
         DEF Coherent, Reserving, Ending, Working, Ended, JobRecord, JobState
    <2> QED
      BY <2>3, <2>4, <2>5
  <1> QED
    BY <1>1, StoreInvariant, PTL

\* An ended or forgotten job owns no file, no coroutine and no task
\* (api_jobs.py:105-129, 194-200).
THEOREM JobEndedOwnsNothing == JobSpec => []EndedJobOwnsNothing
  <1>1. StoreInv => EndedJobOwnsNothing
    <2> SUFFICES ASSUME StoreInv, NEW j \in Job
                 PROVE  /\ job[j].state \in Ended =>
                              /\ ~job[j].input /\ co[j].up = "idle"
                              /\ co[j].run \in {"idle", "done"}
                        /\ job[j].state \in {"failed", "cancelled"} \/ current # j =>
                              ~job[j].output /\ ~job[j].result /\ co[j].down = "idle"
      BY DEF EndedJobOwnsNothing
    <2>1. Coherent(job[j], co[j], call[j], life[j], current = j)
      BY DEF StoreInv, JobInv
    <2>2. job[j] \in JobRecord
      BY DEF StoreInv, JobInv, JobTypeOK
    <2> QED
      BY <2>1, <2>2
         DEF Coherent, Reserving, Ending, Downloading, Working, Ended, JobRecord, JobState
  <1> QED
    BY <1>1, StoreInvariant, PTL

\* A complete job went through _process without error and keeps its result and output
\* (api_jobs.py:332-361, 383).
THEOREM JobCompleteHasResult == JobSpec => []CompleteJobHasResult
  <1>1. StoreInv => CompleteJobHasResult
    <2>1. ASSUME StoreInv, NEW j \in Job
          PROVE  Ending(job[j], co[j], life[j], current = j)
      BY <2>1 DEF StoreInv, JobInv, Coherent
    <2> QED
      BY <2>1 DEF CompleteJobHasResult, Ending
  <1> QED
    BY <1>1, StoreInvariant, PTL

\* JobStore.close reaches the worker only when no job has anything left
\* (api_jobs.py:399-416).
THEOREM JobClosedStoreOwnsNothing == JobSpec => []ClosedStoreOwnsNothing
  <1>1. StoreInv => ClosedStoreOwnsNothing
    <2> SUFFICES ASSUME StoreInv PROVE ClosedStoreOwnsNothing
      OBVIOUS
    <2>1. Closing
      BY DEF StoreInv, JobInv
    <2>2. ASSUME NEW j \in Job
          PROVE  /\ Coherent(job[j], co[j], call[j], life[j], current = j)
                 /\ job[j] \in JobRecord /\ co[j] \in CoRecord /\ j # NoJob
      BY JobAssumption DEF StoreInv, JobInv, JobTypeOK
    <2>3. ASSUME NEW j \in Job, co[j].run = "created" PROVE Accepts(j)
      <3>1. life[j] = "open" /\ current = j
        BY <2>2, <2>3 DEF Coherent, Running, Ending, Working
      <3> QED
        BY <2>1, <2>2, <3>1 DEF Closing, Accepts, StoreInv, JobInv, JobTypeOK, WorkerTypeOK
    <2>4. ASSUME NEW j \in Job, closing \in {"worker", "done"}
          PROVE  /\ ~job[j].input /\ ~job[j].output
                 /\ co[j].io = "none" /\ co[j].up = "idle" /\ co[j].down = "idle"
                 /\ co[j].run \in {"idle", "done"}
                 /\ call[j] \notin Outstanding
      <3>1. current # j
        BY <2>1, <2>2, <2>4 DEF Closing
      <3> QED
        BY <2>2, <3>1
           DEF Coherent, Reserving, Uploading, Running, Ending, Downloading, Working,
           Ended, Outstanding, JobRecord, JobState, CoRecord
    <2> QED
      BY <2>1, <2>3, <2>4 DEF Closing, ClosedStoreOwnsNothing
  <1> QED
    BY <1>1, StoreInvariant, PTL
-----------------------------------------------------------------------------
(* What a step may do to a job, as a client of the API sees it.            *)

SameStage(j) ==
    job'[j].state = job[j].state \/ {job[j].state, job'[j].state} \subseteq Working

Stays(j) == SameStage(j) /\ job'[j].cancel = job[j].cancel /\ current' = current

Appears(j) ==
    /\ job[j].state = "absent" /\ job'[j].state \in Working
    /\ job[j].cancel = FALSE /\ job'[j].cancel = FALSE
    /\ current = NoJob /\ current' = j

Completes(j) ==
    /\ job[j].state \in Working /\ job'[j].state = "complete"
    /\ job[j].cancel = FALSE /\ job'[j].cancel = FALSE
    /\ current' = current

IsDoomed(j) ==
    SameStage(j) /\ job[j].state # "absent" /\ job'[j].cancel = TRUE /\ current' = current

Ends(j) ==
    /\ job[j].state # "absent" /\ job'[j].state \in {"failed", "cancelled"}
    /\ job'[j].cancel \in {job[j].cancel, TRUE}
    /\ current' = current \/ (current' = NoJob /\ job'[j].cancel = TRUE)

Moves(j) == Stays(j) \/ Appears(j) \/ Completes(j) \/ IsDoomed(j) \/ Ends(j)

\* Settling a job that is not complete ends it.
LEMMA SettleEnds ==
    ASSUME NEW j \in Job, Fit(j), job[j].state # "absent",
           NEW r \in JobRecord, NEW keep \in BOOLEAN, Settle(j, r, keep),
           r.state \in {"failed", "cancelled"}, r.discard => r.cancel,
           r.cancel \in {job[j].cancel, TRUE}
    PROVE  Ends(j)
  <1>1. PICK fails \in BOOLEAN : job'[j] = CloseFiles(r, keep, fails)
    BY SettleEffect
  <1>2. /\ job'[j].state \in {"failed", "cancelled"}
        /\ job'[j].cancel = r.cancel /\ job'[j].discard = r.discard
        /\ r.cancel \in BOOLEAN
    BY <1>1 DEF CloseFiles, JobRecord
  <1>3. current' = current \/ (current' = NoJob /\ r.discard)
    <2>1. CASE current = j
      BY <2>1, <1>2, SettleEffect DEF Forgettable
    <2>2. CASE current # j
      BY <2>2 DEF Settle
    <2> QED
      BY <2>1, <2>2
  <1> QED
    BY <1>2, <1>3 DEF Ends

\* What a cancellation may do to what clients see of the job.
LEMMA CancelMoves ==
    ASSUME NEW j \in Job, Fit(j), current = j, NEW d \in BOOLEAN, Cancel(j, d)
    PROVE  IsDoomed(j) \/ Ends(j)
  <1>0. job[j] \in JobRecord /\ job[j].state # "absent"
    BY DEF Fit, StoreTypeOK, CoherentJob, Coherent, Reserving
  <1>1. PICK r \in JobRecord :
           /\ r.cancel = TRUE /\ r.state = job[j].state
           /\ CancelActive(j, r) \/ CancelDownload(j, r) \/ CancelUnowned(j, r)
    <2> DEFINE r == [job[j] EXCEPT !.cancel = TRUE, !.discard = @ \/ d]
    <2>1. r \in JobRecord /\ r.cancel = TRUE /\ r.state = job[j].state
      BY <1>0 DEF JobRecord
    <2>2. CancelActive(j, r) \/ CancelDownload(j, r) \/ CancelUnowned(j, r)
      BY DEF Cancel
    <2> HIDE DEF r
    <2> QED
      BY <2>1, <2>2
  <1>2. CASE CancelActive(j, r)
    <2>1. job'[j] = [r EXCEPT !.state = "cancelling"] /\ current' = current
      BY <1>2 DEF CancelActive, Fit, StoreTypeOK
    <2> QED
      BY <1>0, <1>1, <1>2, <2>1 DEF CancelActive, IsDoomed, SameStage, Busy, Working,
         JobRecord
  <1>3. CASE CancelDownload(j, r)
    BY <1>0, <1>1, <1>3 DEF CancelDownload, IsDoomed, SameStage, Fit, StoreTypeOK
  <1>4. CASE CancelUnowned(j, r)
    <2> DEFINE s == [r EXCEPT !.state = "cancelled", !.result = FALSE]
    <2>1. s \in JobRecord /\ s.state = "cancelled" /\ s.cancel = TRUE
      BY <1>1 DEF JobRecord, JobState
    <2>2. Settle(j, s, FALSE)
      BY <1>4 DEF CancelUnowned
    <2> HIDE DEF s
    <2> QED
      BY <1>0, <2>1, <2>2, SettleEnds
  <1> QED
    BY <1>1, <1>2, <1>3, <1>4

\* What the end of a job's task may do to what clients see of the job.
LEMMA ExecuteEndMoves ==
    ASSUME NEW j \in Job, Fit(j), ExecuteEnd(j)
    PROVE  Completes(j) \/ Ends(j)
  <1> DEFINE done == Outcome(j) = "complete"
             r == [job[j] EXCEPT !.state = Outcome(j), !.result = @ /\ done]
  <1>0. job[j] \in JobRecord /\ Coherent(job[j], co[j], call[j], life[j], current = j)
    BY DEF Fit, StoreTypeOK, CoherentJob
  <1>1. Outcome(j) \in {"complete", "cancelled", "failed"}
    BY DEF Outcome
  <1>2. /\ r \in JobRecord /\ r.state = Outcome(j)
        /\ r.cancel = job[j].cancel /\ r.discard = job[j].discard
    BY <1>0, <1>1 DEF JobRecord, JobState
  <1>3. Settle(j, r, done) /\ done \in BOOLEAN /\ co[j].run = "awaiting"
    BY DEF ExecuteEnd
  <1>4. /\ job[j].state \in {"running", "cancelling"}
        /\ job[j].discard => job[j].cancel
    BY <1>0, <1>3 DEF Coherent, Running, Ending
  <1> HIDE DEF r
  <1>5. CASE ~done
    BY <1>1, <1>2, <1>3, <1>4, <1>5, SettleEnds
  <1>6. CASE done
    <2>1. ~job[j].cancel /\ ~job[j].discard
      BY <1>4, <1>6 DEF Outcome
    <2>2. PICK fails \in BOOLEAN : job'[j] = CloseFiles(r, done, fails)
      BY ZenonT(40), <1>2, <1>3, SettleEffect
    <2>3. /\ job'[j].state = IF fails THEN "failed" ELSE "complete"
          /\ ~job'[j].cancel /\ ~job'[j].discard
          /\ job[j].cancel \in BOOLEAN /\ job'[j].cancel \in BOOLEAN
      BY <1>0, <1>2, <1>6, <2>1, <2>2 DEF CloseFiles, JobRecord
    <2>4. current' = current
      <3>1. CASE current = j
        BY <1>2, <1>3, <2>3, <3>1, SettleEffect DEF Forgettable
      <3>2. CASE current # j
        BY <1>3, <3>2 DEF Settle
      <3> QED
        BY <3>1, <3>2
    <2> QED
      BY <1>4, <2>1, <2>3, <2>4 DEF Completes, Ends, Working
  <1> QED
    BY <1>5, <1>6

\* What a failed upload may do to what clients see of the job.
LEMMA UploadFailsMoves ==
    ASSUME NEW j \in Job, Fit(j), UploadFails(j)
    PROVE  Ends(j)
  <1> DEFINE s == IF job[j].cancel THEN "cancelled" ELSE "failed"
             r == [job[j] EXCEPT !.state = s]
  <1>0. /\ job[j] \in JobRecord /\ job[j].state # "absent"
        /\ job[j].discard => job[j].cancel
    BY DEF UploadFails, UploadResumed, Fit, StoreTypeOK, CoherentJob, Coherent, Ending,
       Reserving
  <1>1. /\ r \in JobRecord /\ r.state \in {"cancelled", "failed"}
        /\ r.discard = job[j].discard /\ r.cancel = job[j].cancel
    BY <1>0 DEF JobRecord, JobState
  <1>2. Settle(j, r, FALSE)
    BY DEF UploadFails
  <1> HIDE DEF r
  <1> QED
    BY <1>0, <1>1, <1>2, SettleEnds

\* What the end of a download may do to what clients see of the job.
LEMMA DownloadEndMoves ==
    ASSUME NEW j \in Job, Fit(j), DownloadEnd(j)
    PROVE  Stays(j) \/ Ends(j)
  <1> DEFINE r == [job[j] EXCEPT !.downloading = FALSE]
             s == [r EXCEPT !.state = "cancelled", !.result = FALSE]
  <1>0. job[j] \in JobRecord /\ job[j].state # "absent"
    BY DEF DownloadEnd, FinishDownload, Fit, StoreTypeOK, CoherentJob, Coherent, Reserving
  <1>1. /\ r \in JobRecord /\ r.state = job[j].state /\ r.cancel = job[j].cancel
        /\ r.discard = job[j].discard
    BY <1>0 DEF JobRecord
  <1>2. IF r.cancel THEN Settle(j, s, FALSE)
                    ELSE job' = [job EXCEPT ![j] = r] /\ current' = current
    BY DEF DownloadEnd, FinishDownload
  <1>3. s \in JobRecord /\ s.state = "cancelled" /\ s.cancel = r.cancel
    BY <1>1 DEF JobRecord, JobState
  <1> HIDE DEF r, s
  <1>4. CASE r.cancel
    BY <1>0, <1>1, <1>2, <1>3, <1>4, SettleEnds DEF JobRecord
  <1>5. CASE ~r.cancel
    BY <1>1, <1>2, <1>5 DEF Stays, SameStage, Fit, StoreTypeOK
  <1> QED
    BY <1>4, <1>5

\* The steps that neither cancel nor settle.
LEMMA QuietMoves ==
    ASSUME NEW j \in Job, Fit(j),
           \/ UploadBegin(j) \/ UploadChunk(j) \/ UploadEnd(j) \/ UploadWritten(j)
           \/ UploadReady(j) \/ StartRequest(j) \/ StartRefused(j) \/ Started(j)
           \/ ReserveFails(j) \/ Expire(j) \/ IoDone(j) \/ ExecuteBegin(j)
           \/ ProcessStep(j) \/ DownloadBegin(j) \/ DownloadSeek(j) \/ DownloadNext(j)
           \/ DownloadRead(j) \/ DownloadDisconnect(j)
    PROVE  Stays(j)
  <1>0. job[j] \in JobRecord /\ Coherent(job[j], co[j], call[j], life[j], current = j)
    BY DEF Fit, StoreTypeOK, CoherentJob
  <1>1. UNCHANGED current
    BY DEF UploadBegin, UploadChunk, UploadEnd, UploadWritten, UploadReady, StartRequest,
       StartRefused, Started, ReserveFails, Expire, IoDone, ExecuteBegin, ProcessStep,
       ProcessStart, ProcessEnter, ProcessStreamed, ProcessRewound, ProcessCancelled,
       ProcessError, ProcessReturn, ProcessFinished, DownloadBegin, DownloadSeek,
       DownloadNext, DownloadRead, DownloadDisconnect, jobVars, storeVars
  <1>2. CASE UNCHANGED job
    BY <1>1, <1>2 DEF Stays, SameStage
  <1>3. CASE UploadBegin(j) \/ Started(j)
    <2>1. PICK x \in Working : job' = [job EXCEPT ![j] = [job[j] EXCEPT !.state = x]]
      BY <1>3 DEF UploadBegin, Started, Working
    <2>2. job[j].state \in Working
      BY <1>3 DEF UploadBegin, Started, Startable, Working
    <2> QED
      BY <1>0, <1>1, <2>1, <2>2 DEF Stays, SameStage, Fit, StoreTypeOK, JobRecord
  <1>4. CASE UploadReady(j)
    <2>1. job[j].state \in Working
      BY <1>0, <1>4 DEF UploadReady, Coherent, Uploading, Working
    <2>2. job'[j] = [job[j] EXCEPT !.state = "ready"]
      BY <1>4 DEF UploadReady, Fit, StoreTypeOK
    <2> QED
      BY <1>0, <1>1, <2>1, <2>2 DEF Stays, SameStage, Working, JobRecord
  <1>5. CASE Expire(j) \/ ProcessEnter(j) \/ ProcessStreamed(j) \/ DownloadBegin(j)
    <2>1. \/ UNCHANGED job
          \/ job'[j] = [job[j] EXCEPT !.expired = TRUE]
          \/ job'[j] = [job[j] EXCEPT !.output = TRUE]
          \/ job'[j] = [job[j] EXCEPT !.result = TRUE]
          \/ job'[j] = [job[j] EXCEPT !.downloading = TRUE]
      BY <1>5 DEF Expire, ProcessEnter, ProcessStreamed, DownloadBegin, Fit, StoreTypeOK
    <2>2. job'[j].state = job[j].state /\ job'[j].cancel = job[j].cancel
      BY <1>0, <2>1 DEF JobRecord
    <2> QED
      BY <1>1, <2>2 DEF Stays, SameStage
  <1> QED
    BY <1>2, <1>3, <1>4, <1>5
       DEF UploadChunk, UploadEnd, UploadWritten, StartRequest, StartRefused,
       ReserveFails, IoDone, ExecuteBegin, ProcessStep, ProcessStart, ProcessRewound,
       ProcessCancelled, ProcessError, ProcessReturn, ProcessFinished, DownloadSeek,
       DownloadNext, DownloadRead, DownloadDisconnect, jobVars, storeVars

\* Every step moves at most one job.
LEMMA StoreMoves ==
    ASSUME StoreInv, [JobNext]_vars
    PROVE  \/ UNCHANGED <<job, current>>
           \/ \E j \in Job : Moves(j) /\ \A i \in Job \ {j} : job'[i] = job[i]
  <1>1. ASSUME NEW j \in Job, JobStep(j)
        PROVE  Moves(j) /\ \A i \in Job \ {j} : job'[i] = job[i]
    <2>1. Fit(j)
      BY InvFit
    <2>2. \A i \in Job \ {j} : job'[i] = job[i]
      BY <1>1, JobStepCoherent DEF JobStepOK, OthersKept
    <2>3. CASE GetExpired(j) \/ CancelJob(j) \/ ClearJob(j) \/ Reap(j)
      BY <2>1, <2>2, <2>3, CancelMoves
         DEF GetExpired, CancelJob, ClearJob, Reap, Found, Moves
    <2>4. CASE UploadFails(j) \/ ExecuteEnd(j) \/ DownloadEnd(j)
      BY <2>1, <2>2, <2>4, UploadFailsMoves, ExecuteEndMoves, DownloadEndMoves DEF Moves
    <2>5. ASSUME NEW m \in Mode, Reserve(j, m) PROVE Moves(j)
      <3>1. job[j] \in JobRecord /\ Coherent(job[j], co[j], call[j], life[j], current = j)
        BY <2>1 DEF Fit, StoreTypeOK, CoherentJob
      <3>2. job[j].state = "absent" /\ job[j].cancel = FALSE
        BY <2>5, <3>1 DEF Reserve, Acquire, Coherent, Reserving, Ending, Working, Ended,
           JobRecord, JobState
      <3>3. job'[j] = ReservedJob(m) /\ current = NoJob /\ current' = j
        BY <2>1, <2>5 DEF Reserve, Fit, StoreTypeOK
      <3> QED
        BY <3>2, <3>3 DEF Moves, Appears, ReservedJob, AbsentJob, Working
    <2>6. CASE \/ UploadBegin(j) \/ UploadChunk(j) \/ UploadEnd(j) \/ UploadWritten(j)
               \/ UploadReady(j) \/ StartRequest(j) \/ StartRefused(j) \/ Started(j)
               \/ ReserveFails(j) \/ Expire(j) \/ IoDone(j) \/ ExecuteBegin(j)
               \/ ProcessStep(j) \/ DownloadBegin(j) \/ DownloadSeek(j)
               \/ DownloadNext(j) \/ DownloadRead(j) \/ DownloadDisconnect(j)
      BY <2>1, <2>2, <2>6, QuietMoves DEF Moves
    <2> QED
      BY <1>1, <2>2, <2>3, <2>4, <2>5, <2>6
         DEF JobStep, RequestStep, UploadStep, DownloadStep, ExecuteStep
  <1>2. CASE CloseBegin
    <2>1. CASE current = NoJob
      BY <1>2, <2>1, JobAssumption DEF CloseBegin, storeVars
    <2>2. CASE current # NoJob
      <3>1. PICK j \in Job : current = j /\ Cancel(j, TRUE)
        BY <1>2, <2>2 DEF CloseBegin
      <3>2. Moves(j) /\ \A i \in Job \ {j} : job'[i] = job[i]
        BY <3>1, InvFit, CancelMoves, CancelOK DEF Moves, JobStepOK, OthersKept
      <3> QED
        BY <3>2
    <2> QED
      BY <2>1, <2>2
  <1>3. CASE CloseJobFiles
    <2>1. PICK j \in Job : /\ j = closingJob /\ JobStepOK(j)
                           /\ Settle(j, job[j], FALSE) /\ job[j].discard
                           /\ current \in {j, NoJob} /\ ~job[j].downloading
      BY <1>3, CloseJobFilesOK DEF CloseJobFiles, StoreInv, JobInv, Closing
    <2>2. Fit(j)
      BY InvFit
    <2>3. job[j] \in JobRecord /\ co[j] \in CoRecord
      BY <2>2 DEF Fit, StoreTypeOK
    <2>4. co[j].up = "idle" /\ co[j].run \in {"idle", "done"}
      BY <1>3, <2>1 DEF CloseJobFiles, StoreInv, JobInv, Closing
    <2>5. job[j].state \in {"failed", "cancelled"} /\ job[j].cancel
      BY <2>1, <2>2, <2>3, <2>4
         DEF Fit, CoherentJob, Coherent, Reserving, Uploading, Running, Ending, Working,
         Ended, Busy, JobRecord, JobState
    <2> QED
      BY <2>1, <2>2, <2>3, <2>5, SettleEnds DEF Moves, JobStepOK, OthersKept
  <1>4. CASE CloseAwaited \/ CloseStoreWorker \/ CloseEnd
    BY <1>4 DEF CloseAwaited, CloseStoreWorker, CloseEnd, jobVars, storeVars
  <1>5. CASE OtherStep \/ UNCHANGED vars
    BY <1>5 DEF OtherStep, vars, jobVars, storeVars
  <1> QED
    BY <1>1, <1>2, <1>3, <1>4, <1>5 DEF JobNext, CloseStep

\* A cancelled job never becomes complete, and never works again unless a coroutine
\* still owned its files (api_jobs.py:172-192, 332, 247).
THEOREM JobCancelIsFinal == JobSpec => CancelIsFinal
  <1>1. ASSUME StoreInv, [JobNext]_vars, NEW j \in Job, job[j].cancel
        PROVE  /\ job'[j].state = "complete" => job[j].state = "complete"
               /\ job'[j].state \in Working => job[j].state \in Busy
    <2>1. job[j] \in JobRecord /\ Coherent(job[j], co[j], call[j], life[j], current = j)
      BY <1>1 DEF StoreInv, JobInv, JobTypeOK
    <2>2. job[j].state \in Working => job[j].state \in Busy
      BY <1>1, <2>1 DEF Coherent, Uploading, Working, Busy
    <2>3. CASE job'[j] = job[j]
      BY <2>2, <2>3
    <2>4. CASE Moves(j)
      BY <1>1, <2>1, <2>2, <2>4
         DEF Moves, Stays, Appears, Completes, IsDoomed, Ends, SameStage, Working
    <2> QED
      BY <1>1, <2>3, <2>4, StoreMoves
  <1>2. StoreInv /\ [JobNext]_vars =>
           [\A j \in Job :
               job[j].cancel =>
                  /\ job'[j].state = "complete" => job[j].state = "complete"
                  /\ job'[j].state \in Working => job[j].state \in Busy]_vars
    BY <1>1
  <1> QED
    BY <1>2, StoreInvariant, PTL DEF JobSpec, CancelIsFinal

\* The safety part of ImplementsLifecycle: the store does to its jobs only what
\* docs/API.md promises.
LEMMA LifeStep == StoreInv /\ [JobNext]_vars => [Life!LifeNext]_(Life!jvars)
  <1> SUFFICES ASSUME StoreInv, [JobNext]_vars
               PROVE  Life!LifeNext \/ UNCHANGED Life!jvars
    OBVIOUS
  <1>0. \A i \in Job : job[i] \in JobRecord
    BY DEF StoreInv, JobInv, JobTypeOK
  <1>1. CASE UNCHANGED <<job, current>>
    BY <1>1 DEF Life!jvars
  <1>2. ASSUME NEW j \in Job, Moves(j), \A i \in Job \ {j} : job'[i] = job[i]
        PROVE  Life!LifeNext \/ UNCHANGED Life!jvars
    <2> DEFINE st == [i \in Job |-> Stage(job[i].state)]
               dm == [i \in Job |-> job[i].cancel]
    <2>1. /\ st' = [st EXCEPT ![j] = Stage(job'[j].state)]
          /\ dm' = [dm EXCEPT ![j] = job'[j].cancel]
      BY <1>2
    <2>2. st[j] = Stage(job[j].state) /\ dm[j] = job[j].cancel
      OBVIOUS
    <2>3. /\ \A x \in Working : Stage(x) = "working"
          /\ Stage("absent") = "absent" /\ Stage("complete") = "available"
          /\ \A x \in {"failed", "cancelled"} : Stage(x) = "over"
      BY DEF Stage, Working
    <2>4. SameStage(j) => Stage(job'[j].state) = Stage(job[j].state)
      BY <2>3 DEF SameStage
    <2>5. job[j].state # "absent" => Stage(job[j].state) # "absent"
      BY <1>0, <2>3 DEF JobRecord, JobState, Stage, Working
    <2> HIDE DEF Stage
    <2>6. CASE Stays(j)
      <3>1. st' = st /\ dm' = dm /\ current' = current
        BY <2>1, <2>2, <2>4, <2>6 DEF Stays
      <3> QED
        BY <3>1 DEF Life!jvars
    <2>7. CASE Appears(j)
      <3>1. Life!Reserved(j)
        BY <2>1, <2>2, <2>3, <2>7 DEF Appears, Life!Reserved
      <3> QED
        BY <3>1 DEF Life!LifeNext
    <2>8. CASE Completes(j)
      <3>1. Life!Finished(j)
        BY <2>1, <2>2, <2>3, <2>8 DEF Completes, Life!Finished
      <3> QED
        BY <3>1 DEF Life!LifeNext
    <2>9. CASE IsDoomed(j)
      <3>1. Life!Doomed(j)
        BY <2>1, <2>2, <2>4, <2>5, <2>9 DEF IsDoomed, Life!Doomed
      <3> QED
        BY <3>1 DEF Life!LifeNext
    <2>10. CASE Ends(j)
      <3>1. st[j] # "absent" /\ st' = [st EXCEPT ![j] = "over"]
        BY <2>1, <2>2, <2>3, <2>5, <2>10 DEF Ends
      <3>2. dm[j] \in BOOLEAN /\ dm'[j] = job'[j].cancel
        BY <1>0, <2>1, <2>2 DEF JobRecord
      <3>3. \E d \in BOOLEAN : dm' = [dm EXCEPT ![j] = dm[j] \/ d]
        <4>1. CASE job'[j].cancel = TRUE
          <5>1. dm' = [dm EXCEPT ![j] = dm[j] \/ TRUE]
            BY <2>1, <3>2, <4>1
          <5> QED
            BY <5>1
        <4>2. CASE job'[j].cancel = job[j].cancel
          <5>1. dm' = [dm EXCEPT ![j] = dm[j] \/ FALSE]
            BY <2>1, <2>2, <3>2, <4>2
          <5> QED
            BY <5>1
        <4> QED
          BY <2>10, <4>1, <4>2 DEF Ends
      <3>4. current' = current \/ (current' = NoJob /\ dm'[j])
        BY <2>10, <3>2 DEF Ends
      <3>5. current' \in {current} \cup {NoJob : k \in {i \in {j} : dm'[i]}}
        BY <3>4
      <3>6. Life!Ended(j)
        BY <3>1, <3>3, <3>5 DEF Life!Ended
      <3> QED
        BY <3>6 DEF Life!LifeNext
    <2> QED
      BY <1>2, <2>6, <2>7, <2>8, <2>9, <2>10 DEF Moves
  <1> QED
    BY <1>1, <1>2, StoreMoves

\* The store implements the lifecycle of docs/API.md (safety; its fairness is checked
\* on instances by ImplementsLifecycle).
THEOREM StoreImplementsLifecycle == JobSpec => Life!LifeSpec
  <1>1. JobInit => Life!LifeInit
    BY DEF JobInit, AbsentJob, Life!LifeInit, Stage, Working
  <1> QED
    BY <1>1, LifeStep, StoreInvariant, PTL DEF JobSpec, Life!LifeSpec
=============================================================================
