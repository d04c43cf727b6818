------------------------------ MODULE BatchFiles ------------------------------
(***************************************************************************)
(* useBatchFiles.ts: the files of a batch go through one operation, one    *)
(* after the other, each with a request of its own.  A run is a call of    *)
(* start; its loop awaits the request of one file, and what it does when   *)
(* that is done, up to the next request, is one step.  The user may cancel *)
(* a batch or leave the view at any time, and then start another one.      *)
(* Definitions that no other one uses are faulty forms of the one after    *)
(* them.                                                                   *)
(***************************************************************************)
EXTENDS ApiClient

CONSTANTS
    BatchKinds,         \* kinds of requests a batch makes
    Files,              \* how many files a batch has
    MaxRuns             \* a bound: batches started

ASSUME BatchAssumption ==
    BatchKinds \subseteq {"plain", "protected"} /\ Files \in Nat \ {0} /\ MaxRuns \in Nat

VARIABLES
    batch,      \* the hook: items, active (activeRef), busy, mounted
    runs        \* runs[k]: cancelled, operation (kept), item, request, ended

batchVars == <<batch, runs>>

\* The items shown: of which run, the status of each and the request its result is of.
NoItems == [run |-> 0, status |-> <<>>, result |-> <<>>]

BatchInit ==
    /\ batch = [items |-> NoItems, active |-> 0, busy |-> FALSE, mounted |-> TRUE]
    /\ runs = <<>>

isCurrent(k) == batch.mounted /\ batch.active = k /\ ~runs[k].cancelled

cancelUnfinished(items) ==
    [items EXCEPT !.status =
        [i \in DOMAIN @ |-> IF @[i] \in {"queued", "processing"} THEN "cancelled" ELSE @[i]]]

updateItem(items, k, i, status, result) ==
    IF items.run = k THEN [items EXCEPT !.status[i] = status, !.result[i] = result] ELSE items

\* cancel, as what becomes of the hook's state h and of the run k.
CancelledReleasing(h) ==
    [h EXCEPT !.items = IF h.mounted THEN cancelUnfinished(@) ELSE @, !.active = 0]
Cancelled(h) == [h EXCEPT !.items = IF h.mounted THEN cancelUnfinished(@) ELSE @]
CancelledRun(run) == [run EXCEPT !.cancelled = TRUE, !.operation = FALSE]

\* The finally clause of processBatch.
Released(h, k) ==
    IF h.active = k THEN [h EXCEPT !.active = 0, !.busy = @ /\ ~h.mounted] ELSE h
Ended(run) == [run EXCEPT !.operation = FALSE, !.ended = TRUE]

\* start, and the loop up to its first request.
start(kind) ==
    /\ batch.mounted /\ batch.active = 0
    /\ Len(runs) < MaxRuns
    /\ LET k == Len(runs) + 1
           queued == [run |-> k, status |-> [i \in 1..Files |-> "queued"],
                      result |-> [i \in 1..Files |-> 0]]
       IN /\ batch' = [batch EXCEPT !.active = k, !.busy = TRUE,
                                    !.items = updateItem(queued, k, 1, "processing", 0)]
          /\ runs' = Append(runs, [cancelled |-> FALSE, operation |-> TRUE, kind |-> kind,
                                   item |-> 1, request |-> Len(api.req) + 1, ended |-> FALSE])
    /\ Page(Started(api, kind))

Outcome(k) == api.req[runs[k].request].outcome

\* The loop breaks: the run is not current any more, or its request was aborted.
Breaks(k) ==
    /\ ~isCurrent(k) \/ Outcome(k) = "aborted"
    /\ batch' = Released(IF isCurrent(k) THEN Cancelled(batch) ELSE batch, k)
    /\ runs' = [runs EXCEPT ![k] = Ended(IF isCurrent(k) THEN CancelledRun(@) ELSE @)]
    /\ UNCHANGED apiVars

\* The item has its result or error, and the loop goes on to the next one.
EnteredAlways(k) == Outcome(k) # "aborted"
Enters(k) == isCurrent(k) /\ Outcome(k) # "aborted"

GoesOn(k) ==
    /\ Enters(k)
    /\ LET run == runs[k]
           status == IF Outcome(k) = "ok" THEN "complete" ELSE "failed"
           items == updateItem(batch.items, k, run.item, status, run.request)
       IN IF run.item = Files
          THEN /\ batch' = Released([batch EXCEPT !.items = items], k)
               /\ runs' = [runs EXCEPT ![k] = Ended(@)]
               /\ UNCHANGED apiVars
          ELSE /\ batch' = [batch EXCEPT !.items = updateItem(items, k, run.item + 1, "processing", 0)]
               /\ runs' = [runs EXCEPT ![k].item = @ + 1, ![k].request = Len(api.req) + 1]
               /\ Page(Started(api, run.kind))

processBatch(k) ==
    /\ ~runs[k].ended /\ Done(api.req[runs[k].request])
    /\ Breaks(k) \/ GoesOn(k)

\* What cancel leaves of the page and of the runs, if there is a batch.
AbortedBatch(a) == IF batch.active = 0 THEN a ELSE Aborted(a, runs[batch.active].request)
CancelledRuns ==
    [k \in DOMAIN runs |-> IF k = batch.active THEN CancelledRun(runs[k]) ELSE runs[k]]

\* The user cancels the batch.
cancel ==
    /\ batch.active # 0
    /\ batch' = Cancelled(batch)
    /\ runs' = CancelledRuns
    /\ Page(AbortedBatch(api))

clear ==
    /\ batch.mounted /\ batch.active = 0
    /\ batch' = [batch EXCEPT !.items = NoItems]
    /\ UNCHANGED <<runs, apiVars>>

\* The view is left; page is what that makes of the page.
unmount(page) ==
    /\ batch' = [Cancelled(batch) EXCEPT !.mounted = FALSE]
    /\ runs' = CancelledRuns
    /\ Page(page)

-----------------------------------------------------------------------------
\* At most one operation of a batch is under way, also if one was cancelled, ignores the
\* abort and another batch is wanted; and the operation, which may hold a password, is
\* kept by no run but one that goes on (useBatchFiles.ts:66-72, 84, 115-121).
BatchAlone ==
    \A k \in DOMAIN runs :
        /\ ~runs[k].ended => batch.active = k
        /\ runs[k].operation => ~runs[k].ended /\ ~runs[k].cancelled /\ batch.mounted

\* An item that is settled stays as it is, whatever answer comes late, until the user
\* starts another batch or clears this one; a result is of the item's own file, and none
\* is entered once the batch was cancelled (useBatchFiles.ts:91-114).
LateResultDropped ==
    [][batch'.items.run # 0 /\ batch'.items.run = batch.items.run =>
          \A i \in 1..Files :
             batch.items.status[i] \in {"complete", "failed", "cancelled"} =>
                /\ batch'.items.status[i] = batch.items.status[i]
                /\ batch'.items.result[i] = batch.items.result[i]]_batch
=============================================================================
