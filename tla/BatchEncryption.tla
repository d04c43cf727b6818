--------------------------- MODULE BatchEncryption ---------------------------
(***************************************************************************)
(* BatchEncryptWorkflow.tsx, and whichever view follows it in the page: a  *)
(* key file is chosen and inspected, a batch is encrypted for it, all on   *)
(* one cookie, one shared health request and a service that restarts.      *)
(***************************************************************************)
EXTENDS BatchFiles, KeyInspection, FiniteSets

CONSTANT MaxOthers      \* a bound: requests of the other views

ASSUME ViewAssumption == MaxOthers \in Nat

VARIABLE others         \* the requests of the other views
viewVars == <<apiVars, batchVars, inspectionVars, others>>

ViewInit == ApiInit /\ BatchInit /\ InspectionInit /\ others = {}

\* While a batch is under way or shown, the choices are disabled.
locked == batch.busy \/ batch.items.run # 0
canStart == ~locked /\ Shown.value = "result"

\* The requests made, and those the batch is yet to make.
Used ==
    Len(api.req) + IF batch.active # 0 /\ isCurrent(batch.active)
                   THEN Files - runs[batch.active].item ELSE 0

ChoosesKey ==
    /\ batch.mounted /\ ~locked
    /\ \E file \in Key \cup {NoKey} : Choose(file)
    /\ UNCHANGED <<batchVars, others>>

Inspects ==
    /\ \/ /\ batch.mounted /\ Effect
          /\ Used < MaxRequests \/ inspection.file \notin Key \ LargeKey
       \/ \E e \in DOMAIN effects : Settle(e)
    /\ UNCHANGED <<batchVars, others>>

submit ==
    /\ canStart /\ Used + Files <= MaxRequests
    /\ \E kind \in BatchKinds : start(kind)
    /\ UNCHANGED <<inspectionVars, others>>

Encrypts ==
    /\ cancel \/ \E k \in DOMAIN runs : processBatch(k)
    /\ UNCHANGED <<inspectionVars, others>>

\* Another batch starts with another choice of the key.
clearBatch ==
    /\ ~batch.busy /\ clear
    /\ inspection' = [inspection EXCEPT !.file = NoKey]
    /\ UNCHANGED <<effects, others>>

\* The user goes to another view.
Leave ==
    /\ batch.mounted
    /\ unmount(CleanedUpPage(AbortedBatch(api)))
    /\ effects' = CleanedUpEffects
    /\ UNCHANGED <<inspection, others>>

\* The other view makes a request, and may abort it.
Other ==
    /\ ~batch.mounted
    /\ \/ /\ Cardinality(others) < MaxOthers /\ Used < MaxRequests
          /\ \E kind \in Kinds : Page(Started(api, kind))
          /\ others' = others \cup {Len(api.req) + 1}
       \/ /\ \E r \in others : ~Done(api.req[r]) /\ Page(Aborted(api, r))
          /\ UNCHANGED others
    /\ UNCHANGED <<batchVars, inspectionVars>>

ViewNext ==
    \/ ApiNext /\ UNCHANGED <<batchVars, inspectionVars, others>>
    \/ ChoosesKey \/ Inspects \/ submit \/ Encrypts \/ clearBatch \/ Leave \/ Other

ViewSpec == ViewInit /\ [][ViewNext]_viewVars
=============================================================================
