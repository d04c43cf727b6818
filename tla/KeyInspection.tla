---------------------------- MODULE KeyInspection ----------------------------
(***************************************************************************)
(* useKeyInspection.ts: the key file the user chose is inspected by the    *)
(* service, and what is shown is about the file that is chosen now.  React *)
(* runs the effect of a choice some time after it was rendered, and first  *)
(* cleans up the effect before.  Definitions that no other one uses are    *)
(* faulty forms of the one after them.                                     *)
(***************************************************************************)
EXTENDS ApiClient

CONSTANTS
    Key,                \* key files
    LargeKey,           \* those above the size limit
    NoKey,
    MaxChoices          \* a bound: how often the user chooses

ASSUME InspectionAssumption ==
    LargeKey \subseteq Key /\ NoKey \notin Key /\ MaxChoices \in Nat

VARIABLES
    inspection, \* the hook: file (its argument), state, effect (the last that ran)
    effects     \* effects[e]: file, request (0 for none), current, settled

inspectionVars == <<inspection, effects>>

INITIAL_STATE == [sourceFile |-> NoKey, value |-> "none", request |-> 0, loading |-> FALSE]

InspectionInit ==
    /\ inspection = [file |-> NoKey, ran |-> NoKey, state |-> INITIAL_STATE, choices |-> 0]
    /\ effects = <<>>

Choose(file) ==
    /\ inspection.choices < MaxChoices
    /\ file # inspection.file
    /\ inspection' = [inspection EXCEPT !.file = file, !.choices = @ + 1]
    /\ UNCHANGED <<effects, apiVars>>

\* The cleanup of the effect that runs, as what it leaves of the page and of the effects.
Running == {e \in DOMAIN effects : effects[e].current}
CleanedUpPage(a) ==
    [a EXCEPT !.req = [r \in DOMAIN @ |-> IF \E e \in Running : effects[e].request = r
                                           THEN Aborted(a, r).req[r] ELSE @[r]]]
CleanedUpEffects == [e \in DOMAIN effects |-> [effects[e] EXCEPT !.current = FALSE]]

\* The effect of the file that was rendered last.
Effect ==
    LET file == inspection.file
        page == CleanedUpPage(api)
        shown(value, loading) ==
            [sourceFile |-> file, value |-> value, request |-> 0, loading |-> loading]
    IN /\ inspection.ran # file
       /\ IF file \in Key \ LargeKey
          THEN /\ Page(Started(page, "plain"))
               /\ effects' = Append(CleanedUpEffects, [file |-> file, request |-> Len(api.req) + 1,
                                                   current |-> TRUE, settled |-> FALSE])
               /\ inspection' = [inspection EXCEPT !.ran = file, !.state = shown("none", TRUE)]
          ELSE /\ Page(page)
               /\ effects' = CleanedUpEffects
               /\ inspection' = [inspection EXCEPT !.ran = file,
                       !.state = IF file = NoKey THEN INITIAL_STATE ELSE shown("error", FALSE)]

\* The inspection of an effect has a result or an error.
HeededAlways(e) == TRUE
Heeded(e) == effects[e].current /\ ~api.req[effects[e].request].aborted

Settle(e) ==
    LET request == effects[e].request
        outcome == api.req[request].outcome
    IN /\ ~effects[e].settled /\ Done(api.req[request])
       /\ effects' = [effects EXCEPT ![e].settled = TRUE]
       /\ inspection' =
            IF Heeded(e) /\ outcome # "aborted"
            THEN [inspection EXCEPT !.state =
                    [sourceFile |-> effects[e].file, request |-> request, loading |-> FALSE,
                     value |-> IF outcome = "ok" THEN "result" ELSE "error"]]
            ELSE inspection
       /\ UNCHANGED apiVars

-----------------------------------------------------------------------------
\* What the view shows.
Shown ==
    IF inspection.state.sourceFile # inspection.file
    THEN [sourceFile |-> inspection.file, value |-> "none", request |-> 0,
          loading |-> inspection.file \in Key \ LargeKey]
    ELSE inspection.state

\* The view never shows the result of another file than the one chosen, and what the
\* inspection of the chosen file found is never lost to the late end of an earlier one:
\* once it is there the view is not loading (useKeyInspection.ts:48-73).
InspectionShown ==
    /\ Shown.sourceFile = inspection.file
    /\ Shown.request # 0 => \E e \in DOMAIN effects : effects[e].file = inspection.file
                                                      /\ effects[e].request = Shown.request
    /\ inspection.file = inspection.ran /\ inspection.file \in Key
         => \A e \in DOMAIN effects :
               effects[e].current /\ effects[e].settled => ~Shown.loading
=============================================================================
