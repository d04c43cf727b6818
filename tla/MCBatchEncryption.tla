-------------------------- MODULE MCBatchEncryption --------------------------
(***************************************************************************)
(* A page whose requests are forgotten once nothing depends on them, but   *)
(* for what the invariants say of them: no violation looks like a state    *)
(* that has been seen.                                                     *)
(***************************************************************************)
EXTENDS BatchEncryption, TLC

\* Nothing is on its way for request r, and whoever made it has seen its end.
Over(r) ==
    /\ Done(api.req[r]) /\ wire[r] = {}
    /\ \A k \in DOMAIN runs : runs[k].request = r => runs[k].ended
    /\ \A e \in DOMAIN effects : effects[e].request = r => effects[e].settled /\ ~effects[e].current

Seen ==
    <<[api EXCEPT !.req = [r \in Requests(api) |-> IF Over(r) THEN <<>> ELSE <<@[r], handled[r]>>]],
      service, configured, wire, elsewhere, batch,
      [k \in DOMAIN runs |-> IF runs[k].ended THEN <<>> ELSE <<runs[k]>>],
      inspection,
      [e \in DOMAIN effects |-> IF Over(effects[e].request) THEN <<>> ELSE <<effects[e]>>],
      {r \in others : ~Over(r)},
      HandledOnce, ExpectationEnforced, BatchAlone, InspectionShown>>

\* Small key files are alike.
Alike == Permutations(Key \ LargeKey)
=============================================================================
