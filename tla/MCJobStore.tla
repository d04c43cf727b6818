----------------------------- MODULE MCJobStore -----------------------------
(***************************************************************************)
(* Two jobs, one after the other in the store, and the lease and call of a *)
(* short request that competes for the worker.                             *)
(***************************************************************************)
EXTENDS JobStore
=============================================================================
