--------------------------- MODULE MCCryptoService ---------------------------
(***************************************************************************)
(* One job and two short requests: a request cancelled while its function  *)
(* executes, and a job and a second request that ask for the worker then.  *)
(***************************************************************************)
EXTENDS CryptoService
=============================================================================
