-------------------------- MODULE MCFilePublication --------------------------
(***************************************************************************)
(* Commands of every kind on the two names of a key pair.                  *)
(***************************************************************************)
EXTENDS FilePublication
=============================================================================
