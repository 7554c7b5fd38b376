---------------------------- MODULE MCWhoisCache ----------------------------
(***************************************************************************)
(* Instances of WhoisCache for TLC.  Without symmetry, since TurnsGoOn is  *)
(* a liveness property.                                                    *)
(***************************************************************************)
EXTENDS WhoisCache
=============================================================================
