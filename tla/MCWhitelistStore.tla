-------------------------- MODULE MCWhitelistStore --------------------------
(***************************************************************************)
(* Instances of WhitelistStore for TLC, with interchangeable handlers and  *)
(* interchangeable domains.                                                *)
(***************************************************************************)
EXTENDS WhitelistStore, TLC

Symmetry == Permutations(Handlers) \cup Permutations(Domains)
=============================================================================
