---------------------------- MODULE MCCaseManager ----------------------------
(***************************************************************************)
(* Instances of CaseManager for TLC.  Cases never interact, so one case    *)
(* and overlapping requests on it show every behaviour of a case; requests *)
(* are interchangeable.                                                    *)
(***************************************************************************)
EXTENDS CaseManager, TLC

RequestSymmetry == Permutations(Requests)
=============================================================================
