---------------------------- MODULE MCFeedStore ----------------------------
(***************************************************************************)
(* Instances of FeedStore for TLC.  The handlers are interchangeable, and  *)
(* so are the domains; two handlers overtake each other in every order.    *)
(***************************************************************************)
EXTENDS FeedStore, TLC

Symmetry == Permutations(Handlers) \cup Permutations(Domains)
=============================================================================
