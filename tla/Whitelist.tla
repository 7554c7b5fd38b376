----------------------------- MODULE Whitelist -----------------------------
(***************************************************************************)
(* What the feed-manager promises about the whitelist of one client: what  *)
(* it shows is a list that every change enters at once, on the list as it  *)
(* is.  Nothing is promised once changes have overlapped (`lost').         *)
(***************************************************************************)
CONSTANT Domains

VARIABLES list,       \* the domains on the whitelist
          lost        \* whether changes have overlapped

vars == <<list, lost>>

(* An operator may have written a list into the txt. *)
Init == list \in SUBSET Domains /\ lost = FALSE

(* A domain that is listed may be added again. *)
Add(d) == /\ list' = list \cup {d}
          /\ UNCHANGED lost

Remove(d) == /\ d \in list
             /\ list' = list \ {d}
             /\ UNCHANGED lost

Lose == list' \in SUBSET Domains /\ lost' = TRUE

Next == \/ \E d \in Domains : Add(d) \/ Remove(d)
        \/ Lose

Spec == Init /\ [][Next]_vars
=============================================================================
