----------------------------- MODULE MCAccounts -----------------------------
(***************************************************************************)
(* Instances of Accounts for TLC.  Requests and tokens are interchangeable.*)
(***************************************************************************)
EXTENDS Accounts, TLC

AccountsSymmetry == Permutations(Requests) \cup Permutations(Tokens)

Keep == [role |-> "keep", permissions |-> "keep", active |-> "keep"]

(* The roles below admin do not differ here, so one stands for them. *)
MCRoles == {"admin", "viewer"}

(* Demote to a viewer who keeps manage_users, promote, disable, enable. *)
MCChanges == {[Keep EXCEPT !.role = "viewer", !.permissions = "with"],
              [Keep EXCEPT !.role = "admin"],
              [Keep EXCEPT !.active = "off"],
              [Keep EXCEPT !.active = "on"]}
=============================================================================
