------------------------------ MODULE MCDomain ------------------------------
(***************************************************************************)
(* Instances of Classifier and IntelHistory for TLC: what a scan concludes *)
(* about a domain, and what it keeps.  Neither reads a variable of the     *)
(* other, and each property is about one of them, so one moves while the   *)
(* other rests where it began: every behaviour of each is explored, and    *)
(* their states add up instead of multiplying.                             *)
(*                                                                         *)
(* Ages lie on both sides of every limit and on the one the rules disagree *)
(* about (540 is neither recent nor aged); facets are taken one and two at *)
(* a time.                                                                 *)
(***************************************************************************)
EXTENDS Classifier, IntelHistory

Unremarkable == [active |-> FALSE, longest |-> "minimal", found |-> {},
                 nameserver |-> "other", address |-> "none", mail |-> "none",
                 enterprise |-> FALSE, age |-> 0, updated |-> FALSE]

SeenRests == seen = Unremarkable
KeptRests == watched = {"records"} /\ ~there /\ scan = NoScan

DomainInit == FirstSeen /\ Init /\ (SeenRests \/ KeptRests)

Concluding == KeptRests /\ UNCHANGED vars
Keeping    == SeenRests /\ UNCHANGED seen

(* The actions of SeenNext and of Next. *)
DomainNext ==
    \/ Concluding /\ Change
    \/ \E age \in Ages : Concluding /\ GrowOlder(age)
    \/ \E age \in Ages : Concluding /\ FindWhois(age)
    \/ Concluding /\ Renew
    \/ Concluding /\ LoseWhois
    \/ \E reading \in Readings : Keeping /\ Gather(reading)
    \/ Keeping /\ Diff
    \/ Keeping /\ DiffLost
    \/ Keeping /\ AppendPart
    \/ Keeping /\ AppendRest
    \/ Keeping /\ AppendCut
    \/ Keeping /\ Save
    \/ Keeping /\ SaveFails
    \/ Keeping /\ Crash

DomainSpec == DomainInit /\ [][DomainNext]_<<seen, vars>>
=============================================================================
