------------------------------ MODULE FeedList ------------------------------
(***************************************************************************)
(* What the feed-manager promises about the list of monitored domains:     *)
(* every change takes effect at once, on the list as it is.  Nothing is    *)
(* promised once changes have overlapped (`lost').                         *)
(***************************************************************************)
CONSTANTS Domains, Clients

VARIABLES list,       \* the monitored <<domain, client>> pairs
          lost        \* whether changes have overlapped

vars == <<list, lost>>

Entries == Domains \X Clients

Init == list = {} /\ lost = FALSE

Add(e) == /\ e \notin list
          /\ list' = list \cup {e}
          /\ UNCHANGED lost

(* A domain of a client, or of every client. *)
Remove(gone) == /\ gone \cap list # {}
                /\ list' = list \ gone
                /\ UNCHANGED lost

Onboard(c, ds) == /\ list' = list \cup (ds \X {c})
                  /\ UNCHANGED lost

Lose == list' \in SUBSET Entries /\ lost' = TRUE

Next == \/ \E e \in Entries : Add(e)
        \/ \E d \in Domains, cs \in SUBSET Clients : Remove({d} \X cs)
        \/ \E c \in Clients, ds \in SUBSET Domains : Onboard(c, ds)
        \/ Lose

Spec == Init /\ [][Next]_vars
=============================================================================
