----------------------------- MODULE CaseTriage -----------------------------
(***************************************************************************)
(* What the case manager promises about one (domain, client) case, with    *)
(* every request taking effect at once.  A case is absent, open or closed. *)
(* Its severity belongs either to the classifier, whose reports replace    *)
(* it, or to an analyst, whose rating stands until released; a report that *)
(* outranks the analyst's rating is kept as a proposal next to it.  A      *)
(* closed case comes back only when a report outranks what it was closed   *)
(* at, or when an analyst reopens it.                                      *)
(*                                                                         *)
(* A case may be in `lost': an update to it was overwritten by a request   *)
(* that had read the case before that update.  Nothing is promised about   *)
(* such a case; everything is promised about all the others.               *)
(***************************************************************************)
EXTENDS Severity

CONSTANTS Cases,      \* the (domain, client) pairs
          Reported,   \* the severities a report may carry
          Chosen      \* the severities an analyst may choose

VARIABLES docket,     \* docket[c]: the promised view of case c
          lost        \* the cases on which an update was overwritten

vars == <<docket, lost>>

NoProposal == "null"

Entry == [state    : {"absent", "open", "closed"},
          severity : AnySeverity,
          owner    : {"classifier", "analyst"},
          proposal : Severities \cup {NoProposal}]

Absent == [state |-> "absent", severity |-> Unrated,
           owner |-> "classifier", proposal |-> NoProposal]

Init == /\ docket = [c \in Cases |-> Absent]
        /\ lost = {}

Update(c, entry) == /\ docket' = [docket EXCEPT ![c] = entry]
                    /\ UNCHANGED lost

On(c) == docket[c].state # "absent"

-----------------------------------------------------------------------------
(* A report of severity s: opens an unknown domain, reopens a closed case   *)
(* it escalates, and otherwise refreshes an open one.                       *)

Open(c, s) ==
    /\ docket[c].state = "absent"
    /\ Update(c, [Absent EXCEPT !.state = "open", !.severity = s])

Rate(c, s) ==
    /\ docket[c].owner = "classifier"
    /\ \/ docket[c].state = "open"
       \/ docket[c].state = "closed" /\ Escalates(s, docket[c].severity)
    /\ Update(c, [docket[c] EXCEPT !.state = "open", !.severity = s])

Propose(c, s) ==
    /\ On(c)
    /\ docket[c].owner = "analyst"
    /\ Escalates(s, docket[c].severity)
    /\ Update(c, [docket[c] EXCEPT !.state = "open", !.proposal = s])

(* The analyst's decisions. *)
Decide(c, s) ==
    /\ On(c)
    /\ Update(c, [docket[c] EXCEPT !.severity = s, !.owner = "analyst",
                                   !.proposal = NoProposal])

Release(c) ==
    /\ On(c)
    /\ Update(c, [docket[c] EXCEPT !.owner = "classifier",
                                   !.proposal = NoProposal])

Accept(c) ==
    /\ docket[c].proposal # NoProposal
    /\ Update(c, [docket[c] EXCEPT !.severity = docket[c].proposal,
                                   !.owner = "analyst",
                                   !.proposal = NoProposal])

Decline(c) ==
    /\ docket[c].proposal # NoProposal
    /\ Update(c, [docket[c] EXCEPT !.proposal = NoProposal])

File(c, state) ==
    /\ On(c)
    /\ Update(c, [docket[c] EXCEPT !.state = state])

(* An overlapping request overwrote an update of case c. *)
Lose(c) ==
    /\ \E entry \in Entry : docket' = [docket EXCEPT ![c] = entry]
    /\ lost' = lost \cup {c}

Promised(c) ==
    \/ \E s \in Reported : Open(c, s) \/ Rate(c, s) \/ Propose(c, s)
    \/ \E s \in Chosen : Decide(c, s)
    \/ \E state \in {"open", "closed"} : File(c, state)
    \/ Release(c) \/ Accept(c) \/ Decline(c)

Next == \E c \in Cases : Promised(c) \/ Lose(c)

Spec == Init /\ [][Next]_vars
=============================================================================
