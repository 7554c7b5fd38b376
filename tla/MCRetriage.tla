----------------------------- MODULE MCRetriage -----------------------------
(***************************************************************************)
(* ScanFlow with a history of the cases that whitelist_case has resolved,  *)
(* to be held against what its docstring says of them.                     *)
(***************************************************************************)
EXTENDS MCScanFlow

VARIABLE resolved    \* history: domains whose case whitelist_case closed while
                     \* no run was under way, and which have been closed and on
                     \* the whitelist ever since

ClosedNow == IF run.at = "idle" THEN closing \ closing' ELSE {}

ResolvedInit == Init /\ resolved = {}

ResolvedNext ==
    /\ Next
    /\ resolved' = {d \in resolved \cup ClosedNow :
                       d \in whitelist' /\ docket'[d].state = "closed"}

ResolvedSpec == ResolvedInit /\ [][ResolvedNext]_<<vars, resolved>>

(* "Resolves the false-positive problem: verify once, never re-triage"      *)
(* (docstring of whitelist_case): no run that could read the whitelist      *)
(* brings back a case that whitelist_case had closed before it.  It is not  *)
(* so: a dnstwist variant is not compared with the list, and one that looks *)
(* worse than when it was whitelisted is in the queue again.                *)
NeverRetriaged ==
    [][\A d \in resolved :
          run' # run /\ ~run.blind => docket'[d].state = "closed"]_<<vars, resolved>>
=============================================================================
