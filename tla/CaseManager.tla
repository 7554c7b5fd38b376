----------------------------- MODULE CaseManager -----------------------------
(***************************************************************************)
(* The case store of services/case_manager.py: every handler that writes   *)
(* the cases table, run by the threads of the service against one SQLite   *)
(* database.                                                               *)
(*                                                                         *)
(* sqlite3 opens a transaction at the first INSERT or UPDATE, never at a   *)
(* SELECT, and get_db() commits when the handler leaves its block.  So a   *)
(* handler is a read followed, after any number of commits of others, by   *)
(* one atomic write.  Where the write depends on what was read (an ingest, *)
(* the resolution of a proposal, a whitelisting, which also calls another  *)
(* service in between) the two are separate steps and `request' holds what *)
(* the handler carries from one to the other.  The other handlers read     *)
(* only that the case exists, which no request ever undoes, and are one    *)
(* step.                                                                   *)
(***************************************************************************)
EXTENDS Severity

CONSTANTS Cases,      \* the (domain, client) pairs
          Requests,   \* the handlers that may be running at once
          Reported,   \* the severities an ingest request may carry
          Chosen      \* the severities an analyst may choose

ASSUME SeverityAssumption == /\ Reported \subseteq AnySeverity
                             /\ Chosen \subseteq Severities

VARIABLES row,        \* row[c]: the case's row in the table cases
          audit,      \* audit[c]: the action of its newest case_history row
          request,    \* request[r]: what a running handler carries
          posted,     \* the cases whose domain the feed-manager whitelisted
          judged,     \* history: the severity an analyst last settled c at
          raced       \* history: the cases on which a write relied on a
                      \* read that another commit had overtaken

vars == <<row, audit, request, posted, judged, raced>>

Null == "null"
ClosedStatuses == {"closed_tp", "closed_fp", "closed_benign"}
ValidStatuses  == {"new", "in_progress"} \cup ClosedStatuses

(* `scanned' stands for the columns classification, confidence and          *)
(* rationale, always written together, by the severity of the report they   *)
(* came from.  Status "none" is a row that does not exist.  The columns     *)
(* that decide nothing (assignee, timestamps, the proposal's reason) are    *)
(* left out.                                                                *)
Row == [status   : ValidStatuses \cup {"none"},
        severity : AnySeverity,
        locked   : BOOLEAN,
        pending  : Severities \cup {Null},
        scanned  : AnySeverity]

NoRow == [status |-> "none", severity |-> Unrated, locked |-> FALSE,
          pending |-> Null, scanned |-> Unrated]

AuditActions == {"created", "reopened", "status_changed", "severity_proposed",
                 "severity_changed", "severity_unlocked", "assigned",
                 "severity_proposal_approved", "severity_proposal_rejected",
                 "whitelisted"}

Exists(c) == row[c].status # "none"
Closed(c) == row[c].status \in ClosedStatuses

-----------------------------------------------------------------------------
(* The branch of ingest_case that a row and a reported severity select.     *)
Branches == {"create", "ignore", "reopen", "reopen_proposing",
             "overwrite", "refresh", "propose"}

BranchIgnoringLock(r, s) ==      \* mutant of Branch
    IF r.status = "none" THEN "create"
    ELSE IF r.status \notin ClosedStatuses THEN "overwrite"
    ELSE IF Escalates(s, r.severity) THEN "reopen" ELSE "ignore"

Branch(r, s) ==
    IF r.status = "none" THEN "create"
    ELSE IF r.status \in ClosedStatuses
    THEN IF ~Escalates(s, r.severity) THEN "ignore"
         ELSE IF r.locked THEN "reopen_proposing" ELSE "reopen"
    ELSE IF ~r.locked THEN "overwrite"
         ELSE IF Escalates(s, r.severity) THEN "propose" ELSE "refresh"

Idle == [op |-> "idle"]

IngestRequest == [op : {"ingest"}, case : Cases, report : Reported,
                  branch : Branches]
ResolveRequest == [op : {"resolve"}, case : Cases, approve : BOOLEAN,
                   proposed : Severities]
WhitelistRequest == [op : {"whitelist"}, case : Cases]

Request == {Idle} \cup IngestRequest \cup ResolveRequest \cup WhitelistRequest

Init == /\ row = [c \in Cases |-> NoRow]
        /\ audit = [c \in Cases |-> Null]
        /\ request = [r \in Requests |-> Idle]
        /\ posted = {}
        /\ judged = [c \in Cases |-> Null]
        /\ raced = {}

-----------------------------------------------------------------------------
(* Steps the handlers share. *)

Write(c, newRow) == row' = [row EXCEPT ![c] = newRow]
Audit(c, action) == audit' = [audit EXCEPT ![c] = action]
Settle(c, s)     == judged' = [judged EXCEPT ![c] = s]
Carry(r, q)      == request[r] = Idle /\ request' = [request EXCEPT ![r] = q]
Finish(r)        == request' = [request EXCEPT ![r] = Idle]

(* The commit of a handler whose read was, or was not, overtaken. *)
Land(r, c, overtaken) == /\ Finish(r)
                         /\ raced' = IF overtaken THEN raced \cup {c} ELSE raced

(* A handler ends without writing: its commit failed (a busy database, the  *)
(* UNIQUE constraint), an HTTPException rolled it back, or the process died.*)
Abandon(r) == /\ request[r] # Idle
              /\ Finish(r)
              /\ UNCHANGED <<row, audit, posted, judged, raced>>

-----------------------------------------------------------------------------
(* ingest_case: the SELECT that picks the branch, then the branch's write.  *)

BeginIngest(r, c, s) ==
    /\ Carry(r, [op |-> "ingest", case |-> c, report |-> s,
                 branch |-> Branch(row[c], s)])
    /\ UNCHANGED <<row, audit, posted, judged, raced>>

Ingesting(r, branch) ==
    /\ request[r].op = "ingest"
    /\ request[r].branch = branch
    /\ LET c == request[r].case
       IN Land(r, c, Branch(row[c], request[r].report) # branch)
    /\ UNCHANGED <<posted, judged>>

(* The row with the classification columns of the report a request carries. *)
Scanned(r) == [row[request[r].case] EXCEPT !.scanned = request[r].report]

IngestCreateOrReplace(r) ==      \* mutant of IngestCreate
    /\ Ingesting(r, "create")
    /\ Write(request[r].case, [NoRow EXCEPT !.status = "new",
                                            !.severity = request[r].report,
                                            !.scanned = request[r].report])
    /\ Audit(request[r].case, "created")

(* UNIQUE(domain, client): the INSERT fails if the row appeared meanwhile,  *)
(* and the request is abandoned.                                            *)
IngestCreate(r) ==
    /\ Ingesting(r, "create")
    /\ ~Exists(request[r].case)
    /\ Write(request[r].case, [NoRow EXCEPT !.status = "new",
                                            !.severity = request[r].report,
                                            !.scanned = request[r].report])
    /\ Audit(request[r].case, "created")

IngestReopen(r) ==
    /\ Ingesting(r, "reopen")
    /\ Write(request[r].case, [Scanned(r) EXCEPT !.status = "new",
                                                 !.severity = request[r].report])
    /\ Audit(request[r].case, "reopened")

IngestReopenOverriding(r) ==      \* mutant of IngestReopenProposing
    /\ Ingesting(r, "reopen_proposing")
    /\ Write(request[r].case, [Scanned(r) EXCEPT !.status = "new",
                                                 !.severity = request[r].report])
    /\ Audit(request[r].case, "severity_proposed")

IngestReopenProposing(r) ==
    /\ Ingesting(r, "reopen_proposing")
    /\ Write(request[r].case, [Scanned(r) EXCEPT !.status = "new",
                                                 !.pending = request[r].report])
    /\ Audit(request[r].case, "severity_proposed")

IngestPropose(r) ==
    /\ Ingesting(r, "propose")
    /\ Write(request[r].case, [Scanned(r) EXCEPT !.pending = request[r].report])
    /\ Audit(request[r].case, "severity_proposed")

IngestRefreshDroppingProposal(r) ==      \* mutant of IngestRefresh
    /\ Ingesting(r, "refresh")
    /\ Write(request[r].case, [Scanned(r) EXCEPT !.pending = Null])
    /\ UNCHANGED audit

IngestRefresh(r) ==
    /\ Ingesting(r, "refresh")
    /\ Write(request[r].case, Scanned(r))
    /\ UNCHANGED audit

IngestOverwriteKeepingSeverity(r) ==      \* mutant of IngestOverwrite
    /\ Ingesting(r, "overwrite")
    /\ Write(request[r].case, Scanned(r))
    /\ UNCHANGED audit

IngestOverwrite(r) ==
    /\ Ingesting(r, "overwrite")
    /\ Write(request[r].case, [Scanned(r) EXCEPT !.severity = request[r].report])
    /\ UNCHANGED audit

(* A closed case the report does not escalate: nothing is written. *)
IngestIgnore(r) ==
    /\ request[r].op = "ingest"
    /\ request[r].branch = "ignore"
    /\ Finish(r)
    /\ UNCHANGED <<row, audit, posted, judged, raced>>

-----------------------------------------------------------------------------
(* The handlers that write the same whatever they read. *)

(* update_status. Closing a case settles it at the severity it has. *)
UpdateStatus(c, status) ==
    /\ Exists(c)
    /\ Write(c, [row[c] EXCEPT !.status = status])
    /\ Audit(c, "status_changed")
    /\ IF status \in ClosedStatuses THEN Settle(c, row[c].severity)
                                    ELSE UNCHANGED judged
    /\ UNCHANGED <<request, posted, raced>>

(* update_severity with a severity, and with null. *)
UpdateSeverity(c, s) ==
    /\ Exists(c)
    /\ Write(c, [row[c] EXCEPT !.severity = s, !.locked = TRUE, !.pending = Null])
    /\ Audit(c, "severity_changed")
    /\ Settle(c, s)
    /\ UNCHANGED <<request, posted, raced>>

ReleaseSeverityKeepingProposal(c) ==      \* mutant of ReleaseSeverity
    /\ Exists(c)
    /\ Write(c, [row[c] EXCEPT !.locked = FALSE])
    /\ Audit(c, "severity_unlocked")
    /\ UNCHANGED <<request, posted, judged, raced>>

ReleaseSeverity(c) ==
    /\ Exists(c)
    /\ Write(c, [row[c] EXCEPT !.locked = FALSE, !.pending = Null])
    /\ Audit(c, "severity_unlocked")
    /\ UNCHANGED <<request, posted, judged, raced>>

AssignCaseAnyStatus(c, someone) ==      \* mutant of AssignCase
    /\ Exists(c)
    /\ Write(c, [row[c] EXCEPT
                    !.status = IF someone THEN "in_progress" ELSE "new"])
    /\ Audit(c, "assigned")
    /\ UNCHANGED <<request, posted, judged, raced>>

(* assign_case, to an active account or to nobody: the UPDATE's CASE WHEN   *)
(* status='new' reads the current row.                                      *)
AssignCase(c, someone) ==
    /\ Exists(c)
    /\ Write(c, [row[c] EXCEPT
                    !.status = IF @ = "new" /\ someone THEN "in_progress" ELSE @])
    /\ Audit(c, "assigned")
    /\ UNCHANGED <<request, posted, judged, raced>>

-----------------------------------------------------------------------------
(* resolve_severity_proposal: the SELECT (400 without a proposal), then the *)
(* write of the proposal that was read.                                     *)

BeginResolveUnchecked(r, c, approve) ==      \* mutant of BeginResolve
    /\ Exists(c)
    /\ Carry(r, [op |-> "resolve", case |-> c, approve |-> approve,
                 proposed |-> row[c].pending])
    /\ UNCHANGED <<row, audit, posted, judged, raced>>

BeginResolve(r, c, approve) ==
    /\ row[c].pending # Null
    /\ Carry(r, [op |-> "resolve", case |-> c, approve |-> approve,
                 proposed |-> row[c].pending])
    /\ UNCHANGED <<row, audit, posted, judged, raced>>

Resolving(r, approve) ==
    /\ request[r].op = "resolve"
    /\ request[r].approve = approve
    /\ Land(r, request[r].case, row[request[r].case].pending # request[r].proposed)
    /\ UNCHANGED posted

ApproveProposal(r) ==
    /\ Resolving(r, TRUE)
    /\ Write(request[r].case, [row[request[r].case] EXCEPT
                                  !.severity = request[r].proposed,
                                  !.locked = TRUE, !.pending = Null])
    /\ Audit(request[r].case, "severity_proposal_approved")
    /\ Settle(request[r].case, request[r].proposed)

RejectProposal(r) ==
    /\ Resolving(r, FALSE)
    /\ Write(request[r].case, [row[request[r].case] EXCEPT !.pending = Null])
    /\ Audit(request[r].case, "severity_proposal_rejected")
    /\ UNCHANGED judged

-----------------------------------------------------------------------------
(* whitelist_case: the feed-manager stores the domain, then the case is     *)
(* closed in a second transaction.  The answer of the call may be lost, or  *)
(* the second transaction fail, after the domain was stored.                *)

PostWhitelistUnverified(r, c) ==      \* mutant of PostWhitelist
    /\ Exists(c)
    /\ Carry(r, [op |-> "whitelist", case |-> c])
    /\ UNCHANGED <<row, audit, posted, judged, raced>>

PostWhitelist(r, c) ==
    /\ Exists(c)
    /\ Carry(r, [op |-> "whitelist", case |-> c])
    /\ posted' = posted \cup {c}
    /\ UNCHANGED <<row, audit, judged, raced>>

PostWhitelistUnanswered(c) ==
    /\ Exists(c)
    /\ posted' = posted \cup {c}
    /\ UNCHANGED <<row, audit, request, judged, raced>>

CloseWhitelisted(r) ==
    /\ request[r].op = "whitelist"
    /\ LET c == request[r].case
       IN /\ Write(c, [row[c] EXCEPT !.status = "closed_fp"])
          /\ Audit(c, "whitelisted")
          /\ Settle(c, row[c].severity)
    /\ Finish(r)
    /\ UNCHANGED <<posted, raced>>

-----------------------------------------------------------------------------
Ingest(r) == \/ \E c \in Cases, s \in Reported : BeginIngest(r, c, s)
             \/ IngestCreate(r) \/ IngestReopen(r) \/ IngestReopenProposing(r)
             \/ IngestPropose(r) \/ IngestRefresh(r) \/ IngestOverwrite(r)
             \/ IngestIgnore(r)

Resolve(r) == \/ \E c \in Cases, approve \in BOOLEAN : BeginResolve(r, c, approve)
              \/ ApproveProposal(r) \/ RejectProposal(r)

Whitelist(r) == \/ \E c \in Cases : PostWhitelist(r, c)
                \/ CloseWhitelisted(r)

Triage(c) == \/ \E status \in ValidStatuses : UpdateStatus(c, status)
             \/ \E s \in Chosen : UpdateSeverity(c, s)
             \/ ReleaseSeverity(c)
             \/ \E someone \in BOOLEAN : AssignCase(c, someone)
             \/ PostWhitelistUnanswered(c)

Next == \/ \E r \in Requests : Ingest(r) \/ Resolve(r) \/ Whitelist(r) \/ Abandon(r)
        \/ \E c \in Cases : Triage(c)

Spec == Init /\ [][Next]_vars

-----------------------------------------------------------------------------
(* The type of the state. *)
TypeOK == /\ row \in [Cases -> Row]
          /\ audit \in [Cases -> AuditActions \cup {Null}]
          /\ request \in [Requests -> Request]
          /\ posted \subseteq Cases
          /\ judged \in [Cases -> AnySeverity \cup {Null}]
          /\ raced \subseteq Cases

(* An analyst's judgement is not silently reverted: while a severity is     *)
(* locked, and while a case is closed, its severity is the one the analyst  *)
(* last set, accepted or closed the case at - unless a write that relied on *)
(* an overtaken read landed on the case (ingest_case, update_severity,      *)
(* resolve_severity_proposal, update_status, whitelist_case).               *)
JudgementStands ==
    \A c \in Cases \ raced :
        row[c].locked \/ Closed(c) => row[c].severity = judged[c]

(* A proposal is only ever filed against a manual rating that it outranks,  *)
(* and does not outlive it (ingest_case files it; update_severity and       *)
(* resolve_severity_proposal clear it).                                     *)
ProposalOutranks ==
    \A c \in Cases \ raced :
        row[c].pending # Null =>
            row[c].locked /\ Escalates(row[c].pending, row[c].severity)

(* The severity of an open case without override is the one of the report   *)
(* its classification and rationale come from, or a rating an analyst gave  *)
(* and then released or closed the case at: never a mix of two reports.     *)
SeverityMatchesScan ==
    \A c \in Cases \ raced :
        Exists(c) /\ ~Closed(c) /\ ~row[c].locked =>
            row[c].severity \in {row[c].scanned, judged[c]}

(* The newest line of a case's history is true of its row, however requests *)
(* overlap: writes that leave no history line do not falsify it.            *)
HistoryMatchesRow ==
    \A c \in Cases :
        /\ Exists(c) <=> audit[c] # Null
        /\ audit[c] = "severity_unlocked" => ~row[c].locked
        /\ audit[c] \in {"severity_changed", "severity_proposal_approved"} =>
               row[c].locked
        /\ audit[c] \in {"severity_changed", "severity_unlocked",
                         "severity_proposal_approved",
                         "severity_proposal_rejected"} => row[c].pending = Null
        /\ audit[c] = "severity_proposed" => row[c].pending # Null
        /\ audit[c] = "whitelisted" => row[c].status = "closed_fp"
        /\ audit[c] \in {"created", "reopened"} => row[c].status = "new"

(* A case is shown as whitelisted only once the feed-manager holds the      *)
(* domain: the order of the two halves of whitelist_case, whichever of them *)
(* fails.                                                                   *)
WhitelistedOnlyAfterPost ==
    \A c \in Cases : audit[c] = "whitelisted" => c \in posted

(* Only releasing the override ends it, however requests overlap: neither a *)
(* report nor a second creation of the same case unlocks a severity.        *)
OverrideEndsOnlyByRelease ==
    [][\A c \in Cases : row[c].locked /\ ~row'[c].locked =>
            audit'[c] = "severity_unlocked"]_vars

(* Routine re-scans do not undo triage: short of an analyst's own status    *)
(* change, a closed case reopens only for a report that outranks the        *)
(* severity it was settled at, and a case in progress never goes back to    *)
(* new.                                                                     *)
TriageUndoneOnlyByEscalation ==
    [][\A c \in Cases \ raced' :
            /\ Closed(c) /\ ~Closed(c)' =>
                  \/ audit'[c] = "status_changed"
                  \/ Escalates(row'[c].scanned, judged[c])
            /\ row[c].status = "in_progress" /\ row'[c].status = "new" =>
                  audit'[c] = "status_changed"]_vars

(* The store implements the promise of CaseTriage: an unraced case's        *)
(* requests take effect at once, in commit order.                           *)
View(r) == [state    |-> IF r.status = "none" THEN "absent"
                         ELSE IF r.status \in ClosedStatuses THEN "closed" ELSE "open",
            severity |-> r.severity,
            owner    |-> IF r.locked THEN "analyst" ELSE "classifier",
            proposal |-> r.pending]

Promise == INSTANCE CaseTriage WITH docket <- [c \in Cases |-> View(row[c])],
                                    lost   <- raced
ImplementsTriage == Promise!Spec
=============================================================================
