-------------------------- MODULE CaseManagerProofs --------------------------
(***************************************************************************)
(* Proofs about CaseManager, for any sets of cases and of overlapping      *)
(* requests and any severities reported and chosen.                        *)
(***************************************************************************)
EXTENDS CaseManager, TLAPS

-----------------------------------------------------------------------------
(* Facts about the severity scale. *)

(* Both ranks are numbers, so severities are compared as ingest_case does.  *)
LEMMA RanksAreNaturals ==
  ASSUME NEW s \in AnySeverity
  PROVE  /\ RecordedRank(s) \in 1..4
         /\ ReportedRank(s) \in 0..4
  BY DEF RecordedRank, ReportedRank, AnySeverity, Severities, Unrated,
         SeverityRank

(* Only a report with a rank escalates anything (ingest_case: new_rank is 0 *)
(* for any other, and no recorded rank is below 1).                         *)
LEMMA OnlyRatedReportsEscalate ==
  ASSUME NEW s \in AnySeverity, NEW t \in AnySeverity, Escalates(s, t)
  PROVE  s \in Severities
  BY RanksAreNaturals DEF Escalates, ReportedRank

(* What the branch chosen by ingest_case says of the row it was chosen for. *)
LEMMA BranchFacts ==
  ASSUME NEW x \in Row, NEW s \in AnySeverity
  PROVE  /\ Branch(x, s) \in Branches
         /\ Branch(x, s) = "create" <=> x.status = "none"
         /\ Branch(x, s) = "reopen" =>
              x.status \in ClosedStatuses /\ ~x.locked /\ Escalates(s, x.severity)
         /\ Branch(x, s) = "reopen_proposing" =>
              x.status \in ClosedStatuses /\ x.locked /\ Escalates(s, x.severity)
         /\ Branch(x, s) = "overwrite" =>
              x.status \in {"new", "in_progress"} /\ ~x.locked
         /\ Branch(x, s) = "refresh" =>
              x.status \in {"new", "in_progress"} /\ x.locked
         /\ Branch(x, s) = "propose" =>
              /\ x.status \in {"new", "in_progress"} /\ x.locked
              /\ Escalates(s, x.severity)
  BY DEF Branch, Branches, Row, ValidStatuses, ClosedStatuses

-----------------------------------------------------------------------------
(* Type correctness.  A request that will file a proposal carries a report  *)
(* with a rank, because a branch that files one is only chosen for a report *)
(* that escalates the row.                                                  *)

ProposalsAreRated ==
    \A r \in Requests :
        request[r].op = "ingest" /\ request[r].branch \in {"propose", "reopen_proposing"} =>
            request[r].report \in Severities

TInv == TypeOK /\ ProposalsAreRated

LEMMA InitTInv == Init => TInv
  BY DEF Init, TInv, TypeOK, ProposalsAreRated, Row, NoRow, Request, Idle,
         ValidStatuses, AnySeverity, Unrated, AuditActions

LEMMA NextTInv == TInv /\ [Next]_vars => TInv'
<1> SUFFICES ASSUME TInv, [Next]_vars
             PROVE  TInv'
  OBVIOUS
<1> USE SeverityAssumption
<1>1. CASE UNCHANGED vars
  BY <1>1 DEF TInv, TypeOK, ProposalsAreRated, vars
<1>2. ASSUME NEW r \in Requests, NEW c \in Cases, NEW s \in Reported,
             BeginIngest(r, c, s)
      PROVE  TInv'
  <2>1. row[c] \in Row /\ s \in AnySeverity
    BY DEF TInv, TypeOK
  <2>2. Branch(row[c], s) \in Branches
    BY <2>1, BranchFacts
  <2>3. Branch(row[c], s) \in {"propose", "reopen_proposing"} => s \in Severities
    BY <2>1, BranchFacts, OnlyRatedReportsEscalate DEF Row
  <2>4. TypeOK'
    BY <1>2, <2>2 DEF TInv, TypeOK, BeginIngest, Carry, Request, IngestRequest
  <2>5. ProposalsAreRated'
    BY <1>2, <2>3 DEF TInv, TypeOK, ProposalsAreRated, BeginIngest, Carry
  <2>6. QED
    BY <2>4, <2>5 DEF TInv
<1>3. ASSUME NEW r \in Requests,
             \/ IngestCreate(r) \/ IngestReopen(r) \/ IngestReopenProposing(r)
             \/ IngestPropose(r) \/ IngestRefresh(r) \/ IngestOverwrite(r)
      PROVE  TInv'
  <2> DEFINE c == request[r].case
             s == request[r].report
  <2>1. request[r] \in IngestRequest
    BY <1>3 DEF TInv, TypeOK, Request, Idle, ResolveRequest, WhitelistRequest,
       Ingesting, IngestCreate, IngestReopen, IngestReopenProposing,
       IngestPropose, IngestRefresh, IngestOverwrite
  <2>2. c \in Cases /\ s \in AnySeverity /\ row[c] \in Row
    BY <2>1 DEF IngestRequest, TInv, TypeOK
  <2>3. Finish(r) /\ raced' \subseteq Cases /\ UNCHANGED <<posted, judged>>
    BY <1>3, <2>2 DEF TInv, TypeOK, Land, Ingesting, IngestCreate,
       IngestReopen, IngestReopenProposing, IngestPropose, IngestRefresh,
       IngestOverwrite
  <2>4. row' \in [Cases -> Row]
    <3>1. Scanned(r) \in Row
      BY <2>2 DEF Scanned, Row
    <3>2. CASE IngestReopenProposing(r) \/ IngestPropose(r)
      <4>1. s \in Severities
        BY <1>3, <3>2 DEF TInv, ProposalsAreRated, Ingesting,
           IngestReopenProposing, IngestPropose
      <4>2. /\ [Scanned(r) EXCEPT !.status = "new", !.pending = s] \in Row
            /\ [Scanned(r) EXCEPT !.pending = s] \in Row
        BY <3>1, <4>1 DEF Row, ValidStatuses
      <4>3. QED
        BY <3>2, <2>2, <4>2 DEF TInv, TypeOK, IngestReopenProposing,
           IngestPropose, Write
    <3>3. CASE IngestCreate(r)
      BY <3>3, <2>2 DEF TInv, TypeOK, IngestCreate, Write, NoRow, Row,
         ValidStatuses
    <3>4. CASE IngestReopen(r) \/ IngestRefresh(r) \/ IngestOverwrite(r)
      <4>1. /\ [Scanned(r) EXCEPT !.status = "new", !.severity = s] \in Row
            /\ [Scanned(r) EXCEPT !.severity = s] \in Row
        BY <3>1, <2>2 DEF Row, ValidStatuses
      <4>2. QED
        BY <3>1, <3>4, <2>2, <4>1 DEF TInv, TypeOK, IngestReopen,
           IngestRefresh, IngestOverwrite, Write
    <3>5. QED
      BY <1>3, <3>2, <3>3, <3>4
  <2>5. audit' \in [Cases -> AuditActions \cup {Null}]
    BY <1>3, <2>2 DEF TInv, TypeOK, Audit, AuditActions, IngestCreate,
       IngestReopen, IngestReopenProposing, IngestPropose, IngestRefresh,
       IngestOverwrite
  <2>6. QED
    BY <2>3, <2>4, <2>5 DEF TInv, TypeOK, ProposalsAreRated, Finish, Request, Idle
<1>4. ASSUME NEW r \in Requests, IngestIgnore(r) \/ Abandon(r)
      PROVE  TInv'
  BY <1>4 DEF TInv, TypeOK, ProposalsAreRated, IngestIgnore, Abandon, Finish,
     Request, Idle
<1>5. ASSUME NEW r \in Requests, NEW c \in Cases, NEW approve \in BOOLEAN,
             BeginResolve(r, c, approve)
      PROVE  TInv'
  BY <1>5 DEF TInv, TypeOK, ProposalsAreRated, BeginResolve, Carry, Request,
     ResolveRequest, Row
<1>6. ASSUME NEW r \in Requests, ApproveProposal(r) \/ RejectProposal(r)
      PROVE  TInv'
  <2>1. request[r] \in ResolveRequest
    BY <1>6 DEF TInv, TypeOK, Request, Idle, IngestRequest, WhitelistRequest,
       Resolving, ApproveProposal, RejectProposal
  <2>2. /\ request[r].case \in Cases /\ row[request[r].case] \in Row
        /\ request[r].proposed \in Severities
    BY <2>1 DEF ResolveRequest, TInv, TypeOK
  <2>3. Finish(r) /\ raced' \subseteq Cases /\ UNCHANGED posted
    BY <1>6, <2>2 DEF TInv, TypeOK, Land, Resolving, ApproveProposal,
       RejectProposal
  <2>4. row' \in [Cases -> Row]
    <3>1. CASE ApproveProposal(r)
      <4>1. [row[request[r].case] EXCEPT !.severity = request[r].proposed,
                                         !.locked = TRUE, !.pending = Null] \in Row
        BY <2>2 DEF Row, AnySeverity
      <4>2. QED
        BY <3>1, <2>2, <4>1 DEF TInv, TypeOK, ApproveProposal, Write
    <3>2. CASE RejectProposal(r)
      BY <3>2, <2>2 DEF TInv, TypeOK, RejectProposal, Write, Row
    <3>3. QED
      BY <1>6, <3>1, <3>2
  <2>5. /\ audit' \in [Cases -> AuditActions \cup {Null}]
        /\ judged' \in [Cases -> AnySeverity \cup {Null}]
    BY <1>6, <2>2 DEF TInv, TypeOK, Audit, AuditActions, Settle, AnySeverity,
       ApproveProposal, RejectProposal
  <2>6. QED
    BY <2>3, <2>4, <2>5 DEF TInv, TypeOK, ProposalsAreRated, Finish, Request, Idle
<1>7. ASSUME NEW r \in Requests, NEW c \in Cases, PostWhitelist(r, c)
      PROVE  TInv'
  BY <1>7 DEF TInv, TypeOK, ProposalsAreRated, PostWhitelist, Carry, Request,
     WhitelistRequest
<1>8. ASSUME NEW r \in Requests, CloseWhitelisted(r)
      PROVE  TInv'
  <2>1. request[r].case \in Cases
    BY <1>8 DEF TInv, TypeOK, Request, Idle, IngestRequest, ResolveRequest,
       WhitelistRequest, CloseWhitelisted
  <2>2. QED
    BY <1>8, <2>1, SMTT(30) DEF TInv, TypeOK, ProposalsAreRated, CloseWhitelisted, Finish,
       Write, Audit, Settle, Row, AuditActions, Request, Idle, ValidStatuses,
       ClosedStatuses
<1>9. ASSUME NEW c \in Cases, Triage(c)
      PROVE  TInv'
  <2> USE DEF TInv, TypeOK, ProposalsAreRated, Write, Audit, Settle, AuditActions
  <2>1. ASSUME NEW status \in ValidStatuses, UpdateStatus(c, status)
        PROVE  TInv'
    BY <2>1 DEF UpdateStatus, Row
  <2>2. ASSUME NEW s \in Chosen, UpdateSeverity(c, s)
        PROVE  TInv'
    BY <2>2, ZenonT(40) DEF UpdateSeverity, Row, AnySeverity
  <2>3. CASE ReleaseSeverity(c)
    BY <2>3 DEF ReleaseSeverity, Row
  <2>4. ASSUME NEW someone \in BOOLEAN, AssignCase(c, someone)
        PROVE  TInv'
    BY <2>4 DEF AssignCase, Row, ValidStatuses
  <2>5. CASE PostWhitelistUnanswered(c)
    BY <2>5 DEF PostWhitelistUnanswered
  <2>6. QED
    BY <1>9, <2>1, <2>2, <2>3, <2>4, <2>5 DEF Triage
<1>10. QED
  BY <1>1, <1>2, <1>3, <1>4, <1>5, <1>6, <1>7, <1>8, <1>9
     DEF Next, Ingest, Resolve, Whitelist

(* The case store's rows, history, running requests and proposals are       *)
(* always well formed: in particular what a resolved proposal writes back   *)
(* is always a severity with a rank.                                        *)
THEOREM TypeCorrect == Spec => []TypeOK
<1>1. TInv => TypeOK
  BY DEF TInv
<1>2. QED
  BY InitTInv, NextTInv, <1>1, PTL DEF Spec

-----------------------------------------------------------------------------
(* The triage invariant.  JudgementStands, ProposalOutranks and             *)
(* SeverityMatchesScan are not inductive one by one: accepting a proposal   *)
(* settles a case rightly only if proposals belong to locked cases, and a   *)
(* released or reopened case matches its scan only if its severity was the  *)
(* analyst's.  Their conjunction, said of one row, is inductive.            *)

SoundRow(x, settled) ==
    /\ x.locked \/ x.status \in ClosedStatuses => x.severity = settled
    /\ x.pending # Null => x.locked /\ Escalates(x.pending, x.severity)
    /\ x.status # "none" /\ x.status \notin ClosedStatuses /\ ~x.locked =>
          x.severity \in {x.scanned, settled}

Sound(c) == SoundRow(row[c], judged[c])

IInv == TInv /\ \A c \in Cases \ raced : Sound(c)

(* A step that writes one row, and leaves that case sound or raced.         *)
SafeWrite(c) ==
    /\ \A d \in Cases \ {c} : row'[d] = row[d] /\ judged'[d] = judged[d]
    /\ raced \subseteq raced'
    /\ c \in raced' \/ SoundRow(row'[c], judged'[c])

LEMMA SafeWritePreserves ==
  ASSUME IInv, TInv', NEW c \in Cases, SafeWrite(c)
  PROVE  IInv'
  BY DEF IInv, SafeWrite, Sound

(* The write of an ingest whose read was not overtaken leaves its case      *)
(* sound, whichever branch it took.                                         *)
LEMMA IngestIsSafe ==
  ASSUME IInv, NEW r \in Requests,
         \/ IngestCreate(r) \/ IngestReopen(r) \/ IngestReopenProposing(r)
         \/ IngestPropose(r) \/ IngestRefresh(r) \/ IngestOverwrite(r)
  PROVE  request[r].case \in Cases /\ SafeWrite(request[r].case)
<1> DEFINE c == request[r].case
           s == request[r].report
           b == request[r].branch
<1> USE SeverityAssumption
<1>1. request[r] \in IngestRequest /\ Ingesting(r, b)
  BY DEF IInv, TInv, TypeOK, Request, Idle, ResolveRequest, WhitelistRequest,
     Ingesting, IngestCreate, IngestReopen, IngestReopenProposing,
     IngestPropose, IngestRefresh, IngestOverwrite
<1>2. c \in Cases /\ s \in AnySeverity /\ row[c] \in Row
  BY <1>1 DEF IngestRequest, IInv, TInv, TypeOK
<1>3. raced \subseteq raced' /\ judged' = judged
  BY <1>1 DEF Ingesting, Land
<1>4. \A d \in Cases \ {c} : row'[d] = row[d]
  BY <1>2 DEF IInv, TInv, TypeOK, Write, IngestCreate, IngestReopen,
     IngestReopenProposing, IngestPropose, IngestRefresh, IngestOverwrite
<1>5. ASSUME c \notin raced'
      PROVE  SoundRow(row'[c], judged'[c])
  <2>1. Branch(row[c], s) = b /\ c \notin raced
    BY <1>1, <1>2, <1>5 DEF Ingesting, Land
  <2>2. SoundRow(row[c], judged[c])
    BY <1>2, <2>1 DEF IInv, Sound
  <2>3. /\ Scanned(r) \in Row
        /\ Scanned(r).status = row[c].status
        /\ Scanned(r).severity = row[c].severity
        /\ Scanned(r).locked = row[c].locked
        /\ Scanned(r).pending = row[c].pending
        /\ Scanned(r).scanned = s
    <3>1. Scanned(r) = [row[c] EXCEPT !.scanned = s]
      BY DEF Scanned
    <3>2. QED
      BY <1>2, <3>1 DEF Row
  <2> USE DEF SoundRow, Row
  <2>4. ASSUME NEW x \in Row, row'[c] = x, SoundRow(x, judged[c])
        PROVE  SoundRow(row'[c], judged'[c])
    BY <1>3, <2>4
  <2>5. CASE IngestCreate(r)
    <3> DEFINE x == [NoRow EXCEPT !.status = "new", !.severity = s, !.scanned = s]
    <3>1. x \in Row /\ SoundRow(x, judged[c])
      BY <1>2 DEF NoRow, ValidStatuses, ClosedStatuses
    <3>2. row'[c] = x
      BY <2>5, <1>2 DEF IngestCreate, Write, IInv, TInv, TypeOK
    <3>3. QED
      BY <2>4, <3>1, <3>2
  <2>6. CASE IngestReopen(r)
    <3> DEFINE x == [Scanned(r) EXCEPT !.status = "new", !.severity = s]
    <3>1. ~row[c].locked
      BY <2>6, <1>2, <2>1, BranchFacts DEF IngestReopen, Ingesting
    <3>2. x \in Row /\ SoundRow(x, judged[c])
      BY <1>2, <2>2, <2>3, <3>1 DEF ValidStatuses, ClosedStatuses
    <3>3. row'[c] = x
      BY <2>6, <1>2 DEF IngestReopen, Write, IInv, TInv, TypeOK
    <3>4. QED
      BY <2>4, <3>2, <3>3
  <2>7. CASE IngestReopenProposing(r)
    <3> DEFINE x == [Scanned(r) EXCEPT !.status = "new", !.pending = s]
    <3>1. row[c].locked /\ Escalates(s, row[c].severity) /\ s \in Severities
      BY <2>7, <1>2, <2>1, BranchFacts, OnlyRatedReportsEscalate
         DEF IngestReopenProposing, Ingesting
    <3>2. x \in Row /\ SoundRow(x, judged[c])
      BY <1>2, <2>2, <2>3, <3>1 DEF ValidStatuses, ClosedStatuses
    <3>3. row'[c] = x
      BY <2>7, <1>2 DEF IngestReopenProposing, Write, IInv, TInv, TypeOK
    <3>4. QED
      BY <2>4, <3>2, <3>3
  <2>8. CASE IngestPropose(r)
    <3> DEFINE x == [Scanned(r) EXCEPT !.pending = s]
    <3>1. row[c].locked /\ Escalates(s, row[c].severity) /\ s \in Severities
      BY <2>8, <1>2, <2>1, BranchFacts, OnlyRatedReportsEscalate
         DEF IngestPropose, Ingesting
    <3>2. x \in Row /\ SoundRow(x, judged[c])
      BY <1>2, <2>2, <2>3, <3>1
    <3>3. row'[c] = x
      BY <2>8, <1>2 DEF IngestPropose, Write, IInv, TInv, TypeOK
    <3>4. QED
      BY <2>4, <3>2, <3>3
  <2>9. CASE IngestRefresh(r)
    <3>1. row[c].locked
      BY <2>9, <1>2, <2>1, BranchFacts DEF IngestRefresh, Ingesting
    <3>2. SoundRow(Scanned(r), judged[c])
      BY <2>2, <2>3, <3>1
    <3>3. row'[c] = Scanned(r)
      BY <2>9, <1>2 DEF IngestRefresh, Write, IInv, TInv, TypeOK
    <3>4. QED
      BY <2>3, <2>4, <3>2, <3>3
  <2>10. CASE IngestOverwrite(r)
    <3> DEFINE x == [Scanned(r) EXCEPT !.severity = s]
    <3>1. ~row[c].locked /\ row[c].status \notin ClosedStatuses
      BY <2>10, <1>2, <2>1, BranchFacts
         DEF IngestOverwrite, Ingesting, ClosedStatuses
    <3>2. x \in Row /\ SoundRow(x, judged[c])
      BY <1>2, <2>2, <2>3, <3>1
    <3>3. row'[c] = x
      BY <2>10, <1>2 DEF IngestOverwrite, Write, IInv, TInv, TypeOK
    <3>4. QED
      BY <2>4, <3>2, <3>3
  <2>11. QED
    BY <2>5, <2>6, <2>7, <2>8, <2>9, <2>10
<1>6. QED
  BY <1>2, <1>3, <1>4, <1>5 DEF SafeWrite

(* So does resolving a proposal that is still the one that was read.        *)
LEMMA ResolveIsSafe ==
  ASSUME IInv, NEW r \in Requests, ApproveProposal(r) \/ RejectProposal(r)
  PROVE  request[r].case \in Cases /\ SafeWrite(request[r].case)
<1> DEFINE c == request[r].case
           p == request[r].proposed
<1>1. request[r] \in ResolveRequest
  BY DEF IInv, TInv, TypeOK, Request, Idle, IngestRequest, WhitelistRequest,
     Resolving, ApproveProposal, RejectProposal
<1>2. c \in Cases /\ p \in Severities /\ row[c] \in Row
  BY <1>1 DEF ResolveRequest, IInv, TInv, TypeOK
<1>3. raced \subseteq raced'
  BY DEF ApproveProposal, RejectProposal, Resolving, Land
<1>4. \A d \in Cases \ {c} : row'[d] = row[d] /\ judged'[d] = judged[d]
  BY <1>2 DEF IInv, TInv, TypeOK, Write, Settle, ApproveProposal, RejectProposal
<1>5. ASSUME c \notin raced'
      PROVE  SoundRow(row'[c], judged'[c])
  <2>1. row[c].pending = p /\ c \notin raced
    BY <1>2, <1>5 DEF ApproveProposal, RejectProposal, Resolving, Land
  <2>2. row[c].locked /\ SoundRow(row[c], judged[c])
    BY <1>2, <2>1 DEF IInv, Sound, SoundRow, Severities, Null
  <2>3. CASE ApproveProposal(r)
    <3> DEFINE x == [row[c] EXCEPT !.severity = p, !.locked = TRUE, !.pending = Null]
    <3>1. SoundRow(x, p)
      <4>1. /\ x.severity = p /\ x.locked = TRUE /\ x.pending = Null
            /\ x.status = row[c].status
        BY <1>2 DEF Row
      <4>2. QED
        BY <4>1 DEF SoundRow
    <3>2. row'[c] = x /\ judged'[c] = p
      BY <2>3, <1>2 DEF ApproveProposal, Write, Settle, IInv, TInv, TypeOK
    <3>3. QED
      BY <3>1, <3>2
  <2>4. CASE RejectProposal(r)
    <3> DEFINE x == [row[c] EXCEPT !.pending = Null]
    <3>1. SoundRow(x, judged[c])
      <4>1. /\ x.severity = row[c].severity /\ x.locked = row[c].locked
            /\ x.pending = Null /\ x.status = row[c].status
        BY <1>2 DEF Row
      <4>2. QED
        BY <2>2, <4>1 DEF SoundRow
    <3>2. row'[c] = x /\ judged'[c] = judged[c]
      BY <2>4, <1>2 DEF RejectProposal, Write, IInv, TInv, TypeOK
    <3>3. QED
      BY <3>1, <3>2
  <2>5. QED
    BY <2>3, <2>4
<1>6. QED
  BY <1>2, <1>3, <1>4, <1>5 DEF SafeWrite

(* The analysts' own writes are sound whatever they overwrite.              *)
LEMMA TriageIsSafe ==
  ASSUME IInv, NEW c \in Cases, Triage(c)
  PROVE  SafeWrite(c)
<1>1. row[c] \in Row
  BY DEF IInv, TInv, TypeOK
<1>2. raced' = raced
  BY DEF Triage, UpdateStatus, UpdateSeverity, ReleaseSeverity, AssignCase,
     PostWhitelistUnanswered
<1>3. \A d \in Cases \ {c} : row'[d] = row[d] /\ judged'[d] = judged[d]
  BY DEF IInv, TInv, TypeOK, Triage, UpdateStatus, UpdateSeverity,
     ReleaseSeverity, AssignCase, PostWhitelistUnanswered, Write, Settle
<1>4. ASSUME c \notin raced
      PROVE  SoundRow(row'[c], judged'[c])
  <2>1. SoundRow(row[c], judged[c])
    BY <1>4 DEF IInv, Sound
  <2> USE DEF SoundRow
  <2>2. ASSUME NEW status \in ValidStatuses, UpdateStatus(c, status)
        PROVE  SoundRow(row'[c], judged'[c])
    <3> DEFINE x == [row[c] EXCEPT !.status = status]
    <3>1. /\ x.severity = row[c].severity /\ x.locked = row[c].locked
          /\ x.pending = row[c].pending /\ x.scanned = row[c].scanned
          /\ x.status = status
      BY <1>1 DEF Row
    <3>2. row'[c] = x /\ Exists(c)
      BY <2>2 DEF UpdateStatus, Write, IInv, TInv, TypeOK
    <3>3. judged'[c] = IF status \in ClosedStatuses THEN row[c].severity
                                                    ELSE judged[c]
      BY <2>2 DEF UpdateStatus, Settle, IInv, TInv, TypeOK
    <3>4. QED
      BY <2>1, <3>1, <3>2, <3>3 DEF Exists
  <2>3. ASSUME NEW s \in Chosen, UpdateSeverity(c, s)
        PROVE  SoundRow(row'[c], judged'[c])
    <3> DEFINE x == [row[c] EXCEPT !.severity = s, !.locked = TRUE, !.pending = Null]
    <3>1. x.severity = s /\ x.locked = TRUE /\ x.pending = Null
      BY <1>1 DEF Row
    <3>2. row'[c] = x /\ judged'[c] = s
      BY <2>3 DEF UpdateSeverity, Write, Settle, IInv, TInv, TypeOK
    <3>3. QED
      BY <3>1, <3>2
  <2>4. CASE ReleaseSeverity(c)
    <3> DEFINE x == [row[c] EXCEPT !.locked = FALSE, !.pending = Null]
    <3>1. /\ x.severity = row[c].severity /\ x.locked = FALSE
          /\ x.pending = Null /\ x.scanned = row[c].scanned
          /\ x.status = row[c].status
      BY <1>1 DEF Row
    <3>2. row'[c] = x /\ judged'[c] = judged[c] /\ row[c].locked \in BOOLEAN
      BY <2>4, <1>1 DEF ReleaseSeverity, Write, IInv, TInv, TypeOK, Row
    <3>3. QED
      BY <2>1, <3>1, <3>2
  <2>5. ASSUME NEW someone \in BOOLEAN, AssignCase(c, someone)
        PROVE  SoundRow(row'[c], judged'[c])
    <3> DEFINE st == IF row[c].status = "new" /\ someone THEN "in_progress"
                                                         ELSE row[c].status
               x == [row[c] EXCEPT !.status = st]
    <3>1. /\ x.severity = row[c].severity /\ x.locked = row[c].locked
          /\ x.pending = row[c].pending /\ x.scanned = row[c].scanned
          /\ x.status = st
      BY <1>1 DEF Row
    <3>2. row'[c] = x /\ judged'[c] = judged[c]
      BY <2>5 DEF AssignCase, Write, IInv, TInv, TypeOK
    <3>3. /\ st \in ClosedStatuses <=> row[c].status \in ClosedStatuses
          /\ st = "none" <=> row[c].status = "none"
      BY DEF ClosedStatuses
    <3>4. QED
      BY <2>1, <3>1, <3>2, <3>3
  <2>6. CASE PostWhitelistUnanswered(c)
    BY <2>1, <2>6 DEF PostWhitelistUnanswered
  <2>7. QED
    BY <2>2, <2>3, <2>4, <2>5, <2>6 DEF Triage
<1>5. QED
  BY <1>2, <1>3, <1>4 DEF SafeWrite

(* Closing a whitelisted case settles it at the severity it then has.       *)
LEMMA CloseWhitelistedIsSafe ==
  ASSUME IInv, NEW r \in Requests, CloseWhitelisted(r)
  PROVE  request[r].case \in Cases /\ SafeWrite(request[r].case)
<1> DEFINE c == request[r].case
           x == [row[c] EXCEPT !.status = "closed_fp"]
<1>1. c \in Cases
  BY DEF IInv, TInv, TypeOK, Request, Idle, IngestRequest, ResolveRequest,
     WhitelistRequest, CloseWhitelisted
<1>2. /\ row'[c] = x /\ judged'[c] = row[c].severity
      /\ raced' = raced
      /\ \A d \in Cases \ {c} : row'[d] = row[d] /\ judged'[d] = judged[d]
  BY <1>1 DEF CloseWhitelisted, Write, Settle, IInv, TInv, TypeOK
<1>3. /\ x.severity = row[c].severity /\ x.locked = row[c].locked
      /\ x.pending = row[c].pending /\ x.scanned = row[c].scanned
      /\ x.status = "closed_fp"
  BY <1>1 DEF IInv, TInv, TypeOK, Row
<1>4. c \notin raced => SoundRow(x, row[c].severity)
  BY <1>1, <1>3 DEF IInv, Sound, SoundRow, ClosedStatuses
<1>5. QED
  BY <1>1, <1>2, <1>4 DEF SafeWrite

LEMMA InitIInv == Init => IInv
  BY InitTInv DEF Init, IInv, Sound, SoundRow, NoRow, ClosedStatuses, Null

LEMMA NextIInv == IInv /\ [Next]_vars => IInv'
<1> SUFFICES ASSUME IInv, [Next]_vars
             PROVE  IInv'
  OBVIOUS
<1>1. TInv'
  BY NextTInv DEF IInv
<1>2. CASE UNCHANGED <<row, judged, raced>>
  BY <1>1, <1>2 DEF IInv, Sound
<1>3. ASSUME NEW r \in Requests,
             \/ IngestCreate(r) \/ IngestReopen(r) \/ IngestReopenProposing(r)
             \/ IngestPropose(r) \/ IngestRefresh(r) \/ IngestOverwrite(r)
      PROVE  IInv'
  BY <1>1, <1>3, IngestIsSafe, SafeWritePreserves
<1>4. ASSUME NEW r \in Requests, ApproveProposal(r) \/ RejectProposal(r)
      PROVE  IInv'
  BY <1>1, <1>4, ResolveIsSafe, SafeWritePreserves
<1>5. ASSUME NEW r \in Requests, CloseWhitelisted(r)
      PROVE  IInv'
  BY <1>1, <1>5, CloseWhitelistedIsSafe, SafeWritePreserves
<1>6. ASSUME NEW c \in Cases, Triage(c)
      PROVE  IInv'
  BY <1>1, <1>6, TriageIsSafe, SafeWritePreserves
<1>7. CASE UNCHANGED vars
  BY <1>2, <1>7 DEF vars
<1>8. ASSUME NEW r \in Requests, NEW c \in Cases,
             \/ \E s \in Reported : BeginIngest(r, c, s)
             \/ \E approve \in BOOLEAN : BeginResolve(r, c, approve)
             \/ PostWhitelist(r, c)
      PROVE  IInv'
  BY <1>2, <1>8 DEF BeginIngest, BeginResolve, PostWhitelist
<1>9. ASSUME NEW r \in Requests, IngestIgnore(r) \/ Abandon(r)
      PROVE  IInv'
  BY <1>2, <1>9 DEF IngestIgnore, Abandon
<1>10. QED
  BY <1>3, <1>4, <1>5, <1>6, <1>7, <1>8, <1>9 DEF Next, Ingest, Resolve, Whitelist

(* An analyst's judgement stands on every case that no overtaken write has  *)
(* touched, for any number of cases and overlapping requests: a locked or   *)
(* closed case has the severity it was last settled at.                     *)
THEOREM JudgementIsKept == Spec => []JudgementStands
<1>1. IInv => JudgementStands
  BY DEF IInv, Sound, SoundRow, JudgementStands, Closed
<1>2. QED
  BY InitIInv, NextIInv, <1>1, PTL DEF Spec

(* On such a case a proposal is only on file against a manual rating that   *)
(* it outranks.                                                             *)
THEOREM ProposalsAreSound == Spec => []ProposalOutranks
<1>1. IInv => ProposalOutranks
  BY DEF IInv, Sound, SoundRow, ProposalOutranks
<1>2. QED
  BY InitIInv, NextIInv, <1>1, PTL DEF Spec

(* And its severity, when nothing locks it and it is open, is that of its   *)
(* scan or the analyst's last.                                              *)
THEOREM SeveritiesMatchScans == Spec => []SeverityMatchesScan
<1>1. IInv => SeverityMatchesScan
  BY DEF IInv, Sound, SoundRow, SeverityMatchesScan, Exists, Closed
<1>2. QED
  BY InitIInv, NextIInv, <1>1, PTL DEF Spec

-----------------------------------------------------------------------------
(* The store implements CaseTriage: a write whose read was overtaken is the *)
(* step Lose of its case, every other write is the promised step on the     *)
(* same case, and reads are stutters.                                       *)

Docket == [c \in Cases |-> View(row[c])]

LEMMA ViewsAreEntries ==
  ASSUME NEW x \in Row
  PROVE  /\ View(x) \in Promise!Entry
         /\ View(x).state = IF x.status = "none" THEN "absent"
                            ELSE IF x.status \in ClosedStatuses THEN "closed"
                            ELSE "open"
         /\ View(x).severity = x.severity
         /\ View(x).owner = IF x.locked THEN "analyst" ELSE "classifier"
         /\ View(x).proposal = x.pending
  BY DEF View, Promise!Entry, Promise!NoProposal, Row, Null,
     Promise!AnySeverity, Promise!Severities, Promise!Unrated, AnySeverity,
     Severities, Unrated

LEMMA WriteShows ==
  ASSUME TypeOK, NEW c \in Cases, NEW x, Write(c, x)
  PROVE  Docket' = [Docket EXCEPT ![c] = View(x)]
  BY DEF TypeOK, Write, Docket

(* A write that was overtaken is promised nothing. *)
LEMMA OvertakenWriteLoses ==
  ASSUME TypeOK, NEW c \in Cases, NEW x \in Row, Write(c, x),
         raced' = raced \cup {c}
  PROVE  Promise!Lose(c)
<1>1. Docket' = [Docket EXCEPT ![c] = View(x)]
  BY WriteShows
<1>2. View(x) \in Promise!Entry
  BY ViewsAreEntries
<1>3. QED
  BY <1>1, <1>2 DEF Promise!Lose, Docket

(* A write that was not overtaken is an update of the docket.               *)
LEMMA TimelyWriteUpdates ==
  ASSUME TypeOK, NEW c \in Cases, NEW x \in Row, Write(c, x), raced' = raced
  PROVE  Promise!Update(c, View(x))
  BY WriteShows DEF Promise!Update, Docket

LEMMA TriageIsPromised ==
  ASSUME IInv, NEW c \in Cases, Triage(c)
  PROVE  Promise!Promised(c) \/ UNCHANGED <<Docket, raced>>
<1>1. TypeOK /\ row[c] \in Row /\ Docket[c] = View(row[c])
  BY DEF IInv, TInv, TypeOK, Docket
<1>2. raced' = raced
  BY DEF Triage, UpdateStatus, UpdateSeverity, ReleaseSeverity, AssignCase,
     PostWhitelistUnanswered
<1>3. ASSUME NEW status \in ValidStatuses, UpdateStatus(c, status)
      PROVE  Promise!Promised(c)
  <2> DEFINE x == [row[c] EXCEPT !.status = status]
             state == IF status \in ClosedStatuses THEN "closed" ELSE "open"
  <2>1. x \in Row /\ Promise!On(c)
    BY <1>1, <1>3, ViewsAreEntries DEF Row, ValidStatuses, UpdateStatus, Exists,
       Promise!On, Docket
  <2>2. View(x) = [Docket[c] EXCEPT !.state = state]
    BY <1>1 DEF View, Row, ValidStatuses, ClosedStatuses
  <2>3. Promise!Update(c, View(x))
    BY <1>1, <1>2, <1>3, <2>1, TimelyWriteUpdates DEF UpdateStatus
  <2>4. Promise!File(c, state) /\ state \in {"open", "closed"}
    BY <2>1, <2>2, <2>3 DEF Promise!File, Docket
  <2>5. QED
    BY <2>4 DEF Promise!Promised
<1>4. ASSUME NEW s \in Chosen, UpdateSeverity(c, s)
      PROVE  Promise!Promised(c)
  <2> DEFINE x == [row[c] EXCEPT !.severity = s, !.locked = TRUE, !.pending = Null]
  <2>1. x \in Row /\ Promise!On(c)
    BY <1>1, <1>4, ViewsAreEntries, SeverityAssumption
       DEF Row, AnySeverity, UpdateSeverity, Exists, Promise!On, Docket
  <2>2. View(x) = [Docket[c] EXCEPT !.severity = s, !.owner = "analyst",
                                    !.proposal = Promise!NoProposal]
    <3>1. /\ x.status = row[c].status /\ x.severity = s
          /\ x.locked = TRUE /\ x.pending = Null
      BY <1>1 DEF Row
    <3> HIDE DEF x
    <3>2. /\ View(x) \in Promise!Entry /\ Docket[c] \in Promise!Entry
          /\ View(x).state = Docket[c].state /\ View(x).severity = s
          /\ View(x).owner = "analyst"
          /\ View(x).proposal = Promise!NoProposal
      BY <1>1, <2>1, <3>1, ViewsAreEntries DEF Promise!NoProposal, Null
    <3>3. QED
      BY <3>2 DEF Promise!Entry
  <2>3. Promise!Update(c, View(x))
    BY <1>1, <1>2, <1>4, <2>1, TimelyWriteUpdates DEF UpdateSeverity
  <2>4. Promise!Decide(c, s)
    BY <2>1, <2>2, <2>3 DEF Promise!Decide, Docket
  <2>5. QED
    BY <2>4 DEF Promise!Promised
<1>5. CASE ReleaseSeverity(c)
  <2> DEFINE x == [row[c] EXCEPT !.locked = FALSE, !.pending = Null]
  <2>1. x \in Row /\ Promise!On(c)
    BY <1>1, <1>5, ViewsAreEntries
       DEF Row, ReleaseSeverity, Exists, Promise!On, Docket
  <2>2. View(x) = [Docket[c] EXCEPT !.owner = "classifier",
                                    !.proposal = Promise!NoProposal]
    <3>1. /\ x.status = row[c].status /\ x.severity = row[c].severity
          /\ x.locked = FALSE /\ x.pending = Null
      BY <1>1 DEF Row
    <3> HIDE DEF x
    <3>2. /\ View(x) \in Promise!Entry /\ Docket[c] \in Promise!Entry
          /\ View(x).state = Docket[c].state /\ View(x).severity = Docket[c].severity
          /\ View(x).owner = "classifier"
          /\ View(x).proposal = Promise!NoProposal
      BY <1>1, <2>1, <3>1, ViewsAreEntries DEF Promise!NoProposal, Null
    <3>3. QED
      BY <3>2 DEF Promise!Entry
  <2>3. Promise!Update(c, View(x))
    BY <1>1, <1>2, <1>5, <2>1, TimelyWriteUpdates DEF ReleaseSeverity
  <2>4. Promise!Release(c)
    BY <2>1, <2>2, <2>3 DEF Promise!Release, Docket
  <2>5. QED
    BY <2>4 DEF Promise!Promised
<1>6. ASSUME NEW someone \in BOOLEAN, AssignCase(c, someone)
      PROVE  UNCHANGED <<Docket, raced>>
  <2> DEFINE x == [row[c] EXCEPT
                     !.status = IF @ = "new" /\ someone THEN "in_progress" ELSE @]
  <2>1. View(x) = View(row[c])
    BY <1>1 DEF View, Row, ClosedStatuses
  <2>2. Docket' = [Docket EXCEPT ![c] = View(row[c])]
    BY <1>1, <1>6, <2>1, WriteShows DEF AssignCase
  <2>3. QED
    BY <1>1, <1>2, <2>2 DEF Docket
<1>7. CASE PostWhitelistUnanswered(c)
  BY <1>7 DEF PostWhitelistUnanswered, Docket
<1>8. QED
  BY <1>3, <1>4, <1>5, <1>6, <1>7 DEF Triage

(* The promise compares severities on the same scale.                       *)
LEMMA SameScale ==
  ASSUME NEW s, NEW t
  PROVE  Promise!Escalates(s, t) <=> Escalates(s, t)
  BY DEF Promise!Escalates, Escalates, Promise!ReportedRank, ReportedRank,
     Promise!RecordedRank, RecordedRank, Promise!SeverityRank, SeverityRank,
     Promise!Severities, Severities

LEMMA IngestIsPromised ==
  ASSUME IInv, NEW r \in Requests,
         \/ IngestCreate(r) \/ IngestReopen(r) \/ IngestReopenProposing(r)
         \/ IngestPropose(r) \/ IngestRefresh(r) \/ IngestOverwrite(r)
  PROVE  \/ \E c \in Cases : Promise!Promised(c) \/ Promise!Lose(c)
         \/ UNCHANGED <<Docket, raced>>
<1> PICK c \in Cases, s \in Reported :
           c = request[r].case /\ s = request[r].report
  BY DEF IInv, TInv, TypeOK, Request, Idle, IngestRequest, ResolveRequest,
     WhitelistRequest, Ingesting, IngestCreate, IngestReopen,
     IngestReopenProposing, IngestPropose, IngestRefresh, IngestOverwrite
<1> DEFINE b == request[r].branch
           y == Scanned(r)
<1>1. TypeOK /\ row[c] \in Row /\ Docket[c] = View(row[c]) /\ s \in AnySeverity
  BY SeverityAssumption DEF IInv, TInv, TypeOK, Docket
<1>2. /\ y \in Row
      /\ y.status = row[c].status /\ y.severity = row[c].severity
      /\ y.locked = row[c].locked /\ y.pending = row[c].pending
  <2>1. y = [row[c] EXCEPT !.scanned = s]
    BY DEF Scanned
  <2>2. QED
    BY <1>1, <2>1 DEF Row
<1>3. Docket[c] \in Promise!Entry
  BY <1>1, ViewsAreEntries
<1> HIDE DEF y
<1>4. PICK x \in Row :
        /\ Write(c, x)
        /\ b = "create" =>
              x = [NoRow EXCEPT !.status = "new", !.severity = s, !.scanned = s]
        /\ b = "reopen" => x = [y EXCEPT !.status = "new", !.severity = s]
        /\ b = "reopen_proposing" => x = [y EXCEPT !.status = "new", !.pending = s]
        /\ b = "propose" => x = [y EXCEPT !.pending = s]
        /\ b = "refresh" => x = y
        /\ b = "overwrite" => x = [y EXCEPT !.severity = s]
  <2> USE DEF Ingesting
  <2>1. CASE IngestCreate(r)
    <3> DEFINE x == [NoRow EXCEPT !.status = "new", !.severity = s, !.scanned = s]
    <3>1. x \in Row
      BY <1>1 DEF NoRow, Row, ValidStatuses
    <3> HIDE DEF x
    <3>2. Write(c, x) /\ b = "create"
      BY <2>1 DEF IngestCreate, x
    <3>3. QED
      BY <3>1, <3>2 DEF x
  <2>2. CASE IngestReopen(r)
    <3> DEFINE x == [y EXCEPT !.status = "new", !.severity = s]
    <3>1. x \in Row
      BY <1>1, <1>2 DEF Row, ValidStatuses
    <3>2. Write(c, x) /\ b = "reopen"
      BY <2>2 DEF IngestReopen, y
    <3>3. QED
      BY <3>1, <3>2
  <2>3. CASE IngestReopenProposing(r)
    <3> DEFINE x == [y EXCEPT !.status = "new", !.pending = s]
    <3>1. Write(c, x) /\ b = "reopen_proposing"
      BY <2>3 DEF IngestReopenProposing, y
    <3>2. s \in Severities
      BY <3>1, <2>3 DEF IInv, TInv, ProposalsAreRated, IngestReopenProposing
    <3>3. x \in Row
      BY <1>2, <3>2 DEF Row, ValidStatuses
    <3>4. QED
      BY <3>1, <3>3
  <2>4. CASE IngestPropose(r)
    <3> DEFINE x == [y EXCEPT !.pending = s]
    <3>1. Write(c, x) /\ b = "propose"
      BY <2>4 DEF IngestPropose, y
    <3>2. s \in Severities
      BY <3>1, <2>4 DEF IInv, TInv, ProposalsAreRated, IngestPropose
    <3>3. x \in Row
      BY <1>2, <3>2 DEF Row
    <3>4. QED
      BY <3>1, <3>3
  <2>5. CASE IngestRefresh(r)
    <3>1. Write(c, y) /\ b = "refresh"
      BY <2>5 DEF IngestRefresh, y
    <3>2. QED
      BY <1>2, <3>1
  <2>6. CASE IngestOverwrite(r)
    <3> DEFINE x == [y EXCEPT !.severity = s]
    <3>1. Write(c, x) /\ b = "overwrite"
      BY <2>6 DEF IngestOverwrite, y
    <3>2. x \in Row
      BY <1>1, <1>2 DEF Row
    <3>3. QED
      BY <3>1, <3>2
  <2>7. QED
    BY <2>1, <2>2, <2>3, <2>4, <2>5, <2>6
<1>5. CASE Branch(row[c], s) # b
  <2>1. raced' = raced \cup {c}
    BY <1>4, <1>5 DEF Ingesting, Land, IngestCreate, IngestReopen,
       IngestReopenProposing, IngestPropose, IngestRefresh, IngestOverwrite
  <2>2. QED
    BY <1>1, <1>4, <2>1, OvertakenWriteLoses
<1>6. CASE Branch(row[c], s) = b
  <2>1. raced' = raced
    BY <1>4, <1>6 DEF Ingesting, Land, IngestCreate, IngestReopen,
       IngestReopenProposing, IngestPropose, IngestRefresh, IngestOverwrite
  <2>2. Promise!Update(c, View(x))
    BY <1>1, <1>4, <2>1, TimelyWriteUpdates
  <2>3. View(x) \in Promise!Entry
    BY ViewsAreEntries
  <2> USE DEF Ingesting
  <2>4. CASE IngestCreate(r)
    <3>1. row[c].status = "none"
      BY <2>4, <1>1, <1>6, BranchFacts DEF IngestCreate
    <3>2. /\ x.status = "new" /\ x.severity = s /\ x.locked = FALSE
          /\ x.pending = Null
      BY <1>4, <2>4 DEF NoRow, IngestCreate
    <3>3. View(x) = [Promise!Absent EXCEPT !.state = "open", !.severity = s]
      <4>1. /\ View(x).state = "open" /\ View(x).severity = s
            /\ View(x).owner = "classifier"
            /\ View(x).proposal = Promise!NoProposal
        BY <3>2, ViewsAreEntries DEF ClosedStatuses, Promise!NoProposal, Null
      <4>2. /\ Promise!Absent \in Promise!Entry
            /\ Promise!Absent.owner = "classifier"
            /\ Promise!Absent.proposal = Promise!NoProposal
        BY DEF Promise!Absent, Promise!Entry, Promise!AnySeverity
      <4>3. QED
        BY <2>3, <4>1, <4>2 DEF Promise!Entry
    <3>4. Promise!Open(c, s)
      BY <1>1, <2>2, <3>1, <3>3, ViewsAreEntries DEF Promise!Open, Docket
    <3>5. QED
      BY <3>4 DEF Promise!Promised
  <2>5. CASE IngestReopen(r) \/ IngestOverwrite(r)
    <3>1. /\ ~row[c].locked
          /\ \/ row[c].status \in ClosedStatuses /\ Escalates(s, row[c].severity)
             \/ row[c].status \in {"new", "in_progress"}
      BY <2>5, <1>1, <1>6, BranchFacts DEF IngestReopen, IngestOverwrite
    <3>2. /\ x.status \in {"new", "in_progress"} /\ x.severity = s
          /\ ~x.locked /\ x.pending = row[c].pending
      <4>1. CASE IngestReopen(r)
        <5>1. x = [y EXCEPT !.status = "new", !.severity = s]
          BY <1>4, <4>1 DEF IngestReopen
        <5>2. QED
          BY <1>2, <3>1, <5>1 DEF Row
      <4>2. CASE IngestOverwrite(r)
        <5>1. x = [y EXCEPT !.severity = s]
          BY <1>4, <4>2 DEF IngestOverwrite
        <5>2. row[c].status \in {"new", "in_progress"}
          BY <4>2, <1>1, <1>6, BranchFacts DEF IngestOverwrite
        <5>3. QED
          BY <1>2, <3>1, <5>1, <5>2 DEF Row
      <4>3. QED
        BY <2>5, <4>1, <4>2
    <3>3. View(x) = [Docket[c] EXCEPT !.state = "open", !.severity = s]
      <4>1. /\ View(x).state = "open" /\ View(x).severity = s
            /\ View(x).owner = Docket[c].owner
            /\ View(x).proposal = Docket[c].proposal
        BY <1>1, <3>1, <3>2, ViewsAreEntries DEF ClosedStatuses
      <4>2. QED
        BY <1>3, <2>3, <4>1 DEF Promise!Entry
    <3>4. /\ Docket[c].owner = "classifier"
          /\ \/ Docket[c].state = "open"
             \/ Docket[c].state = "closed" /\ Escalates(s, Docket[c].severity)
      BY <1>1, <3>1, ViewsAreEntries DEF ClosedStatuses
    <3>5. Promise!Rate(c, s)
      BY <2>2, <3>3, <3>4, SameScale DEF Promise!Rate, Docket
    <3>6. QED
      BY <3>5 DEF Promise!Promised
  <2>6. CASE IngestReopenProposing(r) \/ IngestPropose(r)
    <3>1. /\ row[c].locked /\ Escalates(s, row[c].severity)
          /\ row[c].status \in ClosedStatuses \cup {"new", "in_progress"}
      BY <2>6, <1>1, <1>6, BranchFacts DEF IngestReopenProposing, IngestPropose
    <3>2. /\ x.status \in {"new", "in_progress"} /\ x.severity = row[c].severity
          /\ x.locked /\ x.pending = s
      <4>1. CASE IngestReopenProposing(r)
        <5>1. x = [y EXCEPT !.status = "new", !.pending = s]
          BY <1>4, <4>1 DEF IngestReopenProposing
        <5>2. QED
          BY <1>2, <3>1, <5>1 DEF Row
      <4>2. CASE IngestPropose(r)
        <5>1. x = [y EXCEPT !.pending = s]
          BY <1>4, <4>2 DEF IngestPropose
        <5>2. row[c].status \in {"new", "in_progress"}
          BY <4>2, <1>1, <1>6, BranchFacts DEF IngestPropose
        <5>3. QED
          BY <1>2, <3>1, <5>1, <5>2 DEF Row
      <4>3. QED
        BY <2>6, <4>1, <4>2
    <3>3. View(x) = [Docket[c] EXCEPT !.state = "open", !.proposal = s]
      <4>1. /\ View(x).state = "open" /\ View(x).severity = Docket[c].severity
            /\ View(x).owner = Docket[c].owner /\ View(x).proposal = s
        BY <1>1, <3>1, <3>2, ViewsAreEntries DEF ClosedStatuses
      <4>2. QED
        BY <1>3, <2>3, <4>1 DEF Promise!Entry
    <3>4. /\ Promise!On(c) /\ Docket[c].owner = "analyst"
          /\ Escalates(s, Docket[c].severity)
      BY <1>1, <3>1, ViewsAreEntries DEF ClosedStatuses, Promise!On, Docket
    <3>5. Promise!Propose(c, s)
      BY <2>2, <3>3, <3>4, SameScale DEF Promise!Propose, Docket
    <3>6. QED
      BY <3>5 DEF Promise!Promised
  <2>7. CASE IngestRefresh(r)
    <3>1. View(x) = View(row[c])
      <4>1. row[c].locked
        BY <2>7, <1>1, <1>6, BranchFacts DEF IngestRefresh
      <4>2. x = y
        BY <1>4, <2>7 DEF IngestRefresh
      <4>3. /\ x.status = row[c].status /\ x.severity = row[c].severity
            /\ x.locked /\ x.pending = row[c].pending
        BY <1>2, <4>1, <4>2
      <4>4. /\ View(x).state = View(row[c]).state
            /\ View(x).severity = View(row[c]).severity
            /\ View(x).owner = View(row[c]).owner
            /\ View(x).proposal = View(row[c]).proposal
        BY <1>1, <4>1, <4>3, ViewsAreEntries
      <4>5. QED
        BY <1>1, <1>3, <2>3, <4>4 DEF Promise!Entry
    <3>2. Write(c, x)
      BY <1>4
    <3>3. Docket' = [Docket EXCEPT ![c] = View(row[c])]
      BY <1>1, <3>1, <3>2, WriteShows
    <3>4. Docket' = Docket
      BY <1>1, <3>3 DEF Docket
    <3>5. QED
      BY <2>1, <3>4
  <2>8. QED
    BY <2>4, <2>5, <2>6, <2>7
<1>7. QED
  BY <1>5, <1>6

LEMMA ResolveIsPromised ==
  ASSUME IInv, NEW r \in Requests, ApproveProposal(r) \/ RejectProposal(r)
  PROVE  \E c \in Cases : Promise!Promised(c) \/ Promise!Lose(c)
<1> PICK c \in Cases, p \in Severities :
           c = request[r].case /\ p = request[r].proposed
  BY DEF IInv, TInv, TypeOK, Request, Idle, IngestRequest, ResolveRequest,
     WhitelistRequest, Resolving, ApproveProposal, RejectProposal
<1>1. TypeOK /\ row[c] \in Row /\ Docket[c] = View(row[c])
  BY DEF IInv, TInv, TypeOK, Docket
<1>2. Docket[c] \in Promise!Entry /\ Docket[c].proposal = row[c].pending
  BY <1>1, ViewsAreEntries
<1>3. ASSUME NEW x \in Row, Write(c, x), row[c].pending # p
      PROVE  Promise!Lose(c)
  <2>1. raced' = raced \cup {c}
    BY <1>3 DEF ApproveProposal, RejectProposal, Resolving, Land
  <2>2. QED
    BY <1>1, <1>3, <2>1, OvertakenWriteLoses
<1>4. ASSUME NEW x \in Row, Write(c, x), row[c].pending = p
      PROVE  Promise!Update(c, View(x)) /\ Docket[c].proposal # Promise!NoProposal
  <2>1. raced' = raced
    BY <1>4 DEF ApproveProposal, RejectProposal, Resolving, Land
  <2>2. QED
    BY <1>1, <1>2, <1>4, <2>1, TimelyWriteUpdates DEF Promise!NoProposal, Severities
<1>5. CASE ApproveProposal(r)
  <2> DEFINE x == [row[c] EXCEPT !.severity = p, !.locked = TRUE, !.pending = Null]
  <2>1. /\ x \in Row
        /\ x.status = row[c].status /\ x.severity = p
        /\ x.locked /\ x.pending = Null
    BY <1>1 DEF Row, AnySeverity
  <2>2. Write(c, x)
    BY <1>5 DEF ApproveProposal
  <2> HIDE DEF x
  <2>3. /\ View(x) \in Promise!Entry
        /\ View(x).state = Docket[c].state /\ View(x).severity = p
        /\ View(x).owner = "analyst" /\ View(x).proposal = Promise!NoProposal
    BY <1>1, <2>1, ViewsAreEntries DEF Promise!NoProposal, Null
  <2>4. CASE row[c].pending = p
    <3>1. View(x) = [Docket[c] EXCEPT !.severity = Docket[c].proposal,
                                      !.owner = "analyst",
                                      !.proposal = Promise!NoProposal]
      BY <1>2, <2>3, <2>4, ZenonT(40) DEF Promise!Entry
    <3>2. Promise!Accept(c)
      BY <1>4, <2>1, <2>2, <2>4, <3>1 DEF Promise!Accept, Docket
    <3>3. QED
      BY <3>2 DEF Promise!Promised
  <2>5. QED
    BY <1>3, <2>1, <2>2, <2>4
<1>6. CASE RejectProposal(r)
  <2> DEFINE x == [row[c] EXCEPT !.pending = Null]
  <2>1. /\ x \in Row
        /\ x.status = row[c].status /\ x.severity = row[c].severity
        /\ x.locked <=> row[c].locked
        /\ x.pending = Null
    BY <1>1 DEF Row
  <2>2. Write(c, x)
    BY <1>6 DEF RejectProposal
  <2> HIDE DEF x
  <2>3. /\ View(x) \in Promise!Entry
        /\ View(x).state = Docket[c].state
        /\ View(x).severity = Docket[c].severity
        /\ View(x).owner = Docket[c].owner
        /\ View(x).proposal = Promise!NoProposal
    BY <1>1, <2>1, ViewsAreEntries DEF Promise!NoProposal, Null
  <2>4. CASE row[c].pending = p
    <3>1. View(x) = [Docket[c] EXCEPT !.proposal = Promise!NoProposal]
      BY <1>2, <2>3 DEF Promise!Entry
    <3>2. Promise!Decline(c)
      BY <1>4, <2>1, <2>2, <2>4, <3>1 DEF Promise!Decline, Docket
    <3>3. QED
      BY <3>2 DEF Promise!Promised
  <2>5. QED
    BY <1>3, <2>1, <2>2, <2>4
<1>7. QED
  BY <1>5, <1>6

(* No request deletes a case, so a whitelisting still has a case to close   *)
(* when the feed-manager has answered.                                      *)
WhitelistedCasesExist ==
    \A r \in Requests : request[r].op = "whitelist" => Exists(request[r].case)

LEMMA RowsPersist ==
  ASSUME IInv, [Next]_vars, NEW c \in Cases, Exists(c)
  PROVE  Exists(c)'
<1> USE DEF Exists
<1>1. row[c] \in Row /\ row \in [Cases -> Row]
  BY DEF IInv, TInv, TypeOK
<1>2. ASSUME NEW d \in Cases, NEW x, Write(d, x), x.status # "none"
      PROVE  Exists(c)'
  BY <1>1, <1>2 DEF Write
<1>3. ASSUME NEW r \in Requests,
             \/ IngestCreate(r) \/ IngestReopen(r) \/ IngestReopenProposing(r)
             \/ IngestPropose(r) \/ IngestRefresh(r) \/ IngestOverwrite(r)
      PROVE  Exists(c)'
  <2> DEFINE d == request[r].case
  <2>1. /\ d \in Cases /\ row[d] \in Row
        /\ \A e \in Cases \ {d} : row'[e] = row[e]
    BY <1>3, IngestIsSafe DEF SafeWrite, IInv, TInv, TypeOK
  <2>2. Scanned(r) \in Row /\ Scanned(r).status = row[d].status
    <3>1. Scanned(r) = [row[d] EXCEPT !.scanned = request[r].report]
      BY DEF Scanned
    <3>2. request[r].report \in AnySeverity
      BY <1>3, SeverityAssumption
         DEF IInv, TInv, TypeOK, Request, Idle, IngestRequest, ResolveRequest,
         WhitelistRequest, Ingesting, IngestCreate, IngestReopen,
         IngestReopenProposing, IngestPropose, IngestRefresh, IngestOverwrite
    <3>3. QED
      BY <2>1, <3>1, <3>2 DEF Row
  <2>3. \/ row'[d].status = "new"
        \/ row'[d].status = row[d].status
    <3>1. CASE IngestCreate(r)
      BY <1>1, <2>1, <3>1 DEF IngestCreate, Write, NoRow
    <3>2. CASE IngestReopen(r) \/ IngestReopenProposing(r)
      <4>1. /\ [Scanned(r) EXCEPT !.status = "new",
                                  !.severity = request[r].report].status = "new"
            /\ [Scanned(r) EXCEPT !.status = "new",
                                  !.pending = request[r].report].status = "new"
        BY <2>2 DEF Row
      <4>2. QED
        BY <1>1, <2>1, <3>2, <4>1 DEF IngestReopen, IngestReopenProposing, Write
    <3>3. CASE IngestPropose(r) \/ IngestRefresh(r) \/ IngestOverwrite(r)
      <4>1. /\ [Scanned(r) EXCEPT !.pending = request[r].report].status
                  = row[d].status
            /\ [Scanned(r) EXCEPT !.severity = request[r].report].status
                  = row[d].status
        BY <2>2 DEF Row
      <4>2. QED
        BY <1>1, <2>1, <2>2, <3>3, <4>1 DEF IngestPropose, IngestRefresh,
           IngestOverwrite, Write
    <3>4. QED
      BY <1>3, <3>1, <3>2, <3>3
  <2>4. QED
    BY <2>1, <2>3
<1>4. ASSUME NEW r \in Requests, ApproveProposal(r) \/ RejectProposal(r)
      PROVE  Exists(c)'
  <2> DEFINE d == request[r].case
  <2>1. /\ d \in Cases /\ row[d] \in Row
        /\ \A e \in Cases \ {d} : row'[e] = row[e]
    BY <1>4, ResolveIsSafe DEF SafeWrite, IInv, TInv, TypeOK
  <2>2. CASE ApproveProposal(r)
    <3> DEFINE x == [row[d] EXCEPT !.severity = request[r].proposed,
                                   !.locked = TRUE, !.pending = Null]
    <3>1. x.status = row[d].status
      BY <2>1 DEF Row
    <3>2. row'[d] = x
      BY <1>1, <2>1, <2>2 DEF ApproveProposal, Write
    <3>3. QED
      BY <2>1, <3>1, <3>2
  <2>3. CASE RejectProposal(r)
    BY <1>1, <2>1, <2>3 DEF RejectProposal, Write, Row
  <2>4. QED
    BY <1>4, <2>2, <2>3
<1>5. ASSUME NEW r \in Requests, CloseWhitelisted(r)
      PROVE  Exists(c)'
  <2>1. PICK d \in Cases : d = request[r].case
    BY <1>5, CloseWhitelistedIsSafe
  <2>2. row' = [row EXCEPT ![d] = [row[d] EXCEPT !.status = "closed_fp"]]
    BY <1>5, <2>1 DEF CloseWhitelisted, Write
  <2>3. QED
    BY <1>1, <2>2 DEF Row
<1>6. ASSUME NEW d \in Cases, Triage(d)
      PROVE  Exists(c)'
  <2>1. row[d] \in Row
    BY <1>1
  <2>2. ASSUME NEW status \in ValidStatuses, UpdateStatus(d, status)
        PROVE  Exists(c)'
    BY <1>1, <2>1, <2>2 DEF UpdateStatus, Write, Row, ValidStatuses, ClosedStatuses
  <2>3. ASSUME NEW s \in Chosen, UpdateSeverity(d, s)
        PROVE  Exists(c)'
    <3> DEFINE x == [row[d] EXCEPT !.severity = s, !.locked = TRUE, !.pending = Null]
    <3>1. x.status = row[d].status
      BY <2>1 DEF Row
    <3>2. Write(d, x) /\ row[d].status # "none"
      BY <2>3 DEF UpdateSeverity
    <3> HIDE DEF x
    <3>3. QED
      BY <1>2, <3>1, <3>2
  <2>4. CASE ReleaseSeverity(d)
    BY <1>1, <2>1, <2>4 DEF ReleaseSeverity, Write, Row
  <2>5. ASSUME NEW someone \in BOOLEAN, AssignCase(d, someone)
        PROVE  Exists(c)'
    BY <1>1, <2>1, <2>5 DEF AssignCase, Write, Row
  <2>6. CASE PostWhitelistUnanswered(d)
    BY <2>6 DEF PostWhitelistUnanswered
  <2>7. QED
    BY <1>6, <2>2, <2>3, <2>4, <2>5, <2>6 DEF Triage
<1>7. CASE UNCHANGED row
  BY <1>7
<1>8. QED
  BY <1>3, <1>4, <1>5, <1>6, <1>7 DEF Next, Ingest, Resolve, Whitelist,
     BeginIngest, IngestIgnore, Abandon, BeginResolve, PostWhitelist, vars

LEMMA CloseWhitelistedIsPromised ==
  ASSUME IInv, NEW r \in Requests, CloseWhitelisted(r), Exists(request[r].case)
  PROVE  \E c \in Cases : Promise!Promised(c)
<1> PICK c \in Cases : c = request[r].case
  BY DEF IInv, TInv, TypeOK, Request, Idle, IngestRequest, ResolveRequest,
     WhitelistRequest, CloseWhitelisted
<1> DEFINE x == [row[c] EXCEPT !.status = "closed_fp"]
<1>1. TypeOK /\ row[c] \in Row /\ Docket[c] = View(row[c])
  BY DEF IInv, TInv, TypeOK, Docket
<1>2. /\ x \in Row /\ x.status = "closed_fp" /\ x.severity = row[c].severity
      /\ x.locked <=> row[c].locked
      /\ x.pending = row[c].pending
  BY <1>1 DEF Row, ValidStatuses, ClosedStatuses
<1>3. Write(c, x) /\ raced' = raced
  BY DEF CloseWhitelisted
<1> HIDE DEF x
<1>4. Promise!Update(c, View(x))
  BY <1>1, <1>2, <1>3, TimelyWriteUpdates
<1>5. View(x) = [Docket[c] EXCEPT !.state = "closed"]
  <2>1. /\ View(x) \in Promise!Entry /\ Docket[c] \in Promise!Entry
        /\ View(x).state = "closed" /\ View(x).severity = Docket[c].severity
        /\ View(x).owner = Docket[c].owner
        /\ View(x).proposal = Docket[c].proposal
    BY <1>1, <1>2, ViewsAreEntries DEF ClosedStatuses
  <2>2. QED
    BY <2>1 DEF Promise!Entry
<1>6. Promise!On(c)
  BY <1>1, ViewsAreEntries DEF Exists, Promise!On, Docket
<1>7. Promise!File(c, "closed")
  BY <1>4, <1>5, <1>6 DEF Promise!File, Docket
<1>8. QED
  BY <1>7 DEF Promise!Promised

RInv == IInv /\ WhitelistedCasesExist

LEMMA NextRInv == RInv /\ [Next]_vars => RInv'
<1> SUFFICES ASSUME RInv, [Next]_vars
             PROVE  RInv'
  OBVIOUS
<1>1. IInv /\ IInv'
  BY NextIInv DEF RInv
<1>2. \A c \in Cases : Exists(c) => Exists(c)'
  BY <1>1, RowsPersist
<1>3. ASSUME NEW r \in Requests, request'[r].op = "whitelist"
      PROVE  /\ request'[r].case \in Cases
             /\ Exists(request'[r].case)
  <2>1. CASE request'[r] = request[r]
    BY <1>1, <1>3, <2>1 DEF RInv, WhitelistedCasesExist, IInv, TInv, TypeOK,
       Request, Idle, IngestRequest, ResolveRequest, WhitelistRequest
  <2>2. CASE \E c \in Cases : PostWhitelist(r, c)
    BY <1>1, <2>2 DEF PostWhitelist, Carry, IInv, TInv, TypeOK
  <2>3. CASE request'[r] = Idle
    BY <1>3, <2>3 DEF Idle
  <2>4. CASE \E c \in Cases : \/ \E s \in Reported : BeginIngest(r, c, s)
                              \/ \E approve \in BOOLEAN : BeginResolve(r, c, approve)
    BY <1>1, <1>3, <2>4 DEF BeginIngest, BeginResolve, Carry, IInv, TInv, TypeOK
  <2>5. QED
  BY <1>1, <2>1, <2>2, <2>3, <2>4, ZenonT(40) DEF IInv, TInv, TypeOK, Next, Ingest, Resolve,
     Whitelist, Triage, vars, BeginIngest, IngestIgnore, Abandon, BeginResolve,
     PostWhitelist, Ingesting, IngestCreate, IngestReopen,
     IngestReopenProposing, IngestPropose, IngestRefresh, IngestOverwrite,
     Resolving, ApproveProposal, RejectProposal, CloseWhitelisted, Land, Finish,
     Carry, UpdateStatus, UpdateSeverity, ReleaseSeverity, AssignCase,
     PostWhitelistUnanswered
<1>4. WhitelistedCasesExist'
  BY <1>2, <1>3 DEF WhitelistedCasesExist, Exists
<1>5. QED
  BY <1>1, <1>4 DEF RInv

LEMMA InitRInv == Init => RInv
  BY InitIInv DEF Init, RInv, WhitelistedCasesExist, Idle

(* Every step of the store is a step of the promise on one case, or changes *)
(* nothing it speaks of.                                                    *)
LEMMA StepIsPromised ==
  ASSUME RInv, [Next]_vars
  PROVE  [Promise!Next]_<<Docket, raced>>
<1>1. IInv
  BY DEF RInv
<1>2. ASSUME NEW r \in Requests,
             \/ IngestCreate(r) \/ IngestReopen(r) \/ IngestReopenProposing(r)
             \/ IngestPropose(r) \/ IngestRefresh(r) \/ IngestOverwrite(r)
      PROVE  [Promise!Next]_<<Docket, raced>>
  BY <1>1, <1>2, IngestIsPromised DEF Promise!Next
<1>3. ASSUME NEW r \in Requests, ApproveProposal(r) \/ RejectProposal(r)
      PROVE  [Promise!Next]_<<Docket, raced>>
  BY <1>1, <1>3, ResolveIsPromised DEF Promise!Next
<1>4. ASSUME NEW r \in Requests, CloseWhitelisted(r)
      PROVE  [Promise!Next]_<<Docket, raced>>
  <2>1. Exists(request[r].case)
    BY <1>4 DEF RInv, WhitelistedCasesExist, CloseWhitelisted
  <2>2. QED
    BY <1>1, <1>4, <2>1, CloseWhitelistedIsPromised DEF Promise!Next
<1>5. ASSUME NEW c \in Cases, Triage(c)
      PROVE  [Promise!Next]_<<Docket, raced>>
  BY <1>1, <1>5, TriageIsPromised DEF Promise!Next
<1>6. CASE UNCHANGED <<row, raced>>
  BY <1>6 DEF Docket
<1>7. QED
  BY <1>2, <1>3, <1>4, <1>5, <1>6 DEF Next, Ingest, Resolve, Whitelist,
     BeginIngest, IngestIgnore, Abandon, BeginResolve, PostWhitelist, vars

(* The case manager, with any number of cases and overlapping requests,     *)
(* implements CaseTriage: on every case that no overtaken write touched,    *)
(* each request takes effect at once.                                       *)
THEOREM StoreImplementsTriage == Spec => ImplementsTriage
<1>1. Init => Promise!Init
  BY DEF Init, Promise!Init, Promise!Absent, Promise!NoProposal, View, NoRow,
     Null, Unrated, Promise!Unrated, ClosedStatuses
<1>2. RInv /\ [Next]_vars => [Promise!Next]_(Promise!vars)
  BY StepIsPromised DEF Promise!vars, Docket
<1>3. QED
  BY InitRInv, NextRInv, <1>1, <1>2, PTL DEF Spec, ImplementsTriage, Promise!Spec

-----------------------------------------------------------------------------
(* The newest history line tells the row, on every case, raced or not.      *)

Recorded(x, a) ==
    /\ x.status # "none" <=> a # Null
    /\ a = "severity_unlocked" => ~x.locked
    /\ a \in {"severity_changed", "severity_proposal_approved"} => x.locked
    /\ a \in {"severity_changed", "severity_unlocked",
              "severity_proposal_approved",
              "severity_proposal_rejected"} => x.pending = Null
    /\ a = "severity_proposed" => x.pending # Null
    /\ a = "whitelisted" => x.status = "closed_fp"
    /\ a \in {"created", "reopened"} => x.status = "new"

(* What a running handler relies on without reading it again: its case is   *)
(* there, and a whitelisting has been posted.                               *)
CasesAreThere ==
    \A r \in Requests :
        /\ request[r].op \in {"resolve", "whitelist"} => Exists(request[r].case)
        /\ request[r].op = "ingest" /\ request[r].branch # "create" =>
               Exists(request[r].case)
        /\ request[r].op = "whitelist" => request[r].case \in posted

HInv == /\ IInv
        /\ CasesAreThere
        /\ \A c \in Cases : Exists(c) \/ row[c] = NoRow
        /\ \A c \in Cases : Recorded(row[c], audit[c])
        /\ WhitelistedOnlyAfterPost

(* A write of row x with history line a that keeps all this, and releases   *)
(* no lock without saying so.                                               *)
RecordedWrite(c) ==
    \E x \in Row, a \in AuditActions :
        /\ Write(c, x)
        /\ Audit(c, a) \/ (audit' = audit /\ audit[c] = a)
        /\ x.status # "none"
        /\ Recorded(x, a)
        /\ row[c].locked => x.locked \/ a = "severity_unlocked"
        /\ a = "whitelisted" => c \in posted

LEMMA RecordedWriteKeeps ==
  ASSUME HInv, NEW c \in Cases, RecordedWrite(c), posted \subseteq posted'
  PROVE  /\ \A d \in Cases : Exists(d)' \/ row'[d] = NoRow
         /\ \A d \in Cases : Recorded(row'[d], audit'[d])
         /\ WhitelistedOnlyAfterPost'
         /\ \A d \in Cases : row[d].locked /\ ~row'[d].locked =>
                                audit'[d] = "severity_unlocked"
<1> PICK x \in Row, a \in AuditActions :
        /\ Write(c, x)
        /\ Audit(c, a) \/ (audit' = audit /\ audit[c] = a)
        /\ x.status # "none"
        /\ Recorded(x, a)
        /\ row[c].locked => x.locked \/ a = "severity_unlocked"
        /\ a = "whitelisted" => c \in posted
  BY DEF RecordedWrite
<1>1. row \in [Cases -> Row] /\ audit \in [Cases -> AuditActions \cup {Null}]
  BY DEF HInv, IInv, TInv, TypeOK
<1>2. /\ row'[c] = x /\ audit'[c] = a
      /\ \A d \in Cases : d # c => row'[d] = row[d] /\ audit'[d] = audit[d]
  BY <1>1 DEF Write, Audit
<1>3. \A d \in Cases : Exists(d)' \/ row'[d] = NoRow
  BY <1>2 DEF HInv, Exists
<1>4. \A d \in Cases : Recorded(row'[d], audit'[d])
  BY <1>2 DEF HInv
<1>5. WhitelistedOnlyAfterPost'
  BY <1>2 DEF HInv, WhitelistedOnlyAfterPost
<1>6. \A d \in Cases : row[d].locked /\ ~row'[d].locked =>
                          audit'[d] = "severity_unlocked"
  BY <1>2
<1>7. QED
  BY <1>3, <1>4, <1>5, <1>6

LEMMA IngestIsRecorded ==
  ASSUME HInv, TInv', NEW r \in Requests,
         \/ IngestCreate(r) \/ IngestReopen(r) \/ IngestReopenProposing(r)
         \/ IngestPropose(r) \/ IngestRefresh(r) \/ IngestOverwrite(r)
  PROVE  request[r].case \in Cases /\ RecordedWrite(request[r].case)
<1> DEFINE c == request[r].case
           s == request[r].report
<1> USE SeverityAssumption
<1>1. /\ request[r] \in IngestRequest
      /\ c \in Cases /\ s \in AnySeverity /\ row[c] \in Row
      /\ audit[c] \in AuditActions \cup {Null}
  <2>1. request[r] \in IngestRequest
    BY DEF HInv, IInv, TInv, TypeOK, Request, Idle, ResolveRequest,
       WhitelistRequest, Ingesting, IngestCreate, IngestReopen,
       IngestReopenProposing, IngestPropose, IngestRefresh, IngestOverwrite
  <2>2. QED
    BY <2>1 DEF IngestRequest, HInv, IInv, TInv, TypeOK
<1>2. /\ Scanned(r) \in Row
      /\ Scanned(r).status = row[c].status /\ Scanned(r).locked = row[c].locked
      /\ Scanned(r).pending = row[c].pending
  BY <1>1 DEF Scanned, Row
<1>3. CASE IngestCreate(r)
  <2> DEFINE x == [NoRow EXCEPT !.status = "new", !.severity = s, !.scanned = s]
  <2>1. x \in Row /\ x.status = "new"
    BY <1>1 DEF NoRow, Row, ValidStatuses
  <2>2. /\ Write(c, x) /\ Audit(c, "created")
        /\ row[c].status = "none"
    BY <1>3 DEF IngestCreate, Exists
  <2>3. ~row[c].locked
    BY <1>1, <2>2 DEF HInv, Exists, NoRow
  <2> HIDE DEF x
  <2>4. "created" \in AuditActions /\ Recorded(x, "created")
    BY <2>1 DEF Recorded, AuditActions, Null
  <2>5. QED
    BY <1>1, <2>1, <2>2, <2>3, <2>4 DEF RecordedWrite
<1>4. CASE IngestReopen(r)
  <2> DEFINE x == [Scanned(r) EXCEPT !.status = "new", !.severity = s]
  <2>1. x \in Row /\ x.status = "new" /\ x.locked = row[c].locked
    BY <1>1, <1>2 DEF Row, ValidStatuses
  <2>2. Write(c, x) /\ Audit(c, "reopened")
    BY <1>4 DEF IngestReopen
  <2> HIDE DEF x
  <2>3. "reopened" \in AuditActions /\ Recorded(x, "reopened")
    BY <2>1 DEF Recorded, AuditActions, Null
  <2>4. QED
    BY <1>1, <2>1, <2>2, <2>3 DEF RecordedWrite
<1>5. CASE IngestReopenProposing(r) \/ IngestPropose(r)
  <2>1. s \in Severities /\ s # Null
    BY <1>5 DEF HInv, IInv, TInv, ProposalsAreRated, Ingesting,
       IngestReopenProposing, IngestPropose, Severities, Null
  <2>2. Exists(c)
    BY <1>5 DEF HInv, CasesAreThere, Ingesting, IngestReopenProposing, IngestPropose
  <2>3. ASSUME NEW x \in Row, Write(c, x), Audit(c, "severity_proposed"),
               x.status # "none", x.pending = s, x.locked = row[c].locked
        PROVE  RecordedWrite(c)
    <3>1. "severity_proposed" \in AuditActions /\ Recorded(x, "severity_proposed")
      BY <2>1, <2>3 DEF Recorded, AuditActions, Null
    <3>2. QED
      BY <2>3, <3>1 DEF RecordedWrite
  <2>4. CASE IngestReopenProposing(r)
    <3> DEFINE x == [Scanned(r) EXCEPT !.status = "new", !.pending = s]
    <3>1. x \in Row /\ x.status = "new" /\ x.pending = s /\ x.locked = row[c].locked
      BY <1>2, <2>1 DEF Row, ValidStatuses
    <3>2. Write(c, x) /\ Audit(c, "severity_proposed")
      BY <2>4 DEF IngestReopenProposing
    <3> HIDE DEF x
    <3>3. QED
      BY <1>1, <2>3, <3>1, <3>2
  <2>5. CASE IngestPropose(r)
    <3> DEFINE x == [Scanned(r) EXCEPT !.pending = s]
    <3>1. /\ x \in Row /\ x.status = row[c].status /\ x.pending = s
          /\ x.locked = row[c].locked
      BY <1>2, <2>1 DEF Row
    <3>2. Write(c, x) /\ Audit(c, "severity_proposed")
      BY <2>5 DEF IngestPropose
    <3> HIDE DEF x
    <3>3. QED
      BY <1>1, <2>2, <2>3, <3>1, <3>2 DEF Exists
  <2>6. QED
    BY <1>5, <2>4, <2>5
<1>6. CASE IngestRefresh(r) \/ IngestOverwrite(r)
  <2>1. Exists(c)
    BY <1>6 DEF HInv, CasesAreThere, Ingesting, IngestRefresh, IngestOverwrite
  <2>2. audit[c] \in AuditActions /\ audit[c] # Null
    BY <1>1, <2>1 DEF HInv, Recorded, Exists
  <2>3. ASSUME NEW x \in Row, Write(c, x), audit' = audit,
               x.status = row[c].status, x.pending = row[c].pending,
               x.locked = row[c].locked
        PROVE  RecordedWrite(c)
    <3>1. Recorded(x, audit[c])
      BY <1>1, <2>3 DEF HInv, Recorded
    <3>2. audit[c] = "whitelisted" => c \in posted
      BY <1>1 DEF HInv, WhitelistedOnlyAfterPost
    <3>3. QED
      BY <2>1, <2>2, <2>3, <3>1, <3>2 DEF RecordedWrite, Exists
  <2>4. CASE IngestRefresh(r)
    BY <1>1, <1>2, <2>3, <2>4 DEF IngestRefresh
  <2>5. CASE IngestOverwrite(r)
    <3> DEFINE x == [Scanned(r) EXCEPT !.severity = s]
    <3>1. /\ x \in Row /\ x.status = row[c].status /\ x.pending = row[c].pending
          /\ x.locked = row[c].locked
      BY <1>1, <1>2 DEF Row
    <3>2. Write(c, x) /\ audit' = audit
      BY <2>5 DEF IngestOverwrite
    <3> HIDE DEF x
    <3>3. QED
      BY <1>1, <2>3, <3>1, <3>2
  <2>6. QED
    BY <1>6, <2>4, <2>5
<1>7. QED
  BY <1>1, <1>3, <1>4, <1>5, <1>6

LEMMA OthersAreRecorded ==
  ASSUME HInv, NEW r \in Requests,
         ApproveProposal(r) \/ RejectProposal(r) \/ CloseWhitelisted(r)
  PROVE  request[r].case \in Cases /\ RecordedWrite(request[r].case)
<1> DEFINE c == request[r].case
<1>1. /\ request[r].op \in {"resolve", "whitelist"}
      /\ c \in Cases /\ row[c] \in Row
      /\ request[r].op = "resolve" => request[r].proposed \in Severities
  <2>1. request[r] \in ResolveRequest \cup WhitelistRequest
    BY DEF HInv, IInv, TInv, TypeOK, Request, Idle, IngestRequest, Resolving,
       ApproveProposal, RejectProposal, CloseWhitelisted
  <2>2. QED
    BY <2>1 DEF HInv, IInv, TInv, TypeOK, ResolveRequest, WhitelistRequest
<1>2. row[c].status # "none"
  BY <1>1 DEF HInv, CasesAreThere, Exists
<1>3. CASE ApproveProposal(r)
  <2> DEFINE x == [row[c] EXCEPT !.severity = request[r].proposed,
                                 !.locked = TRUE, !.pending = Null]
  <2>0. request[r].proposed \in AnySeverity
    BY <1>1, <1>3 DEF ApproveProposal, Resolving, AnySeverity
  <2>1. x \in Row /\ x.status = row[c].status /\ x.locked = TRUE /\ x.pending = Null
    BY <1>1, <2>0 DEF Row
  <2>2. Write(c, x) /\ Audit(c, "severity_proposal_approved")
    BY <1>3 DEF ApproveProposal
  <2> HIDE DEF x
  <2>3. /\ "severity_proposal_approved" \in AuditActions
        /\ Recorded(x, "severity_proposal_approved")
    BY <1>2, <2>1 DEF Recorded, AuditActions, Null
  <2>4. QED
    BY <1>1, <1>2, <2>1, <2>2, <2>3 DEF RecordedWrite
<1>4. CASE RejectProposal(r)
  <2> DEFINE x == [row[c] EXCEPT !.pending = Null]
  <2>1. /\ x \in Row /\ x.status = row[c].status /\ x.locked = row[c].locked
        /\ x.pending = Null
    BY <1>1 DEF Row
  <2>2. Write(c, x) /\ Audit(c, "severity_proposal_rejected")
    BY <1>4 DEF RejectProposal
  <2> HIDE DEF x
  <2>3. /\ "severity_proposal_rejected" \in AuditActions
        /\ Recorded(x, "severity_proposal_rejected")
    BY <1>2, <2>1 DEF Recorded, AuditActions, Null
  <2>4. QED
    BY <1>1, <1>2, <2>1, <2>2, <2>3 DEF RecordedWrite
<1>5. CASE CloseWhitelisted(r)
  <2> DEFINE x == [row[c] EXCEPT !.status = "closed_fp"]
  <2>1. x \in Row /\ x.status = "closed_fp" /\ x.locked = row[c].locked
    BY <1>1 DEF Row, ValidStatuses, ClosedStatuses
  <2>2. Write(c, x) /\ Audit(c, "whitelisted")
    BY <1>5 DEF CloseWhitelisted
  <2>3. c \in posted
    BY <1>5 DEF HInv, CasesAreThere, CloseWhitelisted
  <2> HIDE DEF x
  <2>4. "whitelisted" \in AuditActions /\ Recorded(x, "whitelisted")
    BY <2>1 DEF Recorded, AuditActions, Null
  <2>5. QED
    BY <1>1, <2>1, <2>2, <2>3, <2>4 DEF RecordedWrite
<1>6. QED
  BY <1>1, <1>3, <1>4, <1>5

LEMMA TriageIsRecorded ==
  ASSUME HInv, NEW c \in Cases, Triage(c)
  PROVE  RecordedWrite(c) \/ UNCHANGED <<row, audit>>
<1> USE SeverityAssumption
<1>1. row[c] \in Row
  BY DEF HInv, IInv, TInv, TypeOK
<1>2. ASSUME NEW status \in ValidStatuses, UpdateStatus(c, status)
      PROVE  RecordedWrite(c)
  <2> DEFINE x == [row[c] EXCEPT !.status = status]
  <2>1. x \in Row /\ x.status # "none" /\ x.locked = row[c].locked
    BY <1>1 DEF Row, ValidStatuses, ClosedStatuses
  <2>2. Write(c, x) /\ Audit(c, "status_changed")
    BY <1>2 DEF UpdateStatus
  <2> HIDE DEF x
  <2>3. "status_changed" \in AuditActions /\ Recorded(x, "status_changed")
    BY <2>1 DEF Recorded, AuditActions, Null
  <2>4. QED
    BY <2>1, <2>2, <2>3 DEF RecordedWrite
<1>3. ASSUME NEW s \in Chosen, UpdateSeverity(c, s)
      PROVE  RecordedWrite(c)
  <2> DEFINE x == [row[c] EXCEPT !.severity = s, !.locked = TRUE, !.pending = Null]
  <2>1. x \in Row /\ x.status = row[c].status /\ x.locked = TRUE /\ x.pending = Null
    BY <1>1 DEF Row, AnySeverity
  <2>2. Write(c, x) /\ Audit(c, "severity_changed") /\ row[c].status # "none"
    BY <1>3 DEF UpdateSeverity, Exists
  <2> HIDE DEF x
  <2>3. "severity_changed" \in AuditActions /\ Recorded(x, "severity_changed")
    BY <2>1, <2>2 DEF Recorded, AuditActions, Null
  <2>4. QED
    BY <2>1, <2>2, <2>3 DEF RecordedWrite
<1>4. ASSUME ReleaseSeverity(c)
      PROVE  RecordedWrite(c)
  <2> DEFINE x == [row[c] EXCEPT !.locked = FALSE, !.pending = Null]
  <2>1. x \in Row /\ x.status = row[c].status /\ x.locked = FALSE /\ x.pending = Null
    BY <1>1 DEF Row
  <2>2. Write(c, x) /\ Audit(c, "severity_unlocked") /\ row[c].status # "none"
    BY <1>4 DEF ReleaseSeverity, Exists
  <2> HIDE DEF x
  <2>3. "severity_unlocked" \in AuditActions /\ Recorded(x, "severity_unlocked")
    BY <2>1, <2>2 DEF Recorded, AuditActions, Null
  <2>4. QED
    BY <2>1, <2>2, <2>3 DEF RecordedWrite
<1>5. ASSUME NEW someone \in BOOLEAN, AssignCase(c, someone)
      PROVE  RecordedWrite(c)
  <2> DEFINE x == [row[c] EXCEPT
                      !.status = IF @ = "new" /\ someone THEN "in_progress" ELSE @]
  <2>0. row[c].status # "none"
    BY <1>5 DEF AssignCase, Exists
  <2>1. x \in Row /\ x.status # "none" /\ x.locked = row[c].locked
    BY <1>1, <2>0 DEF Row, ValidStatuses
  <2>2. Write(c, x) /\ Audit(c, "assigned")
    BY <1>5 DEF AssignCase
  <2> HIDE DEF x
  <2>3. "assigned" \in AuditActions /\ Recorded(x, "assigned")
    BY <2>1 DEF Recorded, AuditActions, Null
  <2>4. QED
    BY <2>1, <2>2, <2>3 DEF RecordedWrite
<1>6. ASSUME PostWhitelistUnanswered(c)
      PROVE  UNCHANGED <<row, audit>>
  BY <1>6 DEF PostWhitelistUnanswered
<1>7. QED
  BY <1>2, <1>3, <1>4, <1>5, <1>6 DEF Triage

(* Every step records what it writes.                                       *)
LEMMA StepIsRecorded ==
  ASSUME HInv, TInv', [Next]_vars
  PROVE  \/ \E c \in Cases : RecordedWrite(c)
         \/ UNCHANGED <<row, audit>>
<1>1. ASSUME NEW r \in Requests, NEW c \in Cases, NEW s \in Reported,
             BeginIngest(r, c, s)
      PROVE  UNCHANGED <<row, audit>>
  BY <1>1 DEF BeginIngest
<1>2. ASSUME NEW r \in Requests, NEW c \in Cases, NEW approve \in BOOLEAN,
             BeginResolve(r, c, approve)
      PROVE  UNCHANGED <<row, audit>>
  BY <1>2 DEF BeginResolve
<1>3. ASSUME NEW r \in Requests, NEW c \in Cases, PostWhitelist(r, c)
      PROVE  UNCHANGED <<row, audit>>
  BY <1>3 DEF PostWhitelist
<1>4. ASSUME NEW r \in Requests, IngestIgnore(r) \/ Abandon(r)
      PROVE  UNCHANGED <<row, audit>>
  BY <1>4 DEF IngestIgnore, Abandon
<1>5. CASE UNCHANGED vars
  BY <1>5 DEF vars
<1>6. QED
  BY <1>1, <1>2, <1>3, <1>4, <1>5, IngestIsRecorded, OthersAreRecorded,
     TriageIsRecorded DEF Next, Ingest, Resolve, Whitelist

(* Nothing is ever taken back from the feed-manager's list.                 *)
LEMMA PostedGrows ==
  ASSUME [Next]_vars
  PROVE  posted \subseteq posted'
<1>1. ASSUME NEW r \in Requests, Ingest(r) \/ Abandon(r)
      PROVE  posted' = posted
  BY <1>1 DEF Ingest, Abandon, BeginIngest, IngestIgnore, Ingesting,
     IngestCreate, IngestReopen, IngestReopenProposing, IngestPropose,
     IngestRefresh, IngestOverwrite
<1>2. ASSUME NEW r \in Requests, Resolve(r)
      PROVE  posted' = posted
  BY <1>2 DEF Resolve, BeginResolve, Resolving, ApproveProposal, RejectProposal
<1>3. ASSUME NEW r \in Requests, Whitelist(r)
      PROVE  posted \subseteq posted'
  BY <1>3 DEF Whitelist, PostWhitelist, CloseWhitelisted
<1>4. ASSUME NEW c \in Cases, Triage(c)
      PROVE  posted \subseteq posted'
  BY <1>4 DEF Triage, UpdateStatus, UpdateSeverity, ReleaseSeverity, AssignCase,
     PostWhitelistUnanswered
<1>5. CASE UNCHANGED vars
  BY <1>5 DEF vars
<1>6. QED
  BY <1>1, <1>2, <1>3, <1>4, <1>5 DEF Next

(* A request begins, goes on as it is, or ends.                             *)
LEMMA RequestMoves ==
  ASSUME request \in [Requests -> Request], [Next]_vars, NEW r \in Requests
  PROVE  \/ request'[r] = request[r] \/ request'[r] = Idle
         \/ \E c \in Cases, s \in Reported : BeginIngest(r, c, s)
         \/ \E c \in Cases, approve \in BOOLEAN : BeginResolve(r, c, approve)
         \/ \E c \in Cases : PostWhitelist(r, c)
<1> DEFINE Kept == request'[r] = request[r] \/ request'[r] = Idle
<1>1. ASSUME NEW q \in Requests, Finish(q)
      PROVE  Kept
  BY <1>1 DEF Finish
<1>2. ASSUME NEW q \in Requests, NEW x, Carry(q, x), q # r
      PROVE  Kept
  BY <1>2 DEF Carry
<1>3. ASSUME NEW q \in Requests, Ingest(q),
             ~\E c \in Cases, s \in Reported : BeginIngest(q, c, s)
      PROVE  Kept
  <2>1. Finish(q)
    BY <1>3 DEF Ingest, IngestIgnore, Ingesting, Land, IngestCreate,
       IngestReopen, IngestReopenProposing, IngestPropose, IngestRefresh,
       IngestOverwrite
  <2>2. QED
    BY <1>1, <2>1
<1>4. ASSUME NEW q \in Requests, Resolve(q),
             ~\E c \in Cases, approve \in BOOLEAN : BeginResolve(q, c, approve)
      PROVE  Kept
  <2>1. Finish(q)
    BY <1>4 DEF Resolve, Resolving, Land, ApproveProposal, RejectProposal
  <2>2. QED
    BY <1>1, <2>1
<1>5. ASSUME NEW q \in Requests, CloseWhitelisted(q) \/ Abandon(q)
      PROVE  Kept
  <2>1. Finish(q)
    BY <1>5 DEF CloseWhitelisted, Abandon
  <2>2. QED
    BY <1>1, <2>1
<1>6. ASSUME NEW q \in Requests, q # r,
             \/ \E c \in Cases, s \in Reported : BeginIngest(q, c, s)
             \/ \E c \in Cases, approve \in BOOLEAN : BeginResolve(q, c, approve)
             \/ \E c \in Cases : PostWhitelist(q, c)
      PROVE  Kept
  BY <1>2, <1>6 DEF BeginIngest, BeginResolve, PostWhitelist
<1>7. ASSUME NEW c \in Cases, Triage(c)
      PROVE  Kept
  BY <1>7 DEF Triage, UpdateStatus, UpdateSeverity, ReleaseSeverity, AssignCase,
     PostWhitelistUnanswered
<1>8. CASE UNCHANGED vars
  BY <1>8 DEF vars
<1> HIDE DEF Kept
<1>9. ASSUME NEW q \in Requests, Ingest(q) \/ Resolve(q) \/ Whitelist(q) \/ Abandon(q)
      PROVE  \/ Kept
             \/ \E c \in Cases, s \in Reported : BeginIngest(r, c, s)
             \/ \E c \in Cases, approve \in BOOLEAN : BeginResolve(r, c, approve)
             \/ \E c \in Cases : PostWhitelist(r, c)
  BY <1>3, <1>4, <1>5, <1>6, <1>9 DEF Whitelist
<1>10. QED
  BY <1>7, <1>8, <1>9 DEF Next, Kept

LEMMA NextCasesAreThere ==
  ASSUME HInv, IInv', [Next]_vars
  PROVE  CasesAreThere'
<1>1. \A c \in Cases : Exists(c) => Exists(c)'
  BY RowsPersist DEF HInv
<1>2. posted \subseteq posted'
  BY PostedGrows
<1>3. ASSUME NEW r \in Requests
      PROVE  /\ request'[r].op \in {"resolve", "whitelist"} =>
                   row'[request'[r].case].status # "none"
             /\ request'[r].op = "ingest" /\ request'[r].branch # "create" =>
                   row'[request'[r].case].status # "none"
             /\ request'[r].op = "whitelist" => request'[r].case \in posted'
  <2>1. CASE request'[r] = request[r]
    <3>1. request[r].op \in {"ingest", "resolve", "whitelist"} =>
             request[r].case \in Cases
      BY DEF HInv, IInv, TInv, TypeOK, Request, Idle, IngestRequest,
         ResolveRequest, WhitelistRequest
    <3>2. QED
      BY <1>1, <1>2, <2>1, <3>1 DEF HInv, CasesAreThere, Exists
  <2>2. CASE request'[r] = Idle
    BY <2>2 DEF Idle
  <2>3. ASSUME NEW c \in Cases, NEW s \in Reported, BeginIngest(r, c, s)
        PROVE  /\ request'[r].op = "ingest" /\ request'[r].case = c
               /\ request'[r].branch # "create" => Exists(c)
    <3>1. row[c] \in Row /\ s \in AnySeverity
      BY SeverityAssumption DEF HInv, IInv, TInv, TypeOK
    <3>2. request'[r] = [op |-> "ingest", case |-> c, report |-> s,
                         branch |-> Branch(row[c], s)]
      BY <2>3 DEF BeginIngest, Carry, HInv, IInv, TInv, TypeOK
    <3>3. Branch(row[c], s) # "create" => row[c].status # "none"
      BY <3>1, BranchFacts
    <3>4. QED
      BY <3>2, <3>3 DEF Exists
  <2>4. ASSUME NEW c \in Cases, NEW approve \in BOOLEAN, BeginResolve(r, c, approve)
        PROVE  /\ request'[r].op = "resolve" /\ request'[r].case = c
               /\ Exists(c)
    <3>1. row[c].pending # Null
      BY <2>4 DEF BeginResolve
    <3>2. Exists(c)
      BY <3>1 DEF HInv, NoRow
    <3>3. QED
      BY <2>4, <3>2 DEF BeginResolve, Carry, HInv, IInv, TInv, TypeOK
  <2>5. ASSUME NEW c \in Cases, PostWhitelist(r, c)
        PROVE  /\ request'[r].op = "whitelist" /\ request'[r].case = c
               /\ Exists(c) /\ c \in posted'
    BY <2>5 DEF PostWhitelist, Carry, HInv, IInv, TInv, TypeOK
  <2>6. \/ request'[r] = request[r] \/ request'[r] = Idle
        \/ \E c \in Cases, s \in Reported : BeginIngest(r, c, s)
        \/ \E c \in Cases, approve \in BOOLEAN : BeginResolve(r, c, approve)
        \/ \E c \in Cases : PostWhitelist(r, c)
    BY RequestMoves DEF HInv, IInv, TInv, TypeOK
  <2>7. QED
    BY <1>1, <2>1, <2>2, <2>3, <2>4, <2>5, <2>6 DEF Exists
<1>4. QED
  BY <1>3 DEF CasesAreThere, Exists

LEMMA NextHInv == HInv /\ [Next]_vars => HInv'
<1> SUFFICES ASSUME HInv, [Next]_vars PROVE HInv'
  OBVIOUS
<1>1. IInv' /\ TInv'
  BY NextIInv DEF HInv, IInv
<1>2. CasesAreThere'
  BY <1>1, NextCasesAreThere
<1>3. posted \subseteq posted'
  BY PostedGrows
<1>4. CASE \E c \in Cases : RecordedWrite(c)
  BY <1>1, <1>2, <1>3, <1>4, RecordedWriteKeeps DEF HInv
<1>5. CASE UNCHANGED <<row, audit>>
  BY <1>1, <1>2, <1>3, <1>5 DEF HInv, Exists, WhitelistedOnlyAfterPost
<1>6. QED
  BY <1>1, <1>4, <1>5, StepIsRecorded

LEMMA InitHInv == Init => HInv
<1>1. Init => CasesAreThere
  BY DEF Init, CasesAreThere, Idle
<1>2. Init => \A c \in Cases : Recorded(row[c], audit[c]) /\ row[c] = NoRow
  BY DEF Init, Recorded, NoRow, Null
<1>3. Init => WhitelistedOnlyAfterPost
  BY DEF Init, WhitelistedOnlyAfterPost, Null
<1>4. QED
  BY <1>1, <1>2, <1>3, InitIInv DEF HInv

(* However requests overlap, the newest history line tells the truth about  *)
(* the row.                                                                 *)
THEOREM HistoryTellsTheRow == Spec => []HistoryMatchesRow
<1>1. HInv => HistoryMatchesRow
  BY DEF HInv, Recorded, HistoryMatchesRow, Exists
<1>2. QED
  BY InitHInv, NextHInv, <1>1, PTL DEF Spec

(* No case is closed as whitelisted whose domain was not posted.            *)
THEOREM PostComesFirst == Spec => []WhitelistedOnlyAfterPost
<1>1. HInv => WhitelistedOnlyAfterPost
  BY DEF HInv
<1>2. QED
  BY InitHInv, NextHInv, <1>1, PTL DEF Spec

(* However requests overlap, only an analyst's release unlocks a severity.  *)
THEOREM OnlyReleaseUnlocks == Spec => OverrideEndsOnlyByRelease
<1> DEFINE Goes == \A c \in Cases : row[c].locked /\ ~row'[c].locked =>
                                       audit'[c] = "severity_unlocked"
<1>1. HInv /\ HInv' /\ [Next]_vars => [Goes]_vars
  <2> SUFFICES ASSUME HInv, HInv', [Next]_vars PROVE Goes
    OBVIOUS
  <2>1. posted \subseteq posted'
    BY PostedGrows
  <2>2. CASE \E c \in Cases : RecordedWrite(c)
    BY <2>1, <2>2, RecordedWriteKeeps
  <2>3. CASE UNCHANGED <<row, audit>>
    BY <2>3
  <2>4. QED
    BY <2>2, <2>3, StepIsRecorded DEF HInv, IInv
<1>2. QED
  BY InitHInv, NextHInv, <1>1, PTL DEF Spec, OverrideEndsOnlyByRelease

-----------------------------------------------------------------------------
(* Triage undone.  A closed case holds the severity it was settled at, so a *)
(* report that outranks its severity outranks the judgement.                *)

Undone(c) == \/ Closed(c) /\ ~Closed(c)'
             \/ row[c].status = "in_progress" /\ row'[c].status = "new"

Licensed(c) == \/ audit'[c] = "status_changed"
               \/ /\ row[c].status # "in_progress"
                  /\ Escalates(row'[c].scanned, judged[c])

LEMMA IngestUndoesByEscalation ==
  ASSUME IInv, NEW r \in Requests,
         \/ IngestCreate(r) \/ IngestReopen(r) \/ IngestReopenProposing(r)
         \/ IngestPropose(r) \/ IngestRefresh(r) \/ IngestOverwrite(r),
         NEW d \in Cases \ raced', Undone(d)
  PROVE  Licensed(d)
<1> DEFINE c == request[r].case
           s == request[r].report
           b == request[r].branch
<1> USE SeverityAssumption
<1>1. request[r] \in IngestRequest /\ Ingesting(r, b)
  BY DEF IInv, TInv, TypeOK, Request, Idle, ResolveRequest, WhitelistRequest,
     Ingesting, IngestCreate, IngestReopen, IngestReopenProposing,
     IngestPropose, IngestRefresh, IngestOverwrite
<1>2. c \in Cases /\ s \in AnySeverity /\ row[c] \in Row /\ row \in [Cases -> Row]
  BY <1>1 DEF IngestRequest, IInv, TInv, TypeOK
<1>3. d = c
  BY <1>2 DEF Undone, Closed, Write, IngestCreate, IngestReopen,
     IngestReopenProposing, IngestPropose, IngestRefresh, IngestOverwrite
<1>4. Branch(row[c], s) = b /\ c \notin raced
  BY <1>1, <1>3 DEF Ingesting, Land
<1>5. Closed(c) => row[c].severity = judged[c]
  BY <1>2, <1>4 DEF IInv, Sound, SoundRow, Closed
<1>6. Scanned(r) \in Row /\ Scanned(r).status = row[c].status /\ Scanned(r).scanned = s
  <2>1. Scanned(r) = [row[c] EXCEPT !.scanned = s]
    BY DEF Scanned
  <2>2. QED
    BY <1>2, <2>1 DEF Row
<1>7. CASE IngestCreate(r)
  BY <1>3, <1>7 DEF IngestCreate, Exists, Undone, Closed, ClosedStatuses
<1>8. CASE IngestReopen(r) \/ IngestReopenProposing(r)
  <2>1. Closed(c) /\ Escalates(s, row[c].severity)
    BY <1>2, <1>4, <1>8, BranchFacts DEF IngestReopen, IngestReopenProposing,
       Ingesting, Closed
  <2>2. row'[c].scanned = s
    <3>1. \/ row'[c] = [Scanned(r) EXCEPT !.status = "new", !.severity = s]
          \/ row'[c] = [Scanned(r) EXCEPT !.status = "new", !.pending = s]
      BY <1>2, <1>8 DEF IngestReopen, IngestReopenProposing, Write
    <3>2. QED
      BY <1>6, <3>1 DEF Row
  <2>3. QED
    BY <1>3, <1>5, <2>1, <2>2 DEF Licensed, Closed, ClosedStatuses
<1>9. CASE IngestPropose(r) \/ IngestRefresh(r) \/ IngestOverwrite(r)
  <2>1. row'[c].status = row[c].status
    <3>1. \/ row'[c] = [Scanned(r) EXCEPT !.pending = s]
          \/ row'[c] = Scanned(r)
          \/ row'[c] = [Scanned(r) EXCEPT !.severity = s]
      BY <1>2, <1>9 DEF IngestPropose, IngestRefresh, IngestOverwrite, Write
    <3>2. QED
      BY <1>6, <3>1 DEF Row
  <2>2. QED
    BY <1>3, <2>1 DEF Undone, Closed
<1>10. QED
  BY <1>7, <1>8, <1>9

LEMMA OthersUndoNothing ==
  ASSUME IInv, [Next]_vars, NEW d \in Cases, Undone(d),
         ~\E r \in Requests :
            \/ IngestCreate(r) \/ IngestReopen(r) \/ IngestReopenProposing(r)
            \/ IngestPropose(r) \/ IngestRefresh(r) \/ IngestOverwrite(r)
  PROVE  audit'[d] = "status_changed"
<1>0. /\ row \in [Cases -> Row] /\ audit \in [Cases -> AuditActions \cup {Null}]
      /\ row'[d] # row[d]
  BY DEF IInv, TInv, TypeOK, Undone, Closed
<1>1. ASSUME NEW r \in Requests, Ingest(r) \/ Abandon(r)
      PROVE  row' = row
  BY <1>1 DEF Ingest, Abandon, BeginIngest, IngestIgnore
<1>2. ASSUME NEW r \in Requests, Resolve(r)
      PROVE  row'[d].status = row[d].status
  <2>1. CASE \E c \in Cases, approve \in BOOLEAN : BeginResolve(r, c, approve)
    BY <2>1 DEF BeginResolve
  <2>2. CASE request[r].case # d
    BY <1>0, <1>2, <2>1, <2>2 DEF Resolve, ApproveProposal, RejectProposal, Write
  <2>3. CASE request[r].case = d /\ ApproveProposal(r)
    <3>1. row'[d] = [row[d] EXCEPT !.severity = request[r].proposed,
                                   !.locked = TRUE, !.pending = Null]
      BY <1>0, <2>3 DEF ApproveProposal, Write
    <3>2. QED
      BY <1>0, <3>1 DEF Row
  <2>4. CASE request[r].case = d /\ RejectProposal(r)
    <3>1. row'[d] = [row[d] EXCEPT !.pending = Null]
      BY <1>0, <2>4 DEF RejectProposal, Write
    <3>2. QED
      BY <1>0, <3>1 DEF Row
  <2>5. QED
    BY <1>2, <2>1, <2>2, <2>3, <2>4 DEF Resolve
<1>3. ASSUME NEW r \in Requests, Whitelist(r)
      PROVE  row'[d].status \in {row[d].status, "closed_fp"}
  BY <1>0, <1>3 DEF Whitelist, PostWhitelist, CloseWhitelisted, Write, Row
<1>4. ASSUME NEW c \in Cases, NEW status \in ValidStatuses, UpdateStatus(c, status)
      PROVE  audit'[d] = "status_changed"
  BY <1>0, <1>4 DEF UpdateStatus, Write, Audit
<1>5. ASSUME NEW c \in Cases, NEW t \in Chosen,
             UpdateSeverity(c, t)
      PROVE  row'[d].status = row[d].status
  <2>1. CASE c # d
    BY <1>0, <1>5, <2>1 DEF UpdateSeverity, Write
  <2>2. CASE c = d
    <3>1. row'[d] = [row[d] EXCEPT !.severity = t, !.locked = TRUE, !.pending = Null]
      BY <1>0, <1>5, <2>2 DEF UpdateSeverity, Write
    <3>2. QED
      BY <1>0, <3>1 DEF Row
  <2>3. QED
    BY <2>1, <2>2
<1>6. ASSUME NEW c \in Cases, NEW someone \in BOOLEAN, AssignCase(c, someone)
      PROVE  \/ row'[d].status = row[d].status
             \/ row[d].status = "new" /\ row'[d].status = "in_progress"
  BY <1>0, <1>6 DEF AssignCase, Write, Row
<1>7. ASSUME NEW c \in Cases, PostWhitelistUnanswered(c)
      PROVE  row' = row
  BY <1>7 DEF PostWhitelistUnanswered
<1>8. ASSUME NEW c \in Cases, ReleaseSeverity(c)
      PROVE  row'[d].status = row[d].status
  <2>1. row'[d] = row[d] \/ row'[d] = [row[d] EXCEPT !.locked = FALSE, !.pending = Null]
    BY <1>0, <1>8 DEF ReleaseSeverity, Write
  <2>2. QED
    BY <1>0, <2>1 DEF Row
<1>9. CASE UNCHANGED vars
  BY <1>0, <1>9 DEF vars
<1>10. QED
  BY <1>0, <1>1, <1>2, <1>3, <1>4, <1>5, <1>6, <1>7, <1>8, <1>9
     DEF Next, Triage, Undone, Closed, ClosedStatuses

(* On a case that no write has overtaken, triage is undone only by an       *)
(* analyst or by a report that outranks the judgement.                      *)
THEOREM TriageStands == Spec => TriageUndoneOnlyByEscalation
<1> DEFINE Stands ==
      \A c \in Cases \ raced' :
        /\ Closed(c) /\ ~Closed(c)' =>
              \/ audit'[c] = "status_changed"
              \/ Escalates(row'[c].scanned, judged[c])
        /\ row[c].status = "in_progress" /\ row'[c].status = "new" =>
              audit'[c] = "status_changed"
<1>1. IInv /\ [Next]_vars => Stands
  <2> SUFFICES ASSUME IInv, [Next]_vars, NEW c \in Cases \ raced', Undone(c)
               PROVE  Licensed(c)
    BY DEF Undone, Licensed
  <2>1. QED
    BY IngestUndoesByEscalation, OthersUndoNothing DEF Licensed
<1>2. QED
  BY InitIInv, NextIInv, <1>1, PTL DEF Spec, TriageUndoneOnlyByEscalation
=============================================================================
