------------------------------ MODULE ScanFlow ------------------------------
(***************************************************************************)
(* What a run does with the domains of a client: from the feed, past the   *)
(* whitelist, through the classifier and dnstwist, to the case store       *)
(* (_run_pipeline and _ingest_cases of services/orchestrator.py), while    *)
(* analysts work on the cases and on the whitelist.                        *)
(*                                                                         *)
(* The case store is the promise of CaseTriage, which CaseManager          *)
(* implements; the whitelist is that of Whitelist, which WhitelistStore    *)
(* implements, and the feed is whatever a run reads.  One run is under    *)
(* way at a time (PipelineLock says when that is so).                      *)
(***************************************************************************)
EXTENDS Severity, Sequences

CONSTANTS Domains,
          Targets,    \* the domains a feed holds as targets; the others are
                      \* on its watchlist
          Variants,   \* what dnstwist finds for the client's own domain
          Verdicts,   \* the severities of the classifier's categories
          Chosen      \* the severities an analyst may choose

ASSUME ScanFlowAssumption == /\ Targets \subseteq Domains
                             /\ Variants \subseteq Domains
                             /\ Verdicts \subseteq Severities
                             /\ Chosen \subseteq Severities

VARIABLES whitelist,  \* the client's whitelist
          docket,     \* the cases, as CaseTriage promises them
          closing,    \* domains whitelist_case has posted, but whose case it
                      \* has not closed yet
          run,        \* the run
          verdict,    \* history: the severity of this run's last event on a
                      \* domain, unless the event was lost or an analyst's
                      \* decision on the case came after it
          late        \* history: domains whitelisted since this run read the
                      \* whitelist

vars == <<whitelist, docket, closing, run, verdict, late>>

Triage == INSTANCE CaseTriage WITH Cases <- Domains,
                                   Reported <- Verdicts \cup {"MEDIUM"},
                                   lost <- {}

NoVerdict  == "none"
NoVerdicts == [d \in Domains |-> NoVerdict]

Event == [domain : Domains, severity : Severities, source : {"check", "twist"}]

(* `todo' are the domains or variants ahead, `twist' that dnstwist is to be *)
(* asked, `known' the whitelist as read, `blind' that it could not be read. *)
Run == [at : {"idle", "feed", "scan", "twist", "ingest"}, todo : SUBSET Domains,
        twist : BOOLEAN, known : SUBSET Domains, blind : BOOLEAN,
        events : Seq(Event)]

NoRun == [at |-> "idle", todo |-> {}, twist |-> FALSE, known |-> {},
          blind |-> FALSE, events |-> <<>>]

Init == /\ whitelist = {}
        /\ docket = [d \in Domains |-> Triage!Absent]
        /\ closing = {}
        /\ run = NoRun
        /\ verdict = NoVerdicts
        /\ late = {}

-----------------------------------------------------------------------------
(* The run.  Whatever is in the feed, and in the scope that was asked for,  *)
(* is ahead of it; a run that cannot read the feed, or finds nothing there, *)
(* ends at once.  dnstwist is asked only if there is a target.              *)
BeginRun(scope, twist) ==
    /\ run.at = "idle"
    /\ scope # {}
    /\ run' = [NoRun EXCEPT !.at = "feed", !.todo = scope,
                            !.twist = twist /\ scope \cap Targets # {}]
    /\ verdict' = NoVerdicts
    /\ UNCHANGED <<whitelist, docket, closing, late>>

(* The whitelist is read once; one that cannot be read counts as empty. *)
ReadWhitelist(ok) ==
    /\ run.at = "feed"
    /\ run' = [run EXCEPT !.at = "scan", !.blind = ~ok,
                          !.known = IF ok THEN whitelist ELSE {}]
    /\ UNCHANGED <<whitelist, docket, closing, verdict, late>>

Skip(d) ==
    /\ run.at = "scan"
    /\ d \in run.todo \cap run.known
    /\ run' = [run EXCEPT !.todo = @ \ {d}]
    /\ UNCHANGED <<whitelist, docket, closing, verdict, late>>

Collected(d, s, source) ==
    /\ run' = [run EXCEPT !.todo = @ \ {d},
                          !.events = Append(@, [domain |-> d, severity |-> s,
                                                source |-> source])]
    /\ verdict' = [verdict EXCEPT ![d] = s]
    /\ UNCHANGED <<whitelist, docket, closing, late>>

CheckAnyway(d, s) ==      \* mutant of Check
    /\ run.at = "scan"
    /\ d \in run.todo
    /\ Collected(d, s, "check")

Check(d, s) ==
    /\ run.at = "scan"
    /\ d \in run.todo \ run.known
    /\ Collected(d, s, "check")

(* Without an answer of the classifier there is no event. *)
CheckUnanswered(d) ==
    /\ run.at = "scan"
    /\ d \in run.todo \ run.known
    /\ run' = [run EXCEPT !.todo = @ \ {d}]
    /\ UNCHANGED <<whitelist, docket, closing, verdict, late>>

(* dnstwist, once for the client's own domain; its answer may fail to come. *)
BeginTwist ==
    /\ run.at = "scan" /\ run.todo = {} /\ run.twist
    /\ \E found \in {{}, Variants} :
          run' = [run EXCEPT !.at = "twist", !.todo = found]
    /\ UNCHANGED <<whitelist, docket, closing, verdict, late>>

(* A variant is not compared with the feed nor with the whitelist.  It      *)
(* needs review (MEDIUM), or what the classifier says if it was asked.      *)
Discover(v, s) ==
    /\ run.at = "twist"
    /\ v \in run.todo
    /\ Collected(v, s, "twist")

(* The events are published, which changes nothing here even when it fails. *)
Publish ==
    /\ run.todo = {}
    /\ run.at = "twist" \/ (run.at = "scan" /\ ~run.twist)
    /\ run' = [run EXCEPT !.at = "ingest", !.known = {}]
    /\ UNCHANGED <<whitelist, docket, closing, verdict, late>>

(* ingest_case finds nothing to change: the report does not outrank a       *)
(* closed case, or a manual severity.                                       *)
Ignored(d, s) ==
    /\ Triage!On(d)
    /\ ~Escalates(s, docket[d].severity)
    /\ docket[d].state = "closed" \/ docket[d].owner = "analyst"
    /\ UNCHANGED docket

Reported(d, s) == Triage!Open(d, s) \/ Triage!Rate(d, s) \/ Triage!Propose(d, s)
                  \/ Ignored(d, s)

IngestLast ==      \* mutant of Ingest
    /\ run.at = "ingest"
    /\ run.events # <<>>
    /\ LET e == run.events[Len(run.events)] IN Reported(e.domain, e.severity)
    /\ run' = [run EXCEPT !.events = SubSeq(@, 1, Len(@) - 1)]
    /\ UNCHANGED <<whitelist, closing, verdict, late>>

Ingest ==
    /\ run.at = "ingest"
    /\ run.events # <<>>
    /\ LET e == Head(run.events) IN Reported(e.domain, e.severity)
    /\ run' = [run EXCEPT !.events = Tail(@)]
    /\ UNCHANGED <<whitelist, closing, verdict, late>>

(* One event that cannot be ingested is skipped; a token that is refused    *)
(* ends the ingestion.                                                      *)
IngestFails ==
    /\ run.at = "ingest"
    /\ run.events # <<>>
    /\ \E rest \in {Tail(run.events), <<>>} : run' = [run EXCEPT !.events = rest]
    /\ verdict' = NoVerdicts
    /\ UNCHANGED <<whitelist, docket, closing, late>>

EndRun ==
    /\ run.at = "ingest"
    /\ run.events = <<>>
    /\ run' = NoRun
    /\ late' = {}
    /\ UNCHANGED <<whitelist, docket, closing, verdict>>

(* The events are in memory only: an error outside the inner handlers, or   *)
(* the death of the process, loses them all.                                *)
Die ==
    /\ run.at # "idle"
    /\ run' = NoRun
    /\ verdict' = NoVerdicts
    /\ late' = {}
    /\ UNCHANGED <<whitelist, docket, closing>>

-----------------------------------------------------------------------------
(* The people. *)

Listed(d) ==
    /\ whitelist' = whitelist \cup {d}
    /\ late' = IF run.at \in {"idle", "feed"} THEN late ELSE late \cup {d}

Judged(d) == verdict' = [verdict EXCEPT ![d] = NoVerdict]

(* The feed-manager's own whitelist handlers. *)
AddWhitelist(d) ==
    /\ Listed(d)
    /\ UNCHANGED <<docket, closing, run, verdict>>

RemoveWhitelist(d) ==
    /\ d \in whitelist
    /\ whitelist' = whitelist \ {d}
    /\ UNCHANGED <<docket, closing, run, verdict, late>>

(* whitelist_case: the domain is listed, then the case is closed, unless    *)
(* the handler ends in between.                                             *)
PostWhitelist(d) ==
    /\ Triage!On(d)
    /\ Listed(d)
    /\ closing' \in {closing, closing \cup {d}}
    /\ UNCHANGED <<docket, run, verdict>>

CloseWhitelisted(d) ==
    /\ d \in closing
    /\ Triage!File(d, "closed")
    /\ closing' = closing \ {d}
    /\ Judged(d)
    /\ UNCHANGED <<whitelist, run, late>>

(* The analysts' other decisions on a case. *)
Judge(d) ==
    /\ \/ \E state \in {"open", "closed"} : Triage!File(d, state)
       \/ \E s \in Chosen : Triage!Decide(d, s)
       \/ Triage!Release(d) \/ Triage!Accept(d) \/ Triage!Decline(d)
    /\ Judged(d)
    /\ UNCHANGED <<whitelist, closing, run, late>>

-----------------------------------------------------------------------------
Scan == \/ \E scope \in SUBSET Domains, twist \in BOOLEAN : BeginRun(scope, twist)
        \/ \E ok \in BOOLEAN : ReadWhitelist(ok)
        \/ \E d \in Domains : Skip(d) \/ CheckUnanswered(d)
        \/ \E d \in Domains, s \in Verdicts : Check(d, s)
        \/ BeginTwist
        \/ \E v \in Domains, s \in Verdicts \cup {"MEDIUM"} : Discover(v, s)
        \/ Publish \/ Ingest \/ IngestFails \/ EndRun \/ Die

People == \E d \in Domains : \/ AddWhitelist(d) \/ RemoveWhitelist(d)
                             \/ PostWhitelist(d) \/ CloseWhitelisted(d) \/ Judge(d)

Next == Scan \/ People

Spec == Init /\ [][Next]_vars

-----------------------------------------------------------------------------
(* The type of the state. *)
TypeOK == /\ whitelist \subseteq Domains
          /\ docket \in [Domains -> Triage!Entry]
          /\ closing \subseteq Domains
          /\ run \in Run
          /\ verdict \in [Domains -> Severities \cup {NoVerdict}]
          /\ late \subseteq Domains

(* A run reports a domain that is on the whitelist only if it was put there *)
(* after the run had read the list, if the list could not be read, or as a  *)
(* dnstwist variant: no other way leads from a whitelisted domain to an     *)
(* event, however run and whitelist interleave.                             *)
WhitelistRespected ==
    \A i \in 1 .. Len(run.events) :
        LET e == run.events[i]
        IN e.source = "check" /\ e.domain \in whitelist =>
               run.blind \/ e.domain \in late

(* The case of a domain says what the run's last event on it said: there is *)
(* a case, at the severity of that event if it is open and nobody's manual  *)
(* rating, and not outranked by it if it is closed.                         *)
Reflected(d) ==
    /\ Triage!On(d)
    /\ docket[d].state = "open" /\ docket[d].owner = "classifier" =>
           docket[d].severity = verdict[d]
    /\ docket[d].state = "closed" => ~Escalates(verdict[d], docket[d].severity)

(* When a run has ended, its last word on each domain is in the case store, *)
(* unless the event was lost or an analyst has decided since.               *)
VerdictsReachCases ==
    run.at = "idle" => \A d \in Domains : verdict[d] # NoVerdict => Reflected(d)
=============================================================================
