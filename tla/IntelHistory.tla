---------------------------- MODULE IntelHistory ----------------------------
(***************************************************************************)
(* How the intelligence about a domain is kept (_persist_intel of          *)
(* services/orchestrator.py, baseline_diff of services/classifier.py,      *)
(* shared/intel_store.py): each scan is compared with the snapshot of the  *)
(* one before, the alerts are appended to the history, and the snapshot is *)
(* replaced.  A source that fails reads as nothing, which the comparison   *)
(* cannot tell from a change to nothing.                                   *)
(*                                                                         *)
(* A facet is what one kind of comparison is made about; facets are        *)
(* compared independently, and a value is a number, 0 being nothing.       *)
(***************************************************************************)
EXTENDS Integers, FiniteSets

CONSTANTS Top,          \* the values a facet may have are 0 .. Top
          Alarming,     \* the score from which hidden elements are reported
          MaxWatched    \* bound of the model: facets watched in a behaviour

ASSUME IntelAssumption == /\ Top \in Nat \ {0}
                          /\ Alarming \in 1 .. Top
                          /\ MaxWatched \in Nat

(* "records": A, MX, NS, TXT, SOA and SPF records; "activation": a page     *)
(* that answers, a form for credentials, a DMARC, BIMI or CAA record, a     *)
(* VirusTotal detection; "count": certificates and OTX pulses; "hidden":    *)
(* the score of hidden elements of a page (on a client's own domain, of     *)
(* its first page that alerts); "holder": registrar and expiration;         *)
(* "privacy": WHOIS privacy.                                                *)
Facets == {"records", "activation", "count", "hidden", "holder", "privacy"}
Value  == 0 .. Top

VARIABLES watched,      \* the facets of this domain, fixed
          there,        \* whether there is a snapshot
          snapshot,     \* its values
          scan,         \* the scan that is being stored
          told,         \* told[k]: the value the history ends with, the first
                        \* snapshot being its beginning
          torn,         \* a line of the history was cut short: load_history
                        \* then returns nothing
          astray,       \* history: facets on which an alert was lost, or was
                        \* recorded without its snapshot, and none recorded
                        \* in order since
          gaps          \* history: facets saved as nothing since their last
                        \* alert

vars == <<watched, there, snapshot, scan, told, torn, astray, gaps>>

Readings == [watched -> Value]

Nothing == [k \in watched |-> 0]
NoScan  == [at |-> "idle", reading |-> Nothing, alerts |-> {}, recorded |-> FALSE]

Init == /\ watched \in {w \in SUBSET Facets : Cardinality(w) \in 1 .. MaxWatched}
        /\ there = FALSE
        /\ snapshot = Nothing
        /\ scan = NoScan
        /\ told = Nothing
        /\ torn = FALSE
        /\ astray = {}
        /\ gaps = {}

-----------------------------------------------------------------------------
(* _diff_hidden_elements: a page that hides more than before, and enough. *)
MoreHidden(p, c) == c > p /\ c >= Alarming

AlertAtNewHigh(k, p, c) ==      \* mutant of Alert
    \/ k = "records"    /\ p # c
    \/ k = "activation" /\ p = 0 /\ c > 0
    \/ k = "count"      /\ c > p
    \/ k = "hidden"     /\ c > p /\ p < Alarming /\ c >= Alarming
    \/ k = "holder"     /\ p > 0 /\ c > 0 /\ p # c
    \/ k = "privacy"    /\ p > 0 /\ c = 0

(* baseline_diff: whether a facet that was p and is c gives an alert. *)
Alert(k, p, c) == \/ k = "records"    /\ p # c
                  \/ k = "activation" /\ p = 0 /\ c > 0
                  \/ k = "count"      /\ c > p
                  \/ k = "hidden"     /\ MoreHidden(p, c)
                  \/ k = "holder"     /\ p > 0 /\ c > 0 /\ p # c
                  \/ k = "privacy"    /\ p > 0 /\ c = 0

Alerts(reading) == IF there THEN {k \in watched : Alert(k, snapshot[k], reading[k])}
                   ELSE {}

-----------------------------------------------------------------------------
(* A scan has gathered its readings, and loads the snapshot.  The domain    *)
(* may have changed in any way, and any source may have failed.             *)
Gather(reading) ==
    /\ scan.at = "idle"
    /\ scan' = [NoScan EXCEPT !.at = "diff", !.reading = reading,
                              !.alerts = Alerts(reading)]
    /\ UNCHANGED <<watched, there, snapshot, told, torn, astray, gaps>>

(* Without alerts nothing is appended. *)
Diff ==
    /\ scan.at = "diff"
    /\ scan' = [scan EXCEPT !.at = IF scan.alerts = {} THEN "save" ELSE "append"]
    /\ UNCHANGED <<watched, there, snapshot, told, torn, astray, gaps>>

(* The classifier does not answer, or the line cannot be written (OSError): *)
(* the scan goes on, without its alerts.                                    *)
DiffLost ==
    /\ scan.at \in {"diff", "append"}
    /\ scan.alerts # {}
    /\ scan' = [scan EXCEPT !.at = "save", !.alerts = {}]
    /\ astray' = astray \cup scan.alerts
    /\ UNCHANGED <<watched, there, snapshot, told, torn, gaps>>

(* append_history: the line is written, maybe in parts. *)
AppendPart ==
    /\ scan.at = "append"
    /\ scan' = [scan EXCEPT !.at = "line"]
    /\ UNCHANGED <<watched, there, snapshot, told, torn, astray, gaps>>

AppendRest ==
    /\ scan.at = "line"
    /\ told' = [k \in watched |-> IF k \in scan.alerts THEN scan.reading[k] ELSE told[k]]
    /\ scan' = [scan EXCEPT !.at = "save", !.recorded = TRUE]
    /\ UNCHANGED <<watched, there, snapshot, torn, astray, gaps>>

(* The disk is full: part of the line stays, and the scan goes on. *)
AppendCut ==
    /\ scan.at = "line"
    /\ torn' = TRUE
    /\ scan' = [scan EXCEPT !.at = "save", !.alerts = {}]
    /\ astray' = astray \cup scan.alerts
    /\ UNCHANGED <<watched, there, snapshot, told, gaps>>

SaveFirst ==      \* mutant of Save
    /\ scan.at \in {"diff", "save"}
    /\ snapshot' = scan.reading
    /\ there' = TRUE
    /\ told' = IF there THEN told ELSE scan.reading
    /\ scan' = IF scan.alerts # {} THEN [scan EXCEPT !.at = "append"] ELSE NoScan
    /\ UNCHANGED <<watched, torn, astray, gaps>>

SaveFirstReading ==      \* mutant of Save
    /\ scan.at = "save"
    /\ snapshot' = IF there THEN snapshot ELSE scan.reading
    /\ there' = TRUE
    /\ told' = IF there THEN told ELSE scan.reading
    /\ scan' = NoScan
    /\ astray' = astray \ scan.alerts
    /\ UNCHANGED <<watched, torn, gaps>>

(* save_snapshot, by way of a temporary file and a rename. *)
Save ==
    /\ scan.at = "save"
    /\ snapshot' = scan.reading
    /\ there' = TRUE
    /\ told' = IF there THEN told ELSE scan.reading
    /\ scan' = NoScan
    /\ astray' = astray \ scan.alerts
    /\ gaps' = (gaps \ scan.alerts) \cup {k \in watched : scan.reading[k] = 0}
    /\ UNCHANGED <<watched, torn>>

(* The snapshot cannot be written: the old one stays. *)
SaveFails ==
    /\ scan.at = "save"
    /\ scan' = NoScan
    /\ astray' = astray \cup scan.alerts
    /\ UNCHANGED <<watched, there, snapshot, told, torn, gaps>>

(* The orchestrator is killed while it stores a scan. *)
Crash ==
    /\ scan.at # "idle"
    /\ scan' = NoScan
    /\ torn' = (torn \/ scan.at = "line")
    /\ astray' = IF scan.recorded THEN astray \cup scan.alerts ELSE astray
    /\ UNCHANGED <<watched, there, snapshot, told, gaps>>

-----------------------------------------------------------------------------
Next == \/ \E reading \in Readings : Gather(reading)
        \/ Diff \/ DiffLost \/ AppendPart \/ AppendRest \/ AppendCut
        \/ Save \/ SaveFails \/ Crash

Spec == Init /\ [][Next]_vars

-----------------------------------------------------------------------------
(* The type of the state. *)
TypeOK == /\ watched \subseteq Facets
          /\ there \in BOOLEAN /\ torn \in BOOLEAN
          /\ snapshot \in Readings /\ told \in Readings
          /\ scan.at \in {"idle", "diff", "append", "line", "save"}
          /\ scan.reading \in Readings
          /\ scan.alerts \subseteq watched
          /\ scan.recorded \in BOOLEAN
          /\ astray \subseteq watched /\ gaps \subseteq watched

(* The history accounts for the snapshot, across scans, crashes and failed  *)
(* steps: whatever the snapshot shows of a facet that the comparison        *)
(* reports, a history that can be read has told - unless the alert was      *)
(* lost, or recorded without its snapshot (_persist_intel saves the         *)
(* snapshot also when the diff failed); and unless, for registrar and       *)
(* expiration, a scan without an answer of WHOIS lay in between.            *)
Accounts(k) ==
    /\ k = "records"    => snapshot[k] = told[k]
    /\ k = "activation" => (snapshot[k] > 0 => told[k] > 0)
    /\ k = "count"      => snapshot[k] <= told[k]
    /\ k = "hidden"     => (snapshot[k] >= Alarming => snapshot[k] <= told[k])
    /\ k = "holder"     => (k \notin gaps => snapshot[k] = told[k])
    /\ k = "privacy"    => (snapshot[k] = 0 => told[k] = 0)

HistoryAccounts ==
    there /\ scan.at = "idle" /\ ~torn => \A k \in watched \ astray : Accounts(k)

(* A change is told once: the history never repeats what it last said of a  *)
(* facet's records, unless a scan that recorded it did not get to save its  *)
(* snapshot.                                                                *)
NoAlertTwice ==
    [][scan.at = "line" /\ scan'.recorded =>
          ("records" \in scan.alerts \ astray =>
               scan.reading["records"] # told["records"])]_vars

(* A change is not lost with the death of the orchestrator: a new snapshot  *)
(* replaces the old one only when the alerts it gives are in the history,   *)
(* or were lost to a failed step that let the scan go on.                   *)
SavedAfterTold ==
    [][there /\ snapshot' # snapshot =>
          \A k \in watched : Alert(k, snapshot[k], snapshot'[k]) =>
              k \in astray' \/ told'[k] = snapshot'[k]]_vars
=============================================================================
