------------------------------ MODULE Severity ------------------------------
(***************************************************************************)
(* The severity scale of DomainSentry and the two ways the case manager    *)
(* ranks a value on it (services/case_manager.py, SEVERITY_RANK and the    *)
(* two .get() calls of ingest_case).                                       *)
(*                                                                         *)
(* A severity is a string in the code.  Only four strings have a rank; the *)
(* column may also hold NULL or anything else an ingest request carries,   *)
(* because CaseIngest does not validate the field.  All of those are the   *)
(* one value Unrated here: no comparison in the code tells them apart.     *)
(***************************************************************************)
EXTENDS Integers

SeverityRank == [LOW |-> 1, MEDIUM |-> 2, HIGH |-> 3, CRITICAL |-> 4]

Severities == {"LOW", "MEDIUM", "HIGH", "CRITICAL"}
Unrated    == "unrated"
AnySeverity == Severities \cup {Unrated}

(* The rank of what a case records: an unknown one counts as MEDIUM.       *)
RecordedRank(s) == IF s \in Severities THEN SeverityRank[s]
                                       ELSE SeverityRank["MEDIUM"]

(* The rank of what a report carries: an unknown one is below every other. *)
ReportedRank(s) == IF s \in Severities THEN SeverityRank[s] ELSE 0

(* The one comparison ingest_case makes: the report escalates the record.  *)
Escalates(reported, recorded) == ReportedRank(reported) > RecordedRank(recorded)
=============================================================================
