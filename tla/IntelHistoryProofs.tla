------------------------- MODULE IntelHistoryProofs -------------------------
(***************************************************************************)
(* The history of a domain accounts for its snapshot, for every range of   *)
(* values, every set of facets and every sequence of scans and failures.   *)
(***************************************************************************)
EXTENDS IntelHistory, TLAPS

Scan == [at       : {"idle", "diff", "append", "line", "save"},
         reading  : Readings,
         alerts   : SUBSET watched,
         recorded : BOOLEAN]

Typed == /\ watched \subseteq Facets
         /\ there \in BOOLEAN /\ torn \in BOOLEAN
         /\ snapshot \in Readings /\ told \in Readings
         /\ scan \in Scan
         /\ astray \subseteq watched /\ gaps \subseteq watched

(* The alerts of a scan are those of the snapshot it was compared with, as  *)
(* far as they were not lost; once recorded, the history ends with them.    *)
Compared ==
    /\ ~there => scan.alerts = {}
    /\ \A k \in scan.alerts : Alert(k, snapshot[k], scan.reading[k])
    /\ there /\ scan.at # "idle" =>
          \A k \in watched : Alert(k, snapshot[k], scan.reading[k]) =>
              k \in scan.alerts \cup astray
    /\ scan.at = "save" /\ scan.alerts # {} => scan.recorded
    /\ scan.recorded => /\ scan.at = "save"
                        /\ \A k \in scan.alerts : told[k] = scan.reading[k]
    /\ scan.at = "idle" => ~scan.recorded

(* Between recording and saving, only the recorded facets run ahead.        *)
Steady ==
    there => \A k \in watched \ astray :
                (scan.recorded /\ k \in scan.alerts) \/ Accounts(k)

(* A facet outside gaps is not nothing in the snapshot.                     *)
NoGap == there => \A k \in watched \ gaps : snapshot[k] # 0

Inv == Typed /\ Compared /\ Steady /\ NoGap

-----------------------------------------------------------------------------
(* A facet without an alert stays accounted for.                            *)
LEMMA QuietStaysAccounted ==
  ASSUME NEW k \in watched, watched' = watched,
         snapshot[k] \in Value, snapshot'[k] \in Value,
         told[k] \in Value, told'[k] = told[k],
         Accounts(k), ~Alert(k, snapshot[k], snapshot'[k]),
         k \notin gaps => snapshot[k] # 0,
         k \notin gaps' => k \notin gaps /\ snapshot'[k] # 0
  PROVE  Accounts(k)'
<1> DEFINE p == snapshot[k]  c == snapshot'[k]  t == told[k]
<1>0. p \in Nat /\ c \in Nat /\ t \in Nat /\ Top \in Nat /\ Alarming \in Nat
  BY IntelAssumption DEF Value, IntelAssumption
<1>1. k = "records" => c = t
  BY DEF Accounts, Alert
<1>2. k = "activation" => (c > 0 => t > 0)
  BY <1>0 DEF Accounts, Alert
<1>3. k = "count" => c <= t
  BY <1>0 DEF Accounts, Alert
<1>4. k = "hidden" => (c >= Alarming => c <= t)
  BY <1>0 DEF Accounts, Alert, MoreHidden
<1>5. k = "holder" => (k \notin gaps' => c = t)
  BY <1>0 DEF Accounts, Alert
<1>6. k = "privacy" => (c = 0 => t = 0)
  BY <1>0 DEF Accounts, Alert
<1>7. QED
  BY <1>1, <1>2, <1>3, <1>4, <1>5, <1>6 DEF Accounts

(* A facet the history ends with is accounted for.                          *)
LEMMA ToldIsAccounted ==
  ASSUME NEW k \in watched, snapshot[k] \in Value, told[k] = snapshot[k]
  PROVE  Accounts(k)
<1>1. snapshot[k] \in Nat
  BY IntelAssumption DEF Value, IntelAssumption
<1>2. QED
  BY <1>1 DEF Accounts

LEMMA NothingIsAReading == Nothing \in Readings
BY IntelAssumption DEF Nothing, Readings, Value, IntelAssumption

LEMMA NoScanIsAScan ==
  /\ NoScan \in Scan
  /\ NoScan.at = "idle" /\ NoScan.alerts = {} /\ NoScan.recorded = FALSE
BY NothingIsAReading DEF NoScan, Scan

-----------------------------------------------------------------------------
LEMMA InitInv == Init => Inv
<1> SUFFICES ASSUME Init PROVE Inv
  OBVIOUS
<1>1. Typed
  BY NothingIsAReading, NoScanIsAScan DEF Init, Typed
<1>2. Compared /\ Steady /\ NoGap
  BY NoScanIsAScan DEF Init, Compared, Steady, NoGap
<1>3. QED
  BY <1>1, <1>2 DEF Inv

LEMMA GatherKeepsInv ==
  ASSUME Inv, NEW reading \in Readings, Gather(reading)
  PROVE  Inv'
<1> DEFINE q == [NoScan EXCEPT !.at = "diff", !.reading = reading,
                              !.alerts = Alerts(reading)]
<1>1. Alerts(reading) \in SUBSET watched
  BY DEF Alerts
<1>2. /\ q \in Scan /\ q.at = "diff" /\ q.reading = reading
      /\ q.alerts = Alerts(reading) /\ q.recorded = FALSE
  BY <1>1 DEF NoScan, Scan
<1>3. scan' = q /\ UNCHANGED <<watched, there, snapshot, told, torn, astray, gaps>>
  BY DEF Gather
<1> HIDE DEF q
<1>4. Typed'
  BY <1>2, <1>3 DEF Inv, Typed, Scan, Readings
<1>5. Compared'
  BY <1>2, <1>3 DEF Compared, Alerts, Alert, MoreHidden
<1>6. ~scan.recorded
  BY DEF Inv, Compared, Gather
<1>7. Steady' /\ NoGap'
  BY <1>3, <1>6 DEF Inv, Steady, NoGap, Accounts
<1>8. QED
  BY <1>4, <1>5, <1>7 DEF Inv

(* The steps between the comparison and the append only move on, or drop    *)
(* alerts that are then astray.                                             *)
LEMMA MoveKeepsInv ==
  ASSUME Inv, scan' \in Scan,
         UNCHANGED <<watched, there, snapshot, told, gaps>>,
         torn' \in BOOLEAN, astray' \subseteq watched,
         ~scan.recorded, scan'.recorded = FALSE,
         scan'.reading = scan.reading, scan.at # "idle", scan'.at # "idle",
         scan'.alerts \subseteq scan.alerts,
         astray \subseteq astray', scan.alerts \subseteq scan'.alerts \cup astray',
         scan'.at = "save" => scan'.alerts = {}
  PROVE  Inv'
<1>1. Typed'
  BY DEF Inv, Typed, Scan, Readings
<1>2. Compared'
  BY DEF Inv, Compared, Alert, MoreHidden
<1>3. Steady' /\ NoGap'
  BY DEF Inv, Steady, NoGap, Accounts
<1>4. QED
  BY <1>1, <1>2, <1>3 DEF Inv

(* The steps that end a scan without saving it.                             *)
LEMMA DropKeepsInv ==
  ASSUME Inv, scan' = NoScan,
         UNCHANGED <<watched, there, snapshot, told, gaps>>,
         torn' \in BOOLEAN,
         astray' = IF scan.recorded THEN astray \cup scan.alerts ELSE astray
  PROVE  Inv'
<1>1. Typed'
  BY NoScanIsAScan DEF Inv, Typed, Scan, Readings
<1>2. Compared'
  BY NoScanIsAScan DEF Inv, Compared
<1>3. Steady' /\ NoGap'
  BY NoScanIsAScan DEF Inv, Steady, NoGap, Accounts
<1>4. QED
  BY <1>1, <1>2, <1>3 DEF Inv

LEMMA RecordKeepsInv ==
  ASSUME Inv, AppendRest
  PROVE  Inv'
<1> DEFINE q == [scan EXCEPT !.at = "save", !.recorded = TRUE]
<1>1. scan \in Scan
  BY DEF Inv, Typed
<1>2. /\ q \in Scan /\ q.at = "save" /\ q.reading = scan.reading
      /\ q.alerts = scan.alerts /\ q.recorded = TRUE
  BY <1>1 DEF Scan
<1>3. scan' = q /\ UNCHANGED <<watched, there, snapshot, torn, astray, gaps>>
  BY DEF AppendRest
<1> HIDE DEF q
<1>4. scan.reading \in Readings /\ told \in Readings
  BY <1>1 DEF Inv, Typed, Scan
<1>5. /\ told' \in Readings
      /\ \A k \in watched : told'[k] = IF k \in scan.alerts THEN scan.reading[k]
                                       ELSE told[k]
  BY <1>4 DEF AppendRest, Readings
<1>6. Typed'
  BY <1>2, <1>3, <1>5 DEF Inv, Typed, Scan, Readings
<1>7. scan.alerts \subseteq watched
  BY <1>1 DEF Scan
<1>8. scan.at = "line" /\ ~scan.recorded
  BY DEF AppendRest, Inv, Compared
<1>9. Compared'
  BY <1>2, <1>3, <1>5, <1>7, <1>8 DEF Inv, Compared, Alert, MoreHidden
<1>10. Steady'
  BY <1>2, <1>3, <1>5, <1>8 DEF Inv, Steady, Accounts
<1>11. NoGap'
  BY <1>3 DEF Inv, NoGap
<1>12. QED
  BY <1>6, <1>9, <1>10, <1>11 DEF Inv

LEMMA SaveKeepsInv ==
  ASSUME Inv, Save
  PROVE  Inv'
<1>1. /\ scan' = NoScan /\ there' = TRUE /\ snapshot' = scan.reading
      /\ told' = IF there THEN told ELSE scan.reading
      /\ astray' = astray \ scan.alerts
      /\ gaps' = (gaps \ scan.alerts) \cup {k \in watched : scan.reading[k] = 0}
      /\ UNCHANGED <<watched, torn>>
  BY DEF Save
<1>2. scan \in Scan /\ scan.reading \in Readings /\ scan.alerts \subseteq watched
  BY DEF Inv, Typed, Scan
<1>3. told \in Readings /\ snapshot \in Readings
  BY DEF Inv, Typed
<1>4. Typed'
  <2>1. /\ told' \in Readings /\ snapshot' \in Readings
        /\ astray' \subseteq watched /\ gaps' \subseteq watched
    BY <1>1, <1>2, <1>3 DEF Inv, Typed
  <2>2. QED
    BY <1>1, <2>1, NoScanIsAScan DEF Inv, Typed, Scan, Readings
<1>5. Compared'
  BY <1>1, NoScanIsAScan DEF Compared
<1>6. NoGap'
  BY <1>1 DEF NoGap
<1>7. ASSUME NEW k \in watched, k \notin astray' PROVE Accounts(k)'
  <2>1. snapshot'[k] \in Value /\ snapshot[k] \in Value /\ told[k] \in Value
    BY <1>1, <1>2, <1>3 DEF Readings
  <2>2. CASE told'[k] = snapshot'[k]
    <3>1. snapshot'[k] \in Nat
      BY <2>1, IntelAssumption DEF Value, IntelAssumption
    <3>2. QED
      BY <2>2, <3>1 DEF Accounts
  <2>3. CASE told'[k] # snapshot'[k]
    <3>1. there /\ told' = told
      BY <1>1, <2>3
    <3>2. k \notin scan.alerts
      BY <1>1, <2>3, <3>1 DEF Inv, Compared, Save
    <3>3. k \notin astray
      BY <1>1, <1>7, <3>2
    <3>4. Accounts(k)
      BY <3>1, <3>2, <3>3 DEF Inv, Steady
    <3>5. ~Alert(k, snapshot[k], snapshot'[k])
      BY <1>1, <3>1, <3>2, <3>3 DEF Inv, Compared, Save
    <3>6. k \notin gaps => snapshot[k] # 0
      BY <3>1 DEF Inv, NoGap
    <3>7. k \notin gaps' => k \notin gaps /\ snapshot'[k] # 0
      BY <1>1, <3>2
    <3>8. told'[k] = told[k] /\ watched' = watched
      BY <1>1, <3>1
    <3>9. QED
      BY <2>1, <3>4, <3>5, <3>6, <3>7, <3>8, QuietStaysAccounted
  <2>4. QED
    BY <2>2, <2>3
<1>8. Steady'
  BY <1>1, <1>7 DEF Steady
<1>9. QED
  BY <1>4, <1>5, <1>6, <1>8 DEF Inv

LEMMA StepKeepsInv == Inv /\ [Next]_vars => Inv'
<1> SUFFICES ASSUME Inv, [Next]_vars PROVE Inv'
  OBVIOUS
<1>0. scan \in Scan /\ torn \in BOOLEAN
  BY DEF Inv, Typed
<1>1. ASSUME NEW reading \in Readings, Gather(reading) PROVE Inv'
  BY <1>1, GatherKeepsInv
<1>2. CASE Diff
  <2> DEFINE q == [scan EXCEPT !.at = IF scan.alerts = {} THEN "save" ELSE "append"]
  <2>1. /\ q \in Scan /\ q.at = (IF scan.alerts = {} THEN "save" ELSE "append")
        /\ q.reading = scan.reading /\ q.alerts = scan.alerts
        /\ q.recorded = scan.recorded
    BY <1>0 DEF Scan
  <2>2. scan' = q
    BY <1>2 DEF Diff
  <2> HIDE DEF q
  <2>3. scan.recorded = FALSE /\ scan.at = "diff"
    BY <1>0, <1>2 DEF Diff, Inv, Compared, Scan
  <2>4. QED
    BY <1>0, <1>2, <2>1, <2>2, <2>3, MoveKeepsInv DEF Diff, Inv, Typed
<1>3. CASE DiffLost
  <2> DEFINE q == [scan EXCEPT !.at = "save", !.alerts = {}]
  <2>1. /\ q \in Scan /\ q.at = "save" /\ q.reading = scan.reading
        /\ q.alerts = {} /\ q.recorded = scan.recorded
    BY <1>0 DEF Scan
  <2>2. scan' = q
    BY <1>3 DEF DiffLost
  <2> HIDE DEF q
  <2>3. scan.recorded = FALSE /\ scan.at # "idle"
    BY <1>0, <1>3 DEF DiffLost, Inv, Compared, Scan
  <2>4. scan.alerts \subseteq watched /\ astray' = astray \cup scan.alerts
    BY <1>0, <1>3 DEF DiffLost, Scan
  <2>5. QED
    BY <1>0, <1>3, <2>1, <2>2, <2>3, <2>4, MoveKeepsInv DEF DiffLost, Inv, Typed
<1>4. CASE AppendPart
  <2> DEFINE q == [scan EXCEPT !.at = "line"]
  <2>1. /\ q \in Scan /\ q.at = "line" /\ q.reading = scan.reading
        /\ q.alerts = scan.alerts /\ q.recorded = scan.recorded
    BY <1>0 DEF Scan
  <2>2. scan' = q
    BY <1>4 DEF AppendPart
  <2> HIDE DEF q
  <2>3. scan.recorded = FALSE /\ scan.at # "idle"
    BY <1>0, <1>4 DEF AppendPart, Inv, Compared, Scan
  <2>4. QED
    BY <1>0, <1>4, <2>1, <2>2, <2>3, MoveKeepsInv DEF AppendPart, Inv, Typed
<1>5. CASE AppendCut
  <2> DEFINE q == [scan EXCEPT !.at = "save", !.alerts = {}]
  <2>1. /\ q \in Scan /\ q.at = "save" /\ q.reading = scan.reading
        /\ q.alerts = {} /\ q.recorded = scan.recorded
    BY <1>0 DEF Scan
  <2>2. scan' = q
    BY <1>5 DEF AppendCut
  <2> HIDE DEF q
  <2>3. scan.recorded = FALSE /\ scan.at # "idle"
    BY <1>0, <1>5 DEF AppendCut, Inv, Compared, Scan
  <2>4. scan.alerts \subseteq watched /\ astray' = astray \cup scan.alerts
        /\ torn' = TRUE
    BY <1>0, <1>5 DEF AppendCut, Scan
  <2>5. QED
    BY <1>0, <1>5, <2>1, <2>2, <2>3, <2>4, MoveKeepsInv DEF AppendCut, Inv, Typed
<1>6. CASE SaveFails
  <2>1. astray' = IF scan.recorded THEN astray \cup scan.alerts ELSE astray
    BY <1>6 DEF SaveFails, Inv, Compared
  <2>2. QED
    BY <1>0, <1>6, <2>1, DropKeepsInv DEF SaveFails
<1>7. CASE Crash
  <2>1. torn' \in BOOLEAN
    BY <1>0, <1>7 DEF Crash
  <2>2. QED
    BY <1>7, <2>1, DropKeepsInv DEF Crash
<1>8. CASE UNCHANGED vars
  BY <1>8 DEF vars, Inv, Typed, Scan, Readings, Compared, Steady, NoGap,
              Accounts, Alert, MoreHidden
<1>9. QED
  BY <1>1, <1>2, <1>3, <1>4, <1>5, <1>6, <1>7, <1>8, RecordKeepsInv, SaveKeepsInv
     DEF Next

LEMMA Invariance == Spec => []Inv
BY InitInv, StepKeepsInv, PTL DEF Spec

(* The state keeps its type.                                                *)
THEOREM TypeCorrect == Spec => []TypeOK
<1>1. Inv => TypeOK
  BY DEF Inv, Typed, TypeOK, Scan
<1>2. QED
  BY <1>1, Invariance, PTL

(* Whatever the values and however many scans, failed steps and crashes:    *)
(* the history accounts for the snapshot.                                   *)
THEOREM HistoryTellsAll == Spec => []HistoryAccounts
<1>1. Inv => HistoryAccounts
  BY DEF Inv, Compared, Steady, HistoryAccounts
<1>2. QED
  BY <1>1, Invariance, PTL

(* The snapshot is only replaced once its alerts are told or lost.          *)
THEOREM SaveComesLast == Spec => SavedAfterTold
<1> DEFINE Goes == there /\ snapshot' # snapshot =>
          \A k \in watched : Alert(k, snapshot[k], snapshot'[k]) =>
              k \in astray' \/ told'[k] = snapshot'[k]
<1>1. Inv /\ [Next]_vars => [Goes]_vars
  <2> SUFFICES ASSUME Inv, [Next]_vars, there, snapshot' # snapshot,
                      NEW k \in watched, Alert(k, snapshot[k], snapshot'[k])
               PROVE  k \in astray' \/ told'[k] = snapshot'[k]
    OBVIOUS
  <2>1. Save
    BY DEF Next, Gather, Diff, DiffLost, AppendPart, AppendRest, AppendCut,
           SaveFails, Crash, vars
  <2>2. k \in scan.alerts \cup astray /\ snapshot' = scan.reading /\ told' = told
    BY <2>1 DEF Save, Inv, Compared
  <2>3. CASE k \in scan.alerts
    BY <2>1, <2>2, <2>3 DEF Save, Inv, Compared
  <2>4. CASE k \notin scan.alerts
    BY <2>1, <2>2, <2>4 DEF Save
  <2>5. QED
    BY <2>3, <2>4
<1>2. QED
  BY <1>1, Invariance, PTL DEF Spec, SavedAfterTold

(* The history never repeats itself about the records.                      *)
THEOREM NothingTwice == Spec => NoAlertTwice
<1> DEFINE Goes == scan.at = "line" /\ scan'.recorded =>
          ("records" \in scan.alerts \ astray =>
               scan.reading["records"] # told["records"])
<1>1. Inv /\ [Next]_vars => [Goes]_vars
  <2> SUFFICES ASSUME Inv, scan.at = "line", "records" \in scan.alerts \ astray
               PROVE  scan.reading["records"] # told["records"]
    OBVIOUS
  <2>1. there /\ ~scan.recorded /\ "records" \in watched
    BY DEF Inv, Compared, Typed, Scan
  <2>2. Alert("records", snapshot["records"], scan.reading["records"])
    BY DEF Inv, Compared
  <2>3. scan.reading["records"] # snapshot["records"]
    BY <2>2 DEF Alert
  <2>4. Accounts("records")
    BY <2>1 DEF Inv, Steady
  <2>5. QED
    BY <2>3, <2>4 DEF Accounts
<1>2. QED
  BY <1>1, Invariance, PTL DEF Spec, NoAlertTwice
=============================================================================
