----------------------------- MODULE ScanProofs -----------------------------
(***************************************************************************)
(* Proofs about what a run makes of a domain: first the decision list      *)
(* (Classifier), for any ages and any kinds of findings, then the run from *)
(* the feed to the case store (ScanFlow), for any domains, verdicts and    *)
(* ratings, and last what the two have to say about a closed case.         *)
(***************************************************************************)
EXTENDS ScanFlow, Classifier, TLAPS, SequenceTheorems

(* The decision list.  Each action property is a fact about two domains     *)
(* that differ in one respect.                                              *)

LEMMA FirstSeenTyped == FirstSeen => SeenOK
  BY DEF FirstSeen, SeenOK

LEMMA SeenStepTyped == SeenOK /\ [SeenNext]_seen => SeenOK'
<1> SUFFICES ASSUME SeenOK, [SeenNext]_seen PROVE SeenOK'
  OBVIOUS
<1> USE DEF SeenOK, Facts
<1>1. ASSUME NEW kind \in Findings, Hide(kind) \/ Reveal(kind) PROVE SeenOK'
  BY <1>1 DEF Hide, Reveal
<1>2. ASSUME NEW mail \in {"none", "parking", "privacy", "forwarding", "other"},
             seen' = [seen EXCEPT !.mail = mail]
      PROVE  SeenOK'
  BY <1>2
<1>3. ASSUME NEW active \in BOOLEAN, seen' = [seen EXCEPT !.active = active]
      PROVE  SeenOK'
  BY <1>3
<1>4. ASSUME NEW age \in Ages, GrowOlder(age) \/ FindWhois(age) PROVE SeenOK'
  BY <1>4 DEF GrowOlder, FindWhois
<1>5. CASE Renew
  BY <1>5 DEF Renew
<1>6. CASE LoseWhois
  BY <1>6 DEF LoseWhois
<1>7. CASE UNCHANGED seen
  BY <1>7
<1> QED
  BY <1>1, <1>2, <1>3, <1>4, <1>5, <1>6, <1>7 DEF SeenNext, Change

(* The facts about a domain are well typed: no source reports what the      *)
(* rules do not expect.                                                     *)
THEOREM FactsAreTyped == SeenSpec => []SeenOK
  BY FirstSeenTyped, SeenStepTyped, PTL DEF SeenSpec

-----------------------------------------------------------------------------
(* The score. *)

LEMMA PointsGrow ==
    ASSUME NEW f, NEW g, f \subseteq g, NEW kind, NEW weight \in Nat
    PROVE  /\ Points(f, kind, weight) \in 0 .. weight
           /\ Points(g, kind, weight) \in 0 .. weight
           /\ Points(f, kind, weight) <= Points(g, kind, weight)
           /\ kind \in f => Points(f, kind, weight) = weight
  BY DEF Points

(* More hidden elements never lower the risk. *)
LEMMA RiskGrows ==
    ASSUME NEW f, NEW g, f \subseteq g
    PROVE  /\ Risk(f) \in Nat /\ Risk(g) \in Nat
           /\ Risk(f) <= Risk(g)
<1> DEFINE div(h) == IF "form_div" \in h THEN 25 ELSE Points(h, "div", 10)
<1>1. div(f) \in Nat /\ div(g) \in Nat /\ div(f) <= div(g)
  BY PointsGrow
<1> HIDE DEF div
<1>2. /\ ScoreOf(f) \in Nat /\ ScoreOf(g) \in Nat
      /\ ScoreOf(f) <= ScoreOf(g)
  <2> DEFINE P(h, k, w) == Points(h, k, w)
  <2>1. \A h : ScoreOf(h) = P(h, "form", 30) + P(h, "iframe", 25) + P(h, "js", 20)
              + P(h, "redirect", 20) + P(h, "inputs", 15)
              + P(h, "pixels", 10) + P(h, "staged_comment", 15)
              + P(h, "base64", 15) + div(h)
    BY DEF ScoreOf, div
  <2>2. /\ P(f, "form", 30) <= P(g, "form", 30)
        /\ P(f, "iframe", 25) <= P(g, "iframe", 25)
        /\ P(f, "js", 20) <= P(g, "js", 20)
        /\ P(f, "redirect", 20) <= P(g, "redirect", 20)
        /\ P(f, "inputs", 15) <= P(g, "inputs", 15)
        /\ P(f, "pixels", 10) <= P(g, "pixels", 10)
        /\ P(f, "staged_comment", 15) <= P(g, "staged_comment", 15)
        /\ P(f, "base64", 15) <= P(g, "base64", 15)
    BY PointsGrow
  <2>3. \A h \in {f, g} :
        /\ P(h, "form", 30) \in Nat /\ P(h, "iframe", 25) \in Nat
        /\ P(h, "js", 20) \in Nat /\ P(h, "redirect", 20) \in Nat
        /\ P(h, "inputs", 15) \in Nat /\ P(h, "pixels", 10) \in Nat
        /\ P(h, "staged_comment", 15) \in Nat /\ P(h, "base64", 15) \in Nat
    BY PointsGrow
  <2> HIDE DEF P
  <2> QED
    BY <1>1, <2>1, <2>2, <2>3
<1> QED
  BY <1>2 DEF Risk

(* A hidden form alone, or two stronger signs, reach the limit of the rule. *)
LEMMA ArmedScores ==
    ASSUME NEW f,
           \/ "form" \in f
           \/ {"iframe", "form_div"} \subseteq f
           \/ {"js", "redirect"} \subseteq f
    PROVE  Risk(f) >= 30
<1>1. Risk({"form"}) >= 30 /\ Risk({"iframe", "form_div"}) >= 30
      /\ Risk({"js", "redirect"}) >= 30
  BY DEF Risk, ScoreOf, Points
<1>2. \A g \in {{"form"}, {"iframe", "form_div"}, {"js", "redirect"}} :
          g \subseteq f => Risk(f) >= Risk(g) /\ Risk(f) \in Nat /\ Risk(g) \in Nat
  BY RiskGrows
<1>3. CASE "form" \in f
  <2>1. {"form"} \subseteq f
    BY <1>3
  <2> QED
    BY <1>1, <1>2, <2>1
<1>4. CASE {"iframe", "form_div"} \subseteq f
  BY <1>1, <1>2, <1>4
<1>5. CASE {"js", "redirect"} \subseteq f
  BY <1>1, <1>2, <1>5
<1> QED
  BY <1>3, <1>4, <1>5

-----------------------------------------------------------------------------
(* The decision list. *)

LEMMA ArmedRule ==
    ASSUME NEW s, ~Parked(s), ~ForSale(s), Risk(s.found) >= 30
    PROVE  IF Aged(s) THEN Category(s) = "needs_review"
                      ELSE Category(s) = "suspicious"
  BY DEF Category, Suspicious

(* An armed site that is neither parked nor for sale is never cleared by a  *)
(* later rule, whatever its content, certificate, mail or age.              *)
THEOREM ArmedSitesStayInView == SeenSpec => []ArmedIsNotExonerated
<1>1. ArmedIsNotExonerated
  BY ArmedScores, ArmedRule DEF ArmedIsNotExonerated
<1> QED
  BY <1>1, PTL

(* The rank of a category, by rule. *)
LEMMA Ranks ==
    ASSUME NEW s
    PROVE  Rank(s) = IF Category(s) = "suspicious" THEN 3
                     ELSE IF Category(s) = "needs_review" THEN 2 ELSE 1
  BY DEF Rank, SeverityOf, SeverityRank

LEMMA MoreHiddenRanksHigher ==
    ASSUME NEW s \in Facts, NEW kind \in Findings
    PROVE  Rank([s EXCEPT !.found = @ \cup {kind}]) >= Rank(s)
<1> DEFINE t == [s EXCEPT !.found = @ \cup {kind}]
<1>1. t \in Facts /\ s.found \subseteq t.found
  BY DEF Facts
<1>2. /\ Parked(t) <=> Parked(s)
      /\ ForSale(t) <=> ForSale(s)
      /\ Aged(t) <=> Aged(s)
      /\ (t.enterprise \/ Established(t)) <=> (s.enterprise \/ Established(s))
      /\ (MailOnly(t) \/ t.mail \in {"privacy", "forwarding"})
            <=> (MailOnly(s) \/ s.mail \in {"privacy", "forwarding"})
      /\ Reregistered(t) <=> Reregistered(s)
  BY DEF Facts, Parked, ForSale, Aged, Known, Established, Recent, HasMail,
         MailOnly, Reregistered
<1>3. Risk(t.found) >= Risk(s.found) /\ Risk(t.found) \in Nat /\ Risk(s.found) \in Nat
  BY <1>1, RiskGrows
<1> HIDE DEF t
<1>4. Rank(t) >= Rank(s)
  BY <1>2, <1>3, Ranks DEF Category, Suspicious
<1> QED
  BY <1>4 DEF t

(* Hiding more never lowers the rank, whatever rules the two scans end at.  *)
THEOREM HidingIsMonotone == SeenSpec => HidingNeverCalms
<1>1. ASSUME SeenOK, [SeenNext]_seen,
             seen'.found # seen.found, seen.found \subseteq seen'.found
      PROVE  Rank(seen') >= Rank(seen)
  <2>1. PICK kind \in Findings : Hide(kind)
    <3> USE <1>1 DEF SeenOK, Facts
    <3>1. ASSUME NEW kind \in Findings, Reveal(kind) PROVE FALSE
      BY <3>1 DEF Reveal
    <3>2. ASSUME NEW mail, seen' = [seen EXCEPT !.mail = mail] PROVE FALSE
      BY <3>2
    <3>3. ASSUME NEW active, seen' = [seen EXCEPT !.active = active] PROVE FALSE
      BY <3>3
    <3>4. ASSUME NEW age \in Ages, GrowOlder(age) \/ FindWhois(age) PROVE FALSE
      BY <3>4 DEF GrowOlder, FindWhois
    <3>5. ~Renew /\ ~LoseWhois /\ ~UNCHANGED seen
      BY DEF Renew, LoseWhois
    <3> QED
      BY <3>1, <3>2, <3>3, <3>4, <3>5 DEF SeenNext, Change
  <2> QED
    BY <1>1, <2>1, MoreHiddenRanksHigher DEF Hide, SeenOK
<1>2. SeenOK /\ [SeenNext]_seen =>
          [seen'.found # seen.found /\ seen.found \subseteq seen'.found =>
              Rank(seen') >= Rank(seen)]_seen
  BY <1>1
<1> QED
  BY <1>2, FactsAreTyped, PTL DEF SeenSpec, HidingNeverCalms

-----------------------------------------------------------------------------
LEMMA AgesAreNumbers ==
    ASSUME NEW s \in Facts PROVE s.age \in Nat \cup {UnknownAge}
<1>1. s.age \in Ages \cup {UnknownAge}
  BY DEF Facts
<1> QED
  BY <1>1, ClassifierAssumption DEF ClassifierAssumption

(* Two descriptions that agree but for what WHOIS says. *)
SameButWhois(s, t) ==
    /\ t.active = s.active /\ t.longest = s.longest /\ t.found = s.found
    /\ t.nameserver = s.nameserver /\ t.address = s.address
    /\ t.mail = s.mail /\ t.enterprise = s.enterprise

LEMMA SameRules ==
    ASSUME NEW s, NEW t, SameButWhois(s, t)
    PROVE  /\ Parked(t) <=> Parked(s)
           /\ ForSale(t) <=> ForSale(s)
           /\ Risk(t.found) = Risk(s.found)
           /\ (MailOnly(t) \/ t.mail \in {"privacy", "forwarding"})
                 <=> (MailOnly(s) \/ s.mail \in {"privacy", "forwarding"})
           /\ t.enterprise = s.enterprise
           /\ HasMail(t) <=> HasMail(s)
  BY DEF SameButWhois, Parked, ForSale, HasMail, MailOnly

(* A domain that is older: its category can only become more harmless,      *)
(* unless a two-year-old record now counts as changed lately.               *)
LEMMA OlderRanksLower ==
    ASSUME NEW s \in Facts, NEW t \in Facts, SameButWhois(s, t),
           Known(s), t.age > s.age,
           ~(Reregistered(t) /\ ~Reregistered(s))
    PROVE  Rank(t) <= Rank(s)
<1>1. s.age \in Nat /\ t.age \in Nat /\ Known(t)
  BY AgesAreNumbers DEF Known, UnknownAge
<1>2. /\ Aged(s) => Aged(t)
      /\ Recent(t) => Recent(s)
  BY <1>1 DEF Aged, Recent, Known, AgeThirdParty
<1>3. (s.enterprise \/ Established(s)) => (t.enterprise \/ Established(t))
  BY <1>2, SameRules DEF Established, SameButWhois
<1>4. Risk(s.found) \in Nat
  BY RiskGrows
<1> QED
  BY <1>2, <1>3, <1>4, SameRules, Ranks DEF Category, Suspicious

(* A domain whose age is no longer known. *)
LEMMA SilenceRanksHigher ==
    ASSUME NEW s \in Facts, NEW t \in Facts, SameButWhois(s, t),
           Known(s), ~Known(t),
           ~(Recent(s) /\ HasMail(s) /\ s.active /\ s.longest = "substantial")
    PROVE  Rank(t) >= Rank(s)
<1>1. ~Aged(t) /\ ~Recent(t) /\ ~Reregistered(t)
  BY DEF Aged, Recent, Reregistered
<1>2. (t.enterprise \/ Established(t)) <=> (s.enterprise \/ Established(s))
  BY <1>1, SameRules DEF Established, SameButWhois
<1>3. Risk(s.found) \in Nat
  BY RiskGrows
<1> QED
  BY <1>1, <1>2, <1>3, SameRules, Ranks DEF Category, Suspicious

(* Only what WHOIS says changes the age. *)
LEMMA AgeSteps ==
    ASSUME SeenOK, [SeenNext]_seen, Known(seen), seen'.age # seen.age
    PROVE  seen' \in Facts /\ SameButWhois(seen, seen')
<1>0. SeenOK'
  BY SeenStepTyped
<1> USE DEF SeenOK, Facts
<1>1. ASSUME NEW kind \in Findings, Hide(kind) \/ Reveal(kind) PROVE FALSE
  BY <1>1 DEF Hide, Reveal
<1>2. ASSUME NEW mail, seen' = [seen EXCEPT !.mail = mail] PROVE FALSE
  BY <1>2
<1>3. ASSUME NEW active, seen' = [seen EXCEPT !.active = active] PROVE FALSE
  BY <1>3
<1>4. ASSUME NEW age \in Ages, GrowOlder(age) \/ FindWhois(age)
      PROVE  SameButWhois(seen, seen')
  BY <1>4 DEF GrowOlder, FindWhois, SameButWhois
<1>5. CASE Renew
  BY <1>5 DEF Renew
<1>6. CASE LoseWhois
  BY <1>6 DEF LoseWhois, SameButWhois
<1>7. CASE UNCHANGED seen
  BY <1>7
<1> QED
  BY <1>0, <1>1, <1>2, <1>3, <1>4, <1>5, <1>6, <1>7 DEF SeenNext, Change

(* Growing older never raises the rank, at whatever limit of age - the one  *)
(* exception is the rule for records that changed lately.                   *)
THEOREM AgeingIsMonotone == SeenSpec => AgeingNeverAlarms
<1>1. ASSUME SeenOK, [SeenNext]_seen, Known(seen), seen'.age > seen.age
      PROVE  Rank(seen') <= Rank(seen) \/ (Reregistered(seen') /\ ~Reregistered(seen))
  <2>1. seen.age \in Int
    BY <1>1, AgesAreNumbers DEF SeenOK, UnknownAge
  <2>2. seen'.age # seen.age
    BY <1>1, <2>1
  <2> QED
    BY <1>1, <2>2, AgeSteps, OlderRanksLower DEF SeenOK
<1>2. SeenOK /\ [SeenNext]_seen =>
          [Known(seen) /\ seen'.age > seen.age =>
              Rank(seen') <= Rank(seen)
              \/ (Reregistered(seen') /\ ~Reregistered(seen))]_seen
  BY <1>1
<1> QED
  BY <1>2, FactsAreTyped, PTL DEF SeenSpec, AgeingNeverAlarms

(* When WHOIS falls silent the rank stays or rises, but for one profile.    *)
THEOREM SilenceCalmsFrontsOnly == SeenSpec => SilentWhoisCalmsOnlyFronts
<1>1. ASSUME SeenOK, [SeenNext]_seen, Known(seen), ~Known(seen')
      PROVE  \/ Rank(seen') >= Rank(seen)
             \/ /\ Recent(seen) /\ HasMail(seen)
                /\ seen.active /\ seen.longest = "substantial"
  <2>1. seen'.age # seen.age
    BY <1>1 DEF Known
  <2> QED
    BY <1>1, <2>1, AgeSteps, SilenceRanksHigher DEF SeenOK
<1>2. SeenOK /\ [SeenNext]_seen =>
          [Known(seen) /\ ~Known(seen') =>
              \/ Rank(seen') >= Rank(seen)
              \/ /\ Recent(seen) /\ HasMail(seen)
                 /\ seen.active /\ seen.longest = "substantial"]_seen
  BY <1>1
<1> QED
  BY <1>2, FactsAreTyped, PTL DEF SeenSpec, SilentWhoisCalmsOnlyFronts

-----------------------------------------------------------------------------
(* The run.  Its type first: what it does to the docket is an entry of one  *)
(* domain, and what it collects are events.                                 *)

LEMMA RatedEntries ==
    /\ Severities \subseteq Triage!AnySeverity
    /\ Triage!Severities = Severities
    /\ Triage!Unrated \in Triage!AnySeverity
    /\ Triage!NoProposal \in Triage!Severities \cup {Triage!NoProposal}
    /\ Triage!Severities \subseteq Triage!AnySeverity
  BY DEF Triage!AnySeverity, Triage!Severities, Severities

LEMMA EntriesTyped ==
    ASSUME TypeOK, NEW d \in Domains, NEW s \in Severities,
           \/ Triage!Open(d, s) \/ Triage!Rate(d, s) \/ Triage!Propose(d, s)
           \/ Triage!Decide(d, s) \/ Triage!Release(d) \/ Triage!Accept(d)
           \/ Triage!Decline(d)
           \/ \E state \in {"open", "closed"} : Triage!File(d, state)
    PROVE  /\ docket' \in [Domains -> Triage!Entry]
           /\ \A c \in Domains : c # d => docket'[c] = docket[c]
<1>1. /\ docket \in [Domains -> Triage!Entry]
      /\ docket[d] \in Triage!Entry
  BY DEF TypeOK
<1> USE DEF Triage!Update
<1>2. ASSUME NEW q \in Triage!Entry, docket' = [docket EXCEPT ![d] = q]
      PROVE  /\ docket' \in [Domains -> Triage!Entry]
             /\ \A c \in Domains : c # d => docket'[c] = docket[c]
  BY <1>1, <1>2
<1>3. CASE Triage!Open(d, s)
  <2> DEFINE q == [Triage!Absent EXCEPT !.state = "open", !.severity = s]
  <2>1. q \in Triage!Entry
    BY <1>1, <1>3, RatedEntries DEF Triage!Open, Triage!Absent, Triage!Entry
  <2>2. docket' = [docket EXCEPT ![d] = q]
    BY <1>3 DEF Triage!Open
  <2> HIDE DEF q
  <2> QED
    BY <1>2, <2>1, <2>2
<1>4. CASE Triage!Rate(d, s)
  <2> DEFINE q == [docket[d] EXCEPT !.state = "open", !.severity = s]
  <2>1. q \in Triage!Entry
    BY <1>1, <1>4, RatedEntries DEF Triage!Rate, Triage!Absent, Triage!Entry
  <2>2. docket' = [docket EXCEPT ![d] = q]
    BY <1>4 DEF Triage!Rate
  <2> HIDE DEF q
  <2> QED
    BY <1>2, <2>1, <2>2
<1>5. CASE Triage!Propose(d, s)
  <2> DEFINE q == [docket[d] EXCEPT !.state = "open", !.proposal = s]
  <2>1. q \in Triage!Entry
    BY <1>1, <1>5, RatedEntries DEF Triage!Propose, Triage!Absent, Triage!Entry
  <2>2. docket' = [docket EXCEPT ![d] = q]
    BY <1>5 DEF Triage!Propose
  <2> HIDE DEF q
  <2> QED
    BY <1>2, <2>1, <2>2
<1>6. CASE Triage!Decide(d, s)
  <2> DEFINE q == [docket[d] EXCEPT !.severity = s, !.owner = "analyst",
                                      !.proposal = Triage!NoProposal]
  <2>1. q \in Triage!Entry
    BY <1>1, <1>6, RatedEntries DEF Triage!Decide, Triage!Absent, Triage!Entry
  <2>2. docket' = [docket EXCEPT ![d] = q]
    BY <1>6 DEF Triage!Decide
  <2> HIDE DEF q
  <2> QED
    BY <1>2, <2>1, <2>2
<1>7. CASE Triage!Release(d)
  <2> DEFINE q == [docket[d] EXCEPT !.owner = "classifier",
                                      !.proposal = Triage!NoProposal]
  <2>1. q \in Triage!Entry
    BY <1>1, <1>7, RatedEntries DEF Triage!Release, Triage!Absent, Triage!Entry
  <2>2. docket' = [docket EXCEPT ![d] = q]
    BY <1>7 DEF Triage!Release
  <2> HIDE DEF q
  <2> QED
    BY <1>2, <2>1, <2>2
<1>8. CASE Triage!Accept(d)
  <2> DEFINE q == [docket[d] EXCEPT !.severity = docket[d].proposal,
                                      !.owner = "analyst",
                                      !.proposal = Triage!NoProposal]
  <2>1. q \in Triage!Entry
    BY <1>1, <1>8, RatedEntries DEF Triage!Accept, Triage!Entry
  <2>2. docket' = [docket EXCEPT ![d] = q]
    BY <1>8 DEF Triage!Accept
  <2> HIDE DEF q
  <2> QED
    BY <1>2, <2>1, <2>2
<1>9. CASE Triage!Decline(d)
  <2> DEFINE q == [docket[d] EXCEPT !.proposal = Triage!NoProposal]
  <2>1. q \in Triage!Entry
    BY <1>1, <1>9, RatedEntries DEF Triage!Decline, Triage!Absent, Triage!Entry
  <2>2. docket' = [docket EXCEPT ![d] = q]
    BY <1>9 DEF Triage!Decline
  <2> HIDE DEF q
  <2> QED
    BY <1>2, <2>1, <2>2
<1>10. ASSUME NEW state \in {"open", "closed"}, Triage!File(d, state)
      PROVE  /\ docket' \in [Domains -> Triage!Entry]
             /\ \A c \in Domains : c # d => docket'[c] = docket[c]
  <2> DEFINE q == [docket[d] EXCEPT !.state = state]
  <2>1. q \in Triage!Entry
    BY <1>1 DEF Triage!Entry
  <2>2. docket' = [docket EXCEPT ![d] = q]
    BY <1>10 DEF Triage!File
  <2> HIDE DEF q
  <2> QED
    BY <1>2, <2>1, <2>2
<1> QED
  BY <1>3, <1>4, <1>5, <1>6, <1>7, <1>8, <1>9, <1>10

LEMMA JudgementsTyped ==
    ASSUME TypeOK, NEW d \in Domains, Judge(d) \/ CloseWhitelisted(d)
    PROVE  /\ docket' \in [Domains -> Triage!Entry]
           /\ \A c \in Domains : c # d => docket'[c] = docket[c]
<1>1. "LOW" \in Severities /\ Chosen \subseteq Severities
  BY ScanFlowAssumption DEF ScanFlowAssumption, Severities
<1>2. CASE Judge(d)
  BY <1>1, <1>2, EntriesTyped DEF Judge
<1>3. CASE CloseWhitelisted(d)
  BY <1>1, <1>3, EntriesTyped DEF CloseWhitelisted
<1> QED
  BY <1>2, <1>3

(* What ingesting the first event does to the docket, as one fact. *)
LEMMA HeadIngested ==
    ASSUME TypeOK, Ingest
    PROVE  LET e == Head(run.events)
           IN  /\ e \in Event
               /\ docket' \in [Domains -> Triage!Entry]
               /\ \A c \in Domains : c # e.domain => docket'[c] = docket[c]
               /\ Reported(e.domain, e.severity)
<1> DEFINE e == Head(run.events)
<1>1. run.events \in Seq(Event) /\ run.events # <<>>
  BY DEF Ingest, TypeOK, Run
<1>2. e \in Event /\ Reported(e.domain, e.severity)
  BY <1>1 DEF Ingest
<1>3. e.domain \in Domains /\ e.severity \in Severities
  BY <1>2 DEF Event
<1> HIDE DEF e
<1>4. /\ docket' \in [Domains -> Triage!Entry]
      /\ \A c \in Domains : c # e.domain => docket'[c] = docket[c]
  <2>1. CASE Ignored(e.domain, e.severity)
    BY <2>1 DEF Ignored, TypeOK
  <2>2. CASE ~Ignored(e.domain, e.severity)
    BY <1>2, <1>3, <2>2, EntriesTyped DEF Reported
  <2> QED
    BY <2>1, <2>2
<1> QED
  BY <1>2, <1>4 DEF e

(* The run after a step that collects an event, or that hands one on. *)
LEMMA RunCollected ==
    ASSUME TypeOK, NEW d \in Domains, NEW s \in Severities,
           NEW source \in {"check", "twist"}, Collected(d, s, source)
    PROVE  LET e == [domain |-> d, severity |-> s, source |-> source]
           IN  /\ e \in Event
               /\ run' \in Run
               /\ run'.events = Append(run.events, e)
               /\ run'.at = run.at /\ run'.known = run.known /\ run'.blind = run.blind
               /\ UNCHANGED <<whitelist, docket, closing, late>>
               /\ verdict' = [verdict EXCEPT ![d] = s]
<1> DEFINE e == [domain |-> d, severity |-> s, source |-> source]
<1>1. e \in Event
  BY DEF Event
<1>2. run' = [run EXCEPT !.todo = run.todo \ {d}, !.events = Append(run.events, e)]
      /\ UNCHANGED <<whitelist, docket, closing, late>>
      /\ verdict' = [verdict EXCEPT ![d] = s]
  BY DEF Collected
<1> HIDE DEF e
<1>3. run \in Run /\ run.events \in Seq(Event) /\ run.todo \in SUBSET Domains
  BY DEF TypeOK, Run
<1>4. Append(run.events, e) \in Seq(Event) /\ run.todo \ {d} \in SUBSET Domains
  BY <1>1, <1>3
<1>5. /\ run' \in Run
      /\ run'.events = Append(run.events, e)
      /\ run'.at = run.at /\ run'.known = run.known /\ run'.blind = run.blind
  BY <1>2, <1>3, <1>4 DEF Run
<1> QED
  BY <1>1, <1>2, <1>5 DEF e

(* The two steps that collect: what the classifier says of a domain, or     *)
(* dnstwist's discovery of a variant.                                       *)
Collects(d, s, source) ==
    /\ d \in Domains
    /\ s \in Verdicts \cup {"MEDIUM"}
    /\ Collected(d, s, source)
    /\ \/ source = "check" /\ run.at = "scan" /\ d \notin run.known
       \/ source = "twist" /\ run.at = "twist"

LEMMA OnlyRated == Verdicts \cup {"MEDIUM"} \subseteq Severities
  BY ScanFlowAssumption DEF ScanFlowAssumption, Severities

LEMMA NothingRunning == NoRun \in Run /\ NoRun.events = <<>> /\ NoRun.at = "idle"
<1>1. <<>> \in Seq(Event)
  OBVIOUS
<1> QED
  BY <1>1 DEF NoRun, Run

(* The steps that only move the run on: they change nothing else, and keep  *)
(* its events.                                                              *)
MovesOn == \/ \E ok \in BOOLEAN : ReadWhitelist(ok)
           \/ \E d \in Domains : Skip(d) \/ CheckUnanswered(d)
           \/ BeginTwist \/ Publish

LEMMA RunMovesOn ==
    ASSUME TypeOK, MovesOn
    PROVE  /\ run' \in Run /\ run'.events = run.events
           /\ UNCHANGED <<whitelist, docket, closing, verdict, late>>
           /\ run.at # "idle" /\ run'.at \notin {"idle", "feed"}
           /\ run'.at = "scan" =>
                 \/ run.at = "scan" /\ run'.known = run.known /\ run'.blind = run.blind
                 \/ /\ run.at = "feed"
                    /\ run'.blind \/ run'.known = whitelist
           /\ run.at # "feed" => run'.blind = run.blind
<1>1. /\ run \in Run /\ run.todo \in SUBSET Domains
      /\ run.known \in SUBSET Domains /\ whitelist \in SUBSET Domains
  BY DEF TypeOK, Run
<1>2. ASSUME NEW ok \in BOOLEAN, ReadWhitelist(ok)
      PROVE  /\ run' \in Run /\ run'.events = run.events
             /\ run.at = "feed" /\ run'.at = "scan"
             /\ run'.blind \/ run'.known = whitelist
  <2> DEFINE known == IF ok THEN whitelist ELSE {}
  <2>1. known \in SUBSET Domains /\ (~ok) \in BOOLEAN
    BY <1>1
  <2>2. run' = [run EXCEPT !.at = "scan", !.blind = ~ok, !.known = known]
        /\ run.at = "feed"
    BY <1>2 DEF ReadWhitelist
  <2>3. ~ok \/ known = whitelist
    OBVIOUS
  <2> HIDE DEF known
  <2> QED
    BY <1>1, <2>1, <2>2, <2>3 DEF Run
<1>3. ASSUME NEW d \in Domains, Skip(d) \/ CheckUnanswered(d)
      PROVE  /\ run' \in Run /\ run'.events = run.events
             /\ run.at = "scan" /\ run'.at = "scan"
             /\ run'.known = run.known /\ run'.blind = run.blind
  BY <1>1, <1>3 DEF Skip, CheckUnanswered, Run
<1>4. ASSUME BeginTwist
      PROVE  /\ run' \in Run /\ run'.events = run.events
             /\ run.at = "scan" /\ run'.at = "twist" /\ run'.blind = run.blind
  <2>1. PICK found \in {{}, Variants} :
           run' = [run EXCEPT !.at = "twist", !.todo = found]
    BY <1>4 DEF BeginTwist
  <2>2. found \in SUBSET Domains
    BY ScanFlowAssumption DEF ScanFlowAssumption
  <2> QED
    BY <1>1, <1>4, <2>1, <2>2 DEF BeginTwist, Run
<1>5. ASSUME Publish
      PROVE  /\ run' \in Run /\ run'.events = run.events
             /\ run.at # "feed" /\ run.at # "idle" /\ run'.at = "ingest"
             /\ run'.blind = run.blind
  BY <1>1, <1>5 DEF Publish, Run
<1>6. UNCHANGED <<whitelist, docket, closing, verdict, late>>
  BY DEF MovesOn, ReadWhitelist, Skip, CheckUnanswered, BeginTwist, Publish
<1> QED
  BY <1>2, <1>3, <1>4, <1>5, <1>6 DEF MovesOn

(* A run begins with nothing collected, and ends with nothing.              *)
LEMMA RunBegins ==
    ASSUME TypeOK, NEW scope \in SUBSET Domains, NEW twist \in BOOLEAN,
           BeginRun(scope, twist)
    PROVE  /\ run' \in Run /\ run'.events = <<>> /\ run'.at = "feed"
           /\ verdict' = NoVerdicts
           /\ UNCHANGED <<whitelist, docket, closing, late>>
<1>1. (twist /\ scope \cap Targets # {}) \in BOOLEAN
  OBVIOUS
<1> QED
  BY <1>1, NothingRunning DEF BeginRun, NoRun, Run

LEMMA EventsHandedOn ==
    ASSUME TypeOK, Ingest \/ IngestFails
    PROVE  /\ run' \in Run /\ run'.at = run.at /\ run.at = "ingest"
           /\ run'.blind = run.blind
           /\ run.events \in Seq(Event) /\ run.events # <<>>
           /\ run'.events = Tail(run.events) \/ (IngestFails /\ run'.events = <<>>)
<1>1. run \in Run /\ run.events \in Seq(Event) /\ run.events # <<>>
  BY DEF Ingest, IngestFails, TypeOK, Run
<1>2. Tail(run.events) \in Seq(Event) /\ <<>> \in Seq(Event)
  BY <1>1
<1>3. PICK rest \in {Tail(run.events), <<>>} :
         /\ run' = [run EXCEPT !.events = rest]
         /\ rest = Tail(run.events) \/ IngestFails
  BY DEF Ingest, IngestFails
<1>4. rest \in Seq(Event)
  BY <1>2
<1>5. run' \in Run /\ run'.at = run.at /\ run'.blind = run.blind /\ run'.events = rest
  BY <1>1, <1>3, <1>4 DEF Run
<1> QED
  BY <1>1, <1>3, <1>5 DEF Ingest, IngestFails

(* Every step of the run is one of these. *)
LEMMA ScanSteps ==
    ASSUME TypeOK, Scan
    PROVE  \/ \E scope \in SUBSET Domains, twist \in BOOLEAN : BeginRun(scope, twist)
           \/ \E d \in Domains, s \in Severities, source \in {"check", "twist"} :
                 Collects(d, s, source)
           \/ MovesOn \/ Ingest \/ IngestFails \/ EndRun \/ Die
<1>1. ASSUME NEW d \in Domains, NEW s \in Verdicts, Check(d, s)
      PROVE  Collects(d, s, "check") /\ s \in Severities
  BY <1>1, OnlyRated DEF Check, Collects
<1>2. ASSUME NEW d \in Domains, NEW s \in Verdicts \cup {"MEDIUM"}, Discover(d, s)
      PROVE  Collects(d, s, "twist") /\ s \in Severities
  BY <1>2, OnlyRated DEF Discover, Collects
<1> QED
  BY <1>1, <1>2 DEF Scan, MovesOn

LEMMA NoVerdictsTyped == NoVerdicts \in [Domains -> Severities \cup {NoVerdict}]
  BY DEF NoVerdicts

LEMMA ScanTyped == Init => TypeOK
<1>1. Triage!Absent \in Triage!Entry
  BY RatedEntries DEF Triage!Absent, Triage!Entry
<1> QED
  BY <1>1, NothingRunning, NoVerdictsTyped DEF Init, TypeOK

LEMMA ScanStepTyped == TypeOK /\ [Next]_vars => TypeOK'
<1> SUFFICES ASSUME TypeOK, [Next]_vars PROVE TypeOK'
  OBVIOUS
<1>1. ASSUME NEW scope \in SUBSET Domains, NEW twist \in BOOLEAN, BeginRun(scope, twist)
      PROVE  TypeOK'
  BY <1>1, RunBegins, NoVerdictsTyped DEF TypeOK
<1>2. ASSUME NEW d \in Domains, NEW s \in Severities, NEW source \in {"check", "twist"},
             Collects(d, s, source)
      PROVE  TypeOK'
  <2>1. /\ run' \in Run /\ verdict' = [verdict EXCEPT ![d] = s]
        /\ UNCHANGED <<whitelist, docket, closing, late>>
    <3>1. Collected(d, s, source)
      BY <1>2 DEF Collects
    <3> QED
      BY <3>1, RunCollected
  <2> QED
    BY <2>1 DEF TypeOK
<1>3. CASE MovesOn
  BY <1>3, RunMovesOn DEF TypeOK
<1>4. CASE Ingest
  <2>1. docket' \in [Domains -> Triage!Entry] /\ run' \in Run
    BY <1>4, HeadIngested, EventsHandedOn
  <2> QED
    BY <1>4, <2>1 DEF Ingest, TypeOK
<1>5. CASE IngestFails
  BY <1>5, EventsHandedOn, NoVerdictsTyped DEF IngestFails, TypeOK
<1>6. CASE EndRun \/ Die
  BY <1>6, NothingRunning, NoVerdictsTyped DEF EndRun, Die, TypeOK
<1>7. ASSUME NEW d \in Domains, AddWhitelist(d) \/ RemoveWhitelist(d) \/ PostWhitelist(d)
      PROVE  TypeOK'
  BY <1>7 DEF AddWhitelist, RemoveWhitelist, PostWhitelist, Listed, TypeOK
<1>8. ASSUME NEW d \in Domains, Judge(d) \/ CloseWhitelisted(d)
      PROVE  TypeOK'
  <2>1. docket' \in [Domains -> Triage!Entry]
    BY <1>8, JudgementsTyped
  <2>2. /\ verdict' = [verdict EXCEPT ![d] = NoVerdict]
        /\ closing' \subseteq closing
        /\ UNCHANGED <<whitelist, run, late>>
    BY <1>8 DEF Judge, CloseWhitelisted, Judged
  <2> QED
    BY <2>1, <2>2 DEF TypeOK
<1>9. CASE UNCHANGED vars
  BY <1>9 DEF vars, TypeOK
<1> QED
  BY <1>1, <1>2, <1>3, <1>4, <1>5, <1>6, <1>7, <1>8, <1>9, ScanSteps DEF Next, People

(* The run, its events, the whitelist and the docket keep their types, for  *)
(* any domains, verdicts and ratings.                                       *)
THEOREM TypeCorrect == Spec => []TypeOK
  BY ScanTyped, ScanStepTyped, PTL DEF Spec

-----------------------------------------------------------------------------
(* The whitelist.  A run has collected nothing before it reads the list,    *)
(* and what is listed while it scans but not on the list as read was listed *)
(* late, or the list could not be read.                                     *)

NothingYet == run.at \in {"idle", "feed"} => run.events = <<>>

ReadInTime ==
    run.at = "scan" => \A d \in whitelist \ run.known : run.blind \/ d \in late

(* A run reports no severity but the classifier's, and MEDIUM for a variant *)
(* that needs review.                                                       *)
RatedByRules ==
    \A i \in 1 .. Len(run.events) : run.events[i].severity \in Verdicts \cup {"MEDIUM"}

Listings == NothingYet /\ ReadInTime /\ WhitelistRespected /\ RatedByRules

(* What WhitelistRespected asks of one event. *)
Excused(e) == e.source = "check" /\ e.domain \in whitelist =>
                  run.blind \/ e.domain \in late

LEMMA EventsExcused ==
    WhitelistRespected <=> \A i \in 1 .. Len(run.events) : Excused(run.events[i])
  BY DEF WhitelistRespected, Excused

LEMMA ListingsBegin == Init => Listings
  BY NothingRunning DEF Init, Listings, NothingYet, ReadInTime, WhitelistRespected,
     RatedByRules

(* A step that hands events on keeps some of them, or none. *)
LEMMA FewerEvents ==
    ASSUME TypeOK, Ingest \/ IngestFails
    PROVE  \A i \in 1 .. Len(run'.events) :
              \E j \in 1 .. Len(run.events) : run'.events[i] = run.events[j]
<1>1. CASE run'.events = <<>>
  BY <1>1
<1>2. CASE run'.events = Tail(run.events)
  <2>1. run.events \in Seq(Event) /\ run.events # <<>>
    BY EventsHandedOn
  <2> SUFFICES ASSUME NEW i \in 1 .. Len(Tail(run.events))
               PROVE  /\ i + 1 \in 1 .. Len(run.events)
                      /\ Tail(run.events)[i] = run.events[i + 1]
    BY <1>2
  <2> QED
    BY <2>1
<1> QED
  BY <1>1, <1>2, EventsHandedOn

LEMMA ListingsStep == TypeOK /\ Listings /\ [Next]_vars => Listings'
<1> SUFFICES ASSUME TypeOK, Listings, [Next]_vars PROVE Listings'
  OBVIOUS
<1>1. ASSUME run'.events = <<>>, run'.at # "scan" PROVE Listings'
  BY <1>1 DEF Listings, NothingYet, ReadInTime, WhitelistRespected, RatedByRules
<1>2. ASSUME NEW d \in Domains, NEW s \in Severities, NEW source \in {"check", "twist"},
             Collects(d, s, source)
      PROVE  Listings'
  <2> DEFINE e == [domain |-> d, severity |-> s, source |-> source]
  <2>1. /\ run'.events = Append(run.events, e)
        /\ run'.at = run.at /\ run'.known = run.known /\ run'.blind = run.blind
        /\ UNCHANGED <<whitelist, late>>
        /\ run.at \in {"scan", "twist"}
        /\ run.events \in Seq(Event)
        /\ e \in Event
    <3>1. Collected(d, s, source) /\ run.at \in {"scan", "twist"}
      BY <1>2 DEF Collects
    <3>2. run.events \in Seq(Event)
      BY DEF TypeOK, Run
    <3> QED
      BY <3>1, <3>2, RunCollected
  <2>2. Excused(e)
    BY <1>2 DEF Collects, Listings, ReadInTime, Excused
  <2>3. e.severity \in Verdicts \cup {"MEDIUM"}
    BY <1>2 DEF Collects
  <2> HIDE DEF e
  <2>4. \A i \in 1 .. Len(run'.events) :
           \/ i \in 1 .. Len(run.events) /\ run'.events[i] = run.events[i]
           \/ run'.events[i] = e
    BY <2>1
  <2>5. WhitelistRespected'
    <3>1. \A i \in 1 .. Len(run'.events) : Excused(run'.events[i])
      BY <2>2, <2>4, EventsExcused DEF Listings
    <3> QED
      BY <2>1, <3>1 DEF WhitelistRespected, Excused
  <2>6. RatedByRules'
    BY <2>3, <2>4 DEF Listings, RatedByRules
  <2> QED
    BY <2>1, <2>5, <2>6 DEF Listings, NothingYet, ReadInTime
<1>3. CASE MovesOn
  <2>1. ReadInTime'
    BY <1>3, RunMovesOn DEF Listings, ReadInTime
  <2>2. NothingYet' /\ RatedByRules'
    BY <1>3, RunMovesOn DEF Listings, NothingYet, RatedByRules
  <2>3. WhitelistRespected'
    <3>1. CASE run.at = "feed"
      BY <1>3, <3>1, RunMovesOn DEF Listings, NothingYet, WhitelistRespected
    <3>2. CASE run.at # "feed"
      BY <1>3, <3>2, RunMovesOn DEF Listings, WhitelistRespected
    <3> QED
      BY <3>1, <3>2
  <2> QED
    BY <2>1, <2>2, <2>3 DEF Listings
<1>4. CASE Ingest \/ IngestFails
  <2>1. /\ run'.at = "ingest" /\ run'.blind = run.blind
        /\ UNCHANGED <<whitelist, late>>
    BY <1>4, EventsHandedOn DEF Ingest, IngestFails
  <2>2. WhitelistRespected' /\ RatedByRules'
    BY <1>4, <2>1, FewerEvents DEF Listings, WhitelistRespected, RatedByRules
  <2> QED
    BY <2>1, <2>2 DEF Listings, NothingYet, ReadInTime
<1>5. ASSUME NEW d \in Domains, AddWhitelist(d) \/ PostWhitelist(d)
      PROVE  Listings'
  <2>1. Listed(d) /\ UNCHANGED run
    BY <1>5 DEF AddWhitelist, PostWhitelist
  <2>2. /\ whitelist' = whitelist \cup {d}
        /\ run.at \in {"idle", "feed"} \/ late' = late \cup {d}
    BY <2>1 DEF Listed
  <2>3. CASE run.at \in {"idle", "feed"}
    BY <2>1, <2>3 DEF Listings, NothingYet, ReadInTime, WhitelistRespected, RatedByRules
  <2>4. CASE run.at \notin {"idle", "feed"}
    BY <2>1, <2>2, <2>4 DEF Listings, NothingYet, ReadInTime, WhitelistRespected,
                            RatedByRules
  <2> QED
    BY <2>3, <2>4
<1>6. ASSUME UNCHANGED <<run, late>>, whitelist' \subseteq whitelist PROVE Listings'
  BY <1>6 DEF Listings, NothingYet, ReadInTime, WhitelistRespected, RatedByRules
<1>7. ASSUME NEW d \in Domains, RemoveWhitelist(d) \/ Judge(d) \/ CloseWhitelisted(d)
      PROVE  Listings'
  BY <1>6, <1>7 DEF RemoveWhitelist, Judge, CloseWhitelisted
<1>8. CASE UNCHANGED vars
  BY <1>6, <1>8 DEF vars
<1>9. CASE EndRun \/ Die
  BY <1>1, <1>9, NothingRunning DEF EndRun, Die
<1>10. ASSUME NEW scope \in SUBSET Domains, NEW twist \in BOOLEAN, BeginRun(scope, twist)
       PROVE  Listings'
  BY <1>1, <1>10, RunBegins
<1> QED
  BY <1>2, <1>3, <1>4, <1>5, <1>7, <1>8, <1>9, <1>10, ScanSteps DEF Next, People

LEMMA ListingsHold == Spec => [](TypeOK /\ Listings)
<1>1. Init => TypeOK /\ Listings
  BY ScanTyped, ListingsBegin
<1>2. TypeOK /\ Listings /\ [Next]_vars => (TypeOK /\ Listings)'
  BY ScanStepTyped, ListingsStep
<1> QED
  BY <1>1, <1>2, PTL DEF Spec

(* For any domains and verdicts, and however the people come between two    *)
(* steps: the check loop reports a listed domain only if it was listed      *)
(* since the run read the list, or the list could not be read.              *)
THEOREM WhitelistIsRespected == Spec => []WhitelistRespected
<1>1. Listings => WhitelistRespected
  BY DEF Listings
<1> QED
  BY <1>1, ListingsHold, PTL

-----------------------------------------------------------------------------
(* The case store. *)

(* The store compares severities as this module does. *)
LEMMA SameScale == \A s, r : Triage!Escalates(s, r) <=> Escalates(s, r)
  BY DEF Escalates, ReportedRank, RecordedRank, SeverityRank, Severities,
         Triage!Escalates, Triage!ReportedRank, Triage!RecordedRank,
         Triage!SeverityRank, Triage!Severities

(* Steps that are neither an ingestion nor a judgement leave the docket.    *)
LEMMA DocketStays ==
    ASSUME TypeOK, [Next]_vars, ~Ingest,
           \A d \in Domains : ~Judge(d) /\ ~CloseWhitelisted(d)
    PROVE  UNCHANGED docket
<1>1. ASSUME NEW scope \in SUBSET Domains, NEW twist \in BOOLEAN, BeginRun(scope, twist)
      PROVE  UNCHANGED docket
  BY <1>1 DEF BeginRun
<1>2. ASSUME NEW d, NEW s, NEW source, Collects(d, s, source)
      PROVE  UNCHANGED docket
  BY <1>2 DEF Collects, Collected
<1>3. CASE MovesOn
  BY <1>3, RunMovesOn
<1>4. CASE IngestFails \/ EndRun \/ Die
  BY <1>4 DEF IngestFails, EndRun, Die
<1>5. ASSUME NEW d \in Domains, AddWhitelist(d) \/ RemoveWhitelist(d) \/ PostWhitelist(d)
      PROVE  UNCHANGED docket
  BY <1>5 DEF AddWhitelist, RemoveWhitelist, PostWhitelist
<1>6. CASE UNCHANGED vars
  BY <1>6 DEF vars
<1> QED
  BY <1>1, <1>2, <1>3, <1>4, <1>5, <1>6, ScanSteps DEF Next, People

(* A run that reopens a case does so by ingesting an event that escalates   *)
(* it.                                                                      *)
LEMMA ReopenedByIngest ==
    ASSUME TypeOK, [Next]_vars, NEW d \in Domains,
           docket[d].state = "closed", docket'[d].state = "open", run' # run
    PROVE  /\ Ingest
           /\ Head(run.events).domain = d
           /\ Escalates(Head(run.events).severity, docket[d].severity)
<1>1. ASSUME NEW c \in Domains PROVE ~Judge(c) /\ ~CloseWhitelisted(c)
  BY DEF Judge, CloseWhitelisted
<1>2. Ingest
  BY <1>1, DocketStays
<1> DEFINE e == Head(run.events)
<1>3. /\ \A c \in Domains : c # e.domain => docket'[c] = docket[c]
      /\ Reported(e.domain, e.severity)
  BY <1>2, HeadIngested
<1> HIDE DEF e
<1>4. e.domain = d
  BY <1>3
<1>5. Escalates(e.severity, docket[d].severity)
  BY <1>3, <1>4, SameScale DEF Reported, Triage!Open, Triage!Rate, Triage!Propose,
                                Ignored
<1> QED
  BY <1>2, <1>4, <1>5 DEF e

-----------------------------------------------------------------------------
(* The last word.  While an event on a domain is on its way, the last such  *)
(* event carries the verdict; once none is, the case reflects it.           *)

Pending(d) == \E i \in 1 .. Len(run.events) : run.events[i].domain = d

LastOn(d, i) == /\ run.events[i].domain = d
                /\ \A j \in 1 .. Len(run.events) : j > i => run.events[j].domain # d

Awaited(d) ==
    /\ \A i \in 1 .. Len(run.events) :
          LastOn(d, i) => run.events[i].severity = verdict[d]
    /\ ~Pending(d) => Reflected(d)

OnTheWay == \A d \in Domains : verdict[d] # NoVerdict => Awaited(d)

LEMMA OnTheWayBegins == Init => OnTheWay
  BY DEF Init, OnTheWay, NoVerdicts

(* An ingested report is reflected in its case, whatever branch it took.    *)
LEMMA ReportIsReflected ==
    ASSUME TypeOK, NEW d \in Domains, Reported(d, verdict[d]), UNCHANGED verdict
    PROVE  Reflected(d)'
<1>1. /\ docket \in [Domains -> Triage!Entry] /\ docket[d] \in Triage!Entry
      /\ verdict'[d] = verdict[d]
  BY DEF TypeOK
<1>2. ASSUME NEW q, docket' = [docket EXCEPT ![d] = q] PROVE docket'[d] = q
  BY <1>1, <1>2
<1> DEFINE v == verdict[d]
<1> HIDE DEF v
<1>3. CASE Triage!Open(d, v)
  <2> DEFINE q == [Triage!Absent EXCEPT !.state = "open", !.severity = v]
  <2>1. q.state = "open" /\ q.severity = v
    BY DEF Triage!Absent
  <2>2. docket'[d] = q
    BY <1>2, <1>3 DEF Triage!Open, Triage!Update
  <2> HIDE DEF q
  <2> QED
    BY <1>1, <2>1, <2>2 DEF Reflected, Triage!On, v
<1>4. CASE Triage!Rate(d, v)
  <2> DEFINE q == [docket[d] EXCEPT !.state = "open", !.severity = v]
  <2>1. q.state = "open" /\ q.severity = v
    BY <1>1 DEF Triage!Entry
  <2>2. docket'[d] = q
    BY <1>2, <1>4 DEF Triage!Rate, Triage!Update
  <2> HIDE DEF q
  <2> QED
    BY <1>1, <2>1, <2>2 DEF Reflected, Triage!On, v
<1>5. CASE Triage!Propose(d, v)
  <2> DEFINE q == [docket[d] EXCEPT !.state = "open", !.proposal = v]
  <2>1. q.state = "open" /\ q.owner = docket[d].owner /\ docket[d].owner = "analyst"
    BY <1>1, <1>5 DEF Triage!Entry, Triage!Propose
  <2>2. docket'[d] = q
    BY <1>2, <1>5 DEF Triage!Propose, Triage!Update
  <2> HIDE DEF q
  <2> QED
    BY <1>1, <2>1, <2>2 DEF Reflected, Triage!On
<1>6. CASE Ignored(d, v)
  <2>1. /\ docket'[d] = docket[d] /\ docket[d].state # "absent"
        /\ ~Escalates(verdict[d], docket[d].severity)
        /\ docket[d].state = "closed" \/ docket[d].owner = "analyst"
    BY <1>6 DEF Ignored, Triage!On, v
  <2>2. docket[d].state = "open" => docket[d].owner # "classifier"
    BY <2>1
  <2> QED
    BY <1>1, <2>1, <2>2 DEF Reflected, Triage!On
<1> QED
  BY <1>3, <1>4, <1>5, <1>6 DEF Reported, v

(* Events that arrive: one more at the end. *)
LEMMA CollectingKeepsWord ==
    ASSUME TypeOK, OnTheWay, NEW d \in Domains, NEW s \in Severities,
           NEW source \in {"check", "twist"}, Collects(d, s, source)
    PROVE  OnTheWay'
<1> DEFINE e == [domain |-> d, severity |-> s, source |-> source]
<1>0. /\ run'.events = Append(run.events, e) /\ e \in Event
      /\ UNCHANGED docket
      /\ verdict' = [verdict EXCEPT ![d] = s]
  <2>1. Collected(d, s, source)
    BY DEF Collects
  <2> QED
    BY <2>1, RunCollected
<1>1. /\ run'.events = Append(run.events, e) /\ e \in Event
      /\ e.domain = d /\ e.severity = s
      /\ UNCHANGED docket
      /\ verdict' = [verdict EXCEPT ![d] = s]
  BY <1>0
<1>2. run.events \in Seq(Event) /\ verdict \in [Domains -> Severities \cup {NoVerdict}]
  BY DEF TypeOK, Run
<1> HIDE DEF e
<1> DEFINE n == Len(run.events)
<1>3. /\ n \in Nat /\ Len(run'.events) = n + 1 /\ run'.events[n + 1] = e
      /\ \A i \in 1 .. n : run'.events[i] = run.events[i]
  BY <1>1, <1>2
<1>4. /\ verdict'[d] = s
      /\ \A c \in Domains : c # d => verdict'[c] = verdict[c]
  BY <1>1, <1>2
<1> HIDE DEF n
<1>5. Awaited(d)'
  <2>1. n + 1 \in 1 .. Len(run'.events) /\ run'.events[n + 1].domain = d
    BY <1>1, <1>3
  <2>2. ASSUME NEW i \in 1 .. Len(run'.events), LastOn(d, i)'
        PROVE  run'.events[i].severity = verdict'[d]
    <3>1. i = n + 1
      BY <1>3, <2>1, <2>2 DEF LastOn
    <3> QED
      BY <1>1, <1>3, <1>4, <3>1
  <2> QED
    BY <2>1, <2>2 DEF Awaited, Pending
<1>6. ASSUME NEW c \in Domains, c # d, verdict'[c] # NoVerdict
      PROVE  Awaited(c)'
  <2>1. Awaited(c)
    BY <1>4, <1>6 DEF OnTheWay
  <2>2. ASSUME NEW i \in 1 .. Len(run'.events), LastOn(c, i)'
        PROVE  run'.events[i].severity = verdict'[c]
    <3>1. i \in 1 .. n
      <4>1. run'.events[i].domain = c
        BY <2>2 DEF LastOn
      <4>2. i # n + 1
        BY <1>1, <1>3, <1>6, <4>1
      <4> QED
        BY <1>3, <4>2
    <3>2. run.events[i].domain = c
      BY <1>3, <2>2, <3>1 DEF LastOn
    <3>3. ASSUME NEW j \in 1 .. n, j > i PROVE run.events[j].domain # c
      <4>1. j \in 1 .. Len(run'.events) /\ run'.events[j] = run.events[j]
        BY <1>3
      <4> QED
        BY <2>2, <3>3, <4>1 DEF LastOn
    <3>4. LastOn(c, i)
      BY <3>2, <3>3 DEF LastOn, n
    <3> QED
      BY <1>3, <1>4, <1>6, <2>1, <3>1, <3>4 DEF Awaited, n
  <2>3. ASSUME ~Pending(c)' PROVE Reflected(c)'
    <3>1. ~Pending(c)
      BY <1>3, <2>3 DEF Pending, n
    <3> QED
      BY <1>1, <1>4, <1>6, <2>1, <3>1 DEF Awaited, Reflected, Triage!On
  <2> QED
    BY <2>2, <2>3 DEF Awaited
<1> QED
  BY <1>5, <1>6 DEF OnTheWay

(* Events that are handed on: one less at the front, and its case changed.  *)
LEMMA IngestingKeepsWord ==
    ASSUME TypeOK, OnTheWay, Ingest
    PROVE  OnTheWay'
<1> DEFINE e == Head(run.events)
           n == Len(run.events)
<1>1. /\ run.events \in Seq(Event) /\ run.events # <<>>
      /\ run'.events = Tail(run.events) /\ UNCHANGED verdict
  <2>1. run' = [run EXCEPT !.events = Tail(run.events)] /\ UNCHANGED verdict
    BY DEF Ingest
  <2>2. run \in Run
    BY DEF TypeOK
  <2> QED
    BY <2>1, <2>2, EventsHandedOn DEF Run
<1>2. /\ \A c \in Domains : c # e.domain => docket'[c] = docket[c]
      /\ Reported(e.domain, e.severity) /\ e \in Event
  BY HeadIngested
<1>3. /\ n \in Nat \ {0} /\ run.events[1] = e /\ Len(run'.events) = n - 1
      /\ \A i \in 1 .. n - 1 : run'.events[i] = run.events[i + 1]
  BY <1>1
<1> HIDE DEF e, n
<1> SUFFICES ASSUME NEW d \in Domains, verdict'[d] # NoVerdict PROVE Awaited(d)'
  BY DEF OnTheWay
<1>4. Awaited(d) /\ verdict'[d] = verdict[d]
  BY <1>1 DEF OnTheWay
<1>5. ASSUME NEW i \in 1 .. Len(run'.events), LastOn(d, i)'
      PROVE  run'.events[i].severity = verdict'[d]
  <2>1. i \in 1 .. n - 1 /\ i + 1 \in 1 .. n /\ run'.events[i] = run.events[i + 1]
    BY <1>3
  <2>2. ASSUME NEW j \in 1 .. n, j > i + 1 PROVE run.events[j].domain # d
    <3>1. j - 1 \in 1 .. n - 1 /\ j - 1 > i /\ (j - 1) + 1 = j
      BY <1>3, <2>1, <2>2
    <3>2. j - 1 \in 1 .. Len(run'.events)
      BY <1>3, <3>1
    <3>3. run'.events[j - 1].domain # d
      BY <1>5, <3>1, <3>2 DEF LastOn
    <3>4. run'.events[j - 1] = run.events[(j - 1) + 1]
      BY <1>3, <3>1
    <3> QED
      BY <3>1, <3>3, <3>4
  <2>3. LastOn(d, i + 1)
    BY <1>5, <2>1, <2>2 DEF LastOn, n
  <2> QED
    BY <1>4, <2>1, <2>3 DEF Awaited, n
<1>6. ASSUME ~Pending(d)' PROVE Reflected(d)'
  <2>1. ASSUME NEW j \in 1 .. n, j > 1 PROVE run.events[j].domain # d
    <3>1. j - 1 \in 1 .. n - 1 /\ (j - 1) + 1 = j
      BY <1>3, <2>1
    <3> QED
      BY <1>3, <1>6, <3>1 DEF Pending
  <2>2. CASE e.domain = d
    <3>1. LastOn(d, 1) /\ 1 \in 1 .. n
      BY <1>3, <2>1, <2>2 DEF LastOn, n
    <3>2. e.severity = verdict[d]
      BY <1>3, <1>4, <3>1 DEF Awaited, n
    <3> QED
      BY <1>1, <1>2, <2>2, <3>2, ReportIsReflected
  <2>3. CASE e.domain # d
    <3>1. \A j \in 1 .. n : j = 1 \/ j > 1
      BY <1>3
    <3>2. ~Pending(d)
      BY <1>3, <2>1, <2>3, <3>1 DEF Pending, n
    <3>3. docket'[d] = docket[d] /\ Reflected(d)
      BY <1>2, <1>4, <2>3, <3>2 DEF Awaited
    <3> QED
      BY <1>4, <3>3 DEF Reflected, Triage!On
  <2> QED
    BY <2>2, <2>3
<1> QED
  BY <1>5, <1>6 DEF Awaited

LEMMA WordStep == TypeOK /\ NothingYet /\ OnTheWay /\ [Next]_vars => OnTheWay'
<1> SUFFICES ASSUME TypeOK, NothingYet, OnTheWay, [Next]_vars PROVE OnTheWay'
  OBVIOUS
<1>1. ASSUME verdict' = NoVerdicts PROVE OnTheWay'
  BY <1>1 DEF OnTheWay, NoVerdicts
<1>2. ASSUME UNCHANGED <<docket, verdict>>, run'.events = run.events PROVE OnTheWay'
  BY <1>2 DEF OnTheWay, Awaited, LastOn, Pending, Reflected, Triage!On
<1>3. ASSUME NEW scope \in SUBSET Domains, NEW twist \in BOOLEAN, BeginRun(scope, twist)
      PROVE  OnTheWay'
  BY <1>1, <1>3 DEF BeginRun
<1>4. CASE MovesOn
  BY <1>2, <1>4, RunMovesOn
<1>5. CASE IngestFails \/ Die
  BY <1>1, <1>5 DEF IngestFails, Die
<1>6. CASE EndRun
  BY <1>2, <1>6, NothingRunning DEF EndRun
<1>7. ASSUME NEW d \in Domains, AddWhitelist(d) \/ RemoveWhitelist(d) \/ PostWhitelist(d)
      PROVE  OnTheWay'
  BY <1>2, <1>7 DEF AddWhitelist, RemoveWhitelist, PostWhitelist
<1>8. ASSUME NEW d \in Domains, Judge(d) \/ CloseWhitelisted(d)
      PROVE  OnTheWay'
  <2>1. \A c \in Domains : c # d => docket'[c] = docket[c]
    BY <1>8, JudgementsTyped
  <2>2. verdict' = [verdict EXCEPT ![d] = NoVerdict] /\ UNCHANGED run
    BY <1>8 DEF Judge, CloseWhitelisted, Judged
  <2>3. /\ verdict'[d] = NoVerdict
        /\ \A c \in Domains : c # d => verdict'[c] = verdict[c]
    BY <2>2 DEF TypeOK
  <2>4. ASSUME NEW c \in Domains, verdict'[c] # NoVerdict PROVE Awaited(c)'
    <3>1. c # d /\ Awaited(c)
      BY <2>3, <2>4 DEF OnTheWay
    <3> QED
      BY <2>1, <2>2, <2>3, <3>1 DEF Awaited, LastOn, Pending, Reflected, Triage!On
  <2> QED
    BY <2>4 DEF OnTheWay
<1>9. CASE UNCHANGED vars
  BY <1>2, <1>9 DEF vars
<1> QED
  BY <1>3, <1>4, <1>5, <1>6, <1>7, <1>8, <1>9, ScanSteps, CollectingKeepsWord,
     IngestingKeepsWord DEF Next, People

LEMMA WordsHold == Spec => [](TypeOK /\ Listings /\ OnTheWay)
<1>1. TypeOK /\ Listings /\ OnTheWay /\ [Next]_vars => OnTheWay'
  BY WordStep DEF Listings
<1> QED
  BY <1>1, OnTheWayBegins, ListingsHold, PTL DEF Spec

(* When a run has ended, its last word on each domain is in the case store, *)
(* whatever the runs before it and the analysts beside it did.              *)
THEOREM LastWordIsKept == Spec => []VerdictsReachCases
<1>1. TypeOK /\ Listings /\ OnTheWay => VerdictsReachCases
  <2> SUFFICES ASSUME TypeOK, Listings, OnTheWay, run.at = "idle",
                      NEW d \in Domains, verdict[d] # NoVerdict
               PROVE  Reflected(d)
    BY DEF VerdictsReachCases
  <2>1. run.events = <<>> /\ Awaited(d)
    BY DEF Listings, NothingYet, OnTheWay
  <2> QED
    BY <2>1 DEF Awaited, Pending
<1> QED
  BY <1>1, WordsHold, PTL

-----------------------------------------------------------------------------
(* The promise.  The run and the people together do to the cases only what  *)
(* CaseTriage promises, one request at a time: its reports are the          *)
(* classifier's verdicts, its ratings the analysts'.                        *)

LEMMA StepIsTriage ==
    TypeOK /\ RatedByRules /\ [Next]_vars => [Triage!Next]_(Triage!vars)
<1> SUFFICES ASSUME TypeOK, RatedByRules, [Next]_vars
             PROVE  Triage!Next \/ UNCHANGED docket
  BY DEF Triage!vars
<1>1. ASSUME NEW d \in Domains, Triage!Promised(d) PROVE Triage!Next
  BY <1>1 DEF Triage!Next
<1>2. CASE Ingest
  <2> DEFINE e == Head(run.events)
  <2>1. e \in Event /\ Reported(e.domain, e.severity)
    BY <1>2, HeadIngested
  <2>2. e.severity \in Verdicts \cup {"MEDIUM"}
    <3>1. run.events \in Seq(Event) /\ run.events # <<>>
      BY <1>2, EventsHandedOn
    <3>2. 1 \in 1 .. Len(run.events) /\ e = run.events[1]
      BY <3>1
    <3> QED
      BY <3>2 DEF RatedByRules
  <2>3. e.domain \in Domains
    BY <2>1 DEF Event
  <2> HIDE DEF e
  <2>4. CASE Ignored(e.domain, e.severity)
    BY <2>4 DEF Ignored
  <2>5. CASE ~Ignored(e.domain, e.severity)
    BY <1>1, <2>1, <2>2, <2>3, <2>5 DEF Reported, Triage!Promised
  <2> QED
    BY <2>4, <2>5
<1>3. ASSUME NEW d \in Domains, Judge(d) PROVE Triage!Next
  BY <1>1, <1>3 DEF Judge, Triage!Promised
<1>4. ASSUME NEW d \in Domains, CloseWhitelisted(d) PROVE Triage!Next
  BY <1>1, <1>4 DEF CloseWhitelisted, Triage!Promised
<1> QED
  BY <1>2, <1>3, <1>4, DocketStays

(* ScanFlow's case store is the one that CaseManager implements: every step *)
(* is a promised step of CaseTriage, or none.                               *)
THEOREM CasesAsPromised == Spec => Triage!Spec
<1>1. Init => Triage!Init
  BY DEF Init, Triage!Init
<1>2. TypeOK /\ Listings /\ [Next]_vars => [Triage!Next]_(Triage!vars)
  BY StepIsTriage DEF Listings
<1> QED
  BY <1>1, <1>2, ListingsHold, PTL DEF Spec, Triage!Spec

-----------------------------------------------------------------------------
Listing == INSTANCE Whitelist WITH list <- whitelist, lost <- FALSE

(* ScanFlow's whitelist is the one that WhitelistStore implements: people   *)
(* add to it or remove from it, one domain at a time, and no run changes it.*)
THEOREM WhitelistAsPromised == Spec => Listing!Spec
<1>1. Init => Listing!Init
  BY DEF Init, Listing!Init
<1>2. ASSUME [Next]_vars PROVE [Listing!Next]_(Listing!vars)
  <2>1. ASSUME whitelist' = whitelist PROVE UNCHANGED Listing!vars
    BY <2>1 DEF Listing!vars
  <2>2. CASE Scan
    <3>1. whitelist' = whitelist
      BY <2>2 DEF Scan, BeginRun, ReadWhitelist, Skip, CheckUnanswered, Check,
                  Collected, BeginTwist, Discover, Publish, Ingest, IngestFails,
                  EndRun, Die
    <3>2. QED
      BY <2>1, <3>1
  <2>3. ASSUME NEW d \in Domains, AddWhitelist(d) \/ PostWhitelist(d)
        PROVE  Listing!Next
    <3>1. Listing!Add(d)
      BY <2>3 DEF AddWhitelist, PostWhitelist, Listed, Listing!Add
    <3>2. QED
      BY <3>1 DEF Listing!Next
  <2>4. ASSUME NEW d \in Domains, RemoveWhitelist(d) PROVE Listing!Next
    <3>1. Listing!Remove(d)
      BY <2>4 DEF RemoveWhitelist, Listing!Remove
    <3>2. QED
      BY <3>1 DEF Listing!Next
  <2>5. ASSUME NEW d \in Domains, CloseWhitelisted(d) \/ Judge(d)
        PROVE  whitelist' = whitelist
    BY <2>5 DEF CloseWhitelisted, Judge
  <2>6. CASE UNCHANGED vars
    BY <2>1, <2>6 DEF vars
  <2>7. QED
    BY <1>2, <2>1, <2>2, <2>3, <2>4, <2>5, <2>6 DEF Next, People
<1>3. QED
  BY <1>1, <1>2, PTL DEF Spec, Listing!Spec

-----------------------------------------------------------------------------
(* The rules and the run together.  No rule rates a domain above HIGH, so   *)
(* no run brings back a case that was closed at HIGH or above.              *)

HighClosedStaysClosed ==
    [][\A d \in Domains :
          docket[d].state = "closed" /\ docket[d].severity \in {"HIGH", "CRITICAL"}
          /\ run' # run => docket'[d].state = "closed"]_vars

LEMMA RulesStopAtHigh == \A s : SeverityOf(Category(s)) \in {"LOW", "MEDIUM", "HIGH"}
  BY DEF SeverityOf

(* If the verdicts are those of the decision list, an analyst who closes a  *)
(* case at HIGH has the last word: only an analyst reopens it.              *)
THEOREM ClosedAtHighIsFinal ==
    ASSUME Verdicts \subseteq {SeverityOf(Category(s)) : s \in Facts}
    PROVE  Spec => HighClosedStaysClosed
<1> DEFINE Stays ==
        \A d \in Domains :
          docket[d].state = "closed" /\ docket[d].severity \in {"HIGH", "CRITICAL"}
          /\ run' # run => docket'[d].state = "closed"
<1>1. Verdicts \cup {"MEDIUM"} \subseteq {"LOW", "MEDIUM", "HIGH"}
  BY RulesStopAtHigh
<1>2. ASSUME NEW reported \in {"LOW", "MEDIUM", "HIGH"}, NEW recorded \in {"HIGH", "CRITICAL"}
      PROVE  ~Escalates(reported, recorded)
  BY DEF Escalates, ReportedRank, RecordedRank, SeverityRank, Severities
<1>3. ASSUME TypeOK, Listings, [Next]_vars, NEW d \in Domains,
             docket[d].state = "closed", docket[d].severity \in {"HIGH", "CRITICAL"},
             run' # run
      PROVE  docket'[d].state = "closed"
  <2>1. CASE docket'[d].state = "open"
    <3> DEFINE e == Head(run.events)
    <3>1. Ingest /\ Escalates(e.severity, docket[d].severity)
      BY <1>3, <2>1, ReopenedByIngest
    <3>2. run.events \in Seq(Event) /\ run.events # <<>>
      BY <1>3, <3>1, EventsHandedOn
    <3>3. 1 \in 1 .. Len(run.events) /\ e = run.events[1]
      BY <3>2
    <3>4. e.severity \in {"LOW", "MEDIUM", "HIGH"}
      BY <1>1, <1>3, <3>3 DEF Listings, RatedByRules
    <3> HIDE DEF e
    <3> QED
      BY <1>2, <1>3, <3>1, <3>4
  <2>2. CASE docket'[d].state # "open"
    <3>1. docket'[d].state # "absent"
      <4>1. CASE Ingest
        <5> DEFINE e == Head(run.events)
        <5>1. /\ \A c \in Domains : c # e.domain => docket'[c] = docket[c]
              /\ Reported(e.domain, e.severity)
              /\ docket \in [Domains -> Triage!Entry] /\ docket[d] \in Triage!Entry
          BY <1>3, <4>1, HeadIngested DEF TypeOK
        <5> HIDE DEF e
        <5>2. CASE e.domain # d \/ Ignored(e.domain, e.severity)
          BY <1>3, <5>1, <5>2 DEF Ignored
        <5>3. CASE e.domain = d /\ Triage!Open(d, e.severity)
          BY <1>3, <5>3 DEF Triage!Open
        <5>4. CASE e.domain = d /\ Triage!Rate(d, e.severity)
          BY <5>1, <5>4 DEF Triage!Rate, Triage!Update, Triage!Entry
        <5>5. CASE e.domain = d /\ Triage!Propose(d, e.severity)
          BY <5>1, <5>5 DEF Triage!Propose, Triage!Update, Triage!Entry
        <5> QED
          BY <5>1, <5>2, <5>3, <5>4, <5>5 DEF Reported
      <4>2. CASE ~Ingest
        <5>1. \A c \in Domains : ~Judge(c) /\ ~CloseWhitelisted(c)
          BY <1>3 DEF Judge, CloseWhitelisted
        <5> QED
          BY <1>3, <4>2, <5>1, DocketStays
      <4> QED
        BY <4>1, <4>2
    <3>2. docket'[d].state \in {"absent", "open", "closed"}
      <4>1. TypeOK'
        BY <1>3, ScanStepTyped
      <4> QED
        BY <4>1 DEF TypeOK, Triage!Entry
    <3> QED
      BY <2>2, <3>1, <3>2
  <2> QED
    BY <2>1, <2>2
<1>4. TypeOK /\ Listings /\ [Next]_vars => [Stays]_vars
  BY <1>3
<1> QED
  BY <1>4, ListingsHold, PTL DEF Spec, HighClosedStaysClosed
=============================================================================
