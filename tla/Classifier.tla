----------------------------- MODULE Classifier -----------------------------
(***************************************************************************)
(* The decision list of services/classifier.py (classify_variant), with    *)
(* the score of hidden elements it reads (shared/utils.py) and the         *)
(* severity the orchestrator gives each category, over a domain that       *)
(* changes from scan to scan.                                              *)
(***************************************************************************)
EXTENDS Severity

CONSTANTS Ages,       \* ages in days
          Findings    \* kinds of hidden elements a page may have

AllFindings == {"form", "iframe", "js", "redirect", "inputs", "pixels", "div",
                "form_div", "staged_comment", "base64"}

ASSUME ClassifierAssumption == Ages \subseteq Nat /\ Findings \subseteq AllFindings

VARIABLES seen        \* what the sources report about the domain

(* AGE_THIRD_PARTY_DAYS, and the two limits of _domain_age and of the page  *)
(* lengths; WHOIS without a creation date, or with one in the future, gives *)
(* no age.                                                                  *)
AgeThirdParty == 540
OldEnough     == 730
UnknownAge    == -1

(* `longest' is the longest page, of any status; `found' the hidden         *)
(* elements of the page that scores highest; `updated' that the WHOIS       *)
(* record changed within the last 120 days.                                 *)
Facts == [active     : BOOLEAN,
          longest    : {"minimal", "moderate", "substantial"},
          found      : SUBSET Findings,
          nameserver : {"parking", "marketplace", "other"},
          address    : {"none", "parking", "other"},
          mail       : {"none", "parking", "privacy", "forwarding", "other"},
          enterprise : BOOLEAN,
          age        : Ages \cup {UnknownAge},
          updated    : BOOLEAN]

-----------------------------------------------------------------------------
(* detect_hidden_elements, the score.  A hidden div counts more if one of   *)
(* them holds a form.                                                       *)
Points(f, kind, weight) == IF kind \in f THEN weight ELSE 0

ScoreOf(f) == Points(f, "form", 30) + Points(f, "iframe", 25) + Points(f, "js", 20)
              + Points(f, "redirect", 20) + Points(f, "inputs", 15)
              + Points(f, "pixels", 10) + Points(f, "staged_comment", 15)
              + Points(f, "base64", 15)
              + (IF "form_div" \in f THEN 25 ELSE Points(f, "div", 10))

DivsFirst(f) ==      \* mutant of Risk
    IF "div" \in f THEN ScoreOf(f \ {"form_div"}) ELSE ScoreOf(f)

Risk(f) == IF ScoreOf(f) > 100 THEN 100 ELSE ScoreOf(f)

-----------------------------------------------------------------------------
Known(s) == s.age # UnknownAge

AgedIfUnknown(s) == ~Known(s) \/ s.age > AgeThirdParty      \* mutant of Aged

Aged(s) == Known(s) /\ s.age > AgeThirdParty

Recent(s)       == Known(s) /\ s.age < AgeThirdParty
Reregistered(s) == Known(s) /\ s.age > OldEnough /\ s.updated
HasMail(s)      == s.mail # "none"
MailOnly(s)     == HasMail(s) /\ s.address = "none"

Parked(s)  == \/ s.active /\ s.longest = "minimal"
              \/ s.nameserver = "parking"
              \/ s.address = "parking"
ForSale(s) == s.nameserver = "marketplace" \/ s.mail = "parking"

(* A front page with mail behind it, on a recent domain, is not taken for a *)
(* third party's site.                                                      *)
Established(s) == s.active /\ s.longest = "substantial" /\ ~(Recent(s) /\ HasMail(s))

(* Weak signals are no alarm on a domain that is older than the campaign. *)
SuspiciousIfAged(s) == IF Aged(s) THEN "suspicious" ELSE "needs_review"  \* mutant of Suspicious

Suspicious(s) == IF Aged(s) THEN "needs_review" ELSE "suspicious"

ContentBeforeHidden(s) ==      \* mutant of Category
    IF Parked(s) THEN "parking"
    ELSE IF ForSale(s) THEN "for_sale"
    ELSE IF s.enterprise \/ Established(s) THEN "legitimate_probable"
    ELSE IF Risk(s.found) >= 30 \/ MailOnly(s) THEN Suspicious(s)
    ELSE "needs_review"

(* classify_variant: the first rule that applies. *)
Category(s) ==
    IF Parked(s) THEN "parking"
    ELSE IF ForSale(s) THEN "for_sale"
    ELSE IF Risk(s.found) >= 30 THEN Suspicious(s)
    ELSE IF s.enterprise \/ Established(s) THEN "legitimate_probable"
    ELSE IF MailOnly(s) \/ s.mail \in {"privacy", "forwarding"} THEN Suspicious(s)
    ELSE IF Risk(s.found) >= 15 \/ Reregistered(s) THEN "needs_review"
    ELSE IF Aged(s) THEN "likely_third_party"
    ELSE "needs_review"

(* CLASSIFICATION_SEVERITY. *)
SeverityOf(category) == IF category = "suspicious" THEN "HIGH"
                        ELSE IF category = "needs_review" THEN "MEDIUM"
                        ELSE "LOW"

Rank(s) == SeverityRank[SeverityOf(Category(s))]

-----------------------------------------------------------------------------
(* The domain between two scans. *)
FirstSeen == seen \in {s \in Facts : s.age # UnknownAge /\ ~s.updated /\ s.found = {}}

(* An element that is hidden from the visitor appears, or goes. *)
Hide(kind)   == seen' = [seen EXCEPT !.found = @ \cup {kind}]
Reveal(kind) == seen' = [seen EXCEPT !.found = @ \ {kind}]

(* Time passes: the domain is older, and so is its last update. *)
GrowOlder(age) ==
    /\ Known(seen)
    /\ age > seen.age
    /\ \E updated \in {seen.updated, FALSE} :
          seen' = [seen EXCEPT !.age = age, !.updated = updated]

(* The record is renewed, or changes hands. *)
Renew == Known(seen) /\ seen' = [seen EXCEPT !.updated = TRUE]

(* WHOIS does not answer, or answers again. *)
LoseWhois == seen' = [seen EXCEPT !.age = UnknownAge, !.updated = FALSE]

FindWhois(age) == ~Known(seen) /\ seen' = [seen EXCEPT !.age = age]

Change == \/ \E kind \in Findings : Hide(kind) \/ Reveal(kind)
          \/ \E mail \in {"none", "parking", "privacy", "forwarding", "other"} :
                seen' = [seen EXCEPT !.mail = mail]
          \/ \E active \in BOOLEAN : seen' = [seen EXCEPT !.active = active]

SeenNext == \/ Change
            \/ \E age \in Ages : GrowOlder(age) \/ FindWhois(age)
            \/ Renew \/ LoseWhois

SeenSpec == FirstSeen /\ [][SeenNext]_seen

-----------------------------------------------------------------------------
(* The type of the state. *)
SeenOK == seen \in Facts

(* "A site with hidden forms is suspicious even if it has substantial       *)
(* content" (comment on the rule): a hidden form alone, or any two stronger *)
(* signs, keep a site that is neither parked nor for sale from every        *)
(* category that needs no review, and make it suspicious unless the domain  *)
(* is older than the campaign.                                              *)
ArmedIsNotExonerated ==
    /\ ~Parked(seen) /\ ~ForSale(seen)
    /\ \/ "form" \in seen.found
       \/ {"iframe", "form_div"} \subseteq seen.found
       \/ {"js", "redirect"} \subseteq seen.found
    => \/ Category(seen) = "suspicious"
       \/ Category(seen) = "needs_review" /\ Aged(seen)

(* Hiding more never makes a domain look more harmless, whatever rule each  *)
(* of the two scans ends at.                                                *)
HidingNeverCalms ==
    [][seen'.found # seen.found /\ seen.found \subseteq seen'.found =>
          Rank(seen') >= Rank(seen)]_seen

(* Growing older never raises the alarm by itself, so that re-scans do not  *)
(* bring back what was closed - except that a domain of two years whose     *)
(* record changed lately is no longer cleared automatically.                *)
AgeingNeverAlarms ==
    [][Known(seen) /\ seen'.age > seen.age =>
          Rank(seen') <= Rank(seen) \/ (Reregistered(seen') /\ ~Reregistered(seen))]_seen

(* A failing WHOIS makes a domain look more harmless in one case only: a    *)
(* recent domain with mail behind a substantial site, which then counts as  *)
(* a third party's.  In every other case the alarm stays or grows.          *)
SilentWhoisCalmsOnlyFronts ==
    [][Known(seen) /\ ~Known(seen') =>
          \/ Rank(seen') >= Rank(seen)
          \/ /\ Recent(seen) /\ HasMail(seen)
             /\ seen.active /\ seen.longest = "substantial"]_seen
=============================================================================
