SPECIFICATION Spec
CONSTANTS
  Cases = {c1}
  Requests = {r1,r2}
  Reported = {"unrated", "MEDIUM", "HIGH"}
  Chosen = {"MEDIUM"}
  c1 = c1
  r1 = r1
  r2 = r2
SYMMETRY RequestSymmetry
INVARIANTS TypeOK JudgementStands ProposalOutranks SeverityMatchesScan HistoryMatchesRow WhitelistedOnlyAfterPost
PROPERTIES TriageUndoneOnlyByEscalation OverrideEndsOnlyByRelease ImplementsTriage
