SPECIFICATION Spec
CONSTANTS
  target = target
  variant = variant
  Domains <- BothDomains
  Targets <- OnlyTarget
  Variants <- OnlyVariant
  Verdicts = {"HIGH"}
  Chosen = {"MEDIUM"}
INVARIANTS WhitelistRespected VerdictsReachCases
