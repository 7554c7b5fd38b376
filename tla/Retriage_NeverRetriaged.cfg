SPECIFICATION ResolvedSpec
CONSTANTS
  target = target
  variant = variant
  Domains <- BothDomains
  Targets <- OnlyTarget
  Variants <- OnlyVariant
  Verdicts = {"HIGH"}
  Chosen = {}
PROPERTIES NeverRetriaged
