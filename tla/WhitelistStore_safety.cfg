SPECIFICATION Spec
CONSTANTS
  Domains = {d1, d2}
  Handlers = {h1, h2}
  d1 = d1
  d2 = d2
  h1 = h1
  h2 = h2
CHECK_DEADLOCK FALSE
SYMMETRY Symmetry
INVARIANTS ListRecoverable AcknowledgedInEffect TxtInSync
PROPERTIES ImplementsWhitelist
