SPECIFICATION Spec
CONSTANTS
  Domains = {d1, d2}
  Clients = {acme}
  Handlers = {h1, h2}
  d1 = d1
  d2 = d2
  acme = acme
  h1 = h1
  h2 = h2
CHECK_DEADLOCK FALSE
SYMMETRY Symmetry
INVARIANTS FeedParses
PROPERTIES FeedReplacedWhole ImplementsList
