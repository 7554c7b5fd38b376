SPECIFICATION Spec
CONSTANTS
  Runs = {r1,r2}
  Feeds <- MCFeeds
  Legits = 1
  StaleTicks = 1
  MaxTicks = 3
  r1 = r1
  r2 = r2
PROPERTY FreshRunBlocks
