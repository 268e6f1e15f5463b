SPECIFICATION FairSpec
CONSTANTS
  Slugs = {a, b}
  MaxChanges = 2
  MaxOutages = 1
  MaxRestarts = 1
  MaxOut = 2
INVARIANTS NoGhosts
PROPERTIES Converges
CHECK_DEADLOCK FALSE
