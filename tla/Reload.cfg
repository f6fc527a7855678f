SPECIFICATION FairSpec
CONSTANTS
  Callers = {c1, c2}
  MaxReloads = 1
INVARIANTS
  NilMeansActiveWhenQuiet
  WorthWaiting
PROPERTY Returns
