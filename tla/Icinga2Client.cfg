SPECIFICATION FairSpec
CONSTANTS
  Callers = {c1}
  MaxAttempts = 4
INVARIANTS
  WholeBody
  BodiesClosed
  ReportsHonestly
PROPERTIES
  RequestSpec
  Returns
