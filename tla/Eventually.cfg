SPECIFICATION FairSpec
CONSTANTS
  Attempts = {a1, a2, a3}
  Final = final
INVARIANTS
  TypeOK
  AttemptsDoNotPileUp
  FinalCallDecides
PROPERTIES
  RetrySpec
  Returns
CHECK_DEADLOCK FALSE
