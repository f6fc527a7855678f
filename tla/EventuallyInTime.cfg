SPECIFICATION FairSpec
CONSTANTS
  Attempts = {a1, a2}
  Final = final
INVARIANT SuccessInTimeCounts
CHECK_DEADLOCK FALSE
