SPECIFICATION Spec
CONSTANTS
  Newline = nl
  Others = {a, b}
  MaxBytes = 5
INVARIANT LinesDelivered
CHECK_DEADLOCK FALSE
