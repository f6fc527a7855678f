SPECIFICATION Spec
CONSTANTS
  Callers = {c1}
  MaxReloads = 1
INVARIANT NilMeansActive
