SPECIFICATION UtilsSpec
CONSTANTS
  Newline = nl
  Others = {a, b}
  MaxBytes = 5
  InputLength = 4
  MaxOutput = 3
  PipeSize = 1
  Calls = {c1, c2, c3}
  Slash = Slash
  Dash = Dash
  TestNames <- SomeTestNames
  Hints <- SomeHints
  T = T
  S = S
  Callers = {c1, c2, c3, c4}
  CACallers = {c1, c2}
  NumCPU = 2
  FailedResults = {2}
INVARIANTS
  OneCallPerLine
  OutputComplete
  NilMeansDone
  Unique
  Verifies
  OwnKeys
PROPERTIES
  ExecReturns
  CertificatesReturn
CHECK_DEADLOCK FALSE
