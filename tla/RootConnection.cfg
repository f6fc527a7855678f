SPECIFICATION Spec
CONSTANTS
  Goroutines = {g1, g2, g3}
  Kinds = {"mysql", "postgresql 12", "postgresql 13"}
  MaxDatabases = 3
  MaxFaults = 2
SYMMETRY Symmetry
INVARIANTS
  TypeOK
  HeldIsComplete
  Tracked
  PanicsAreFaults
PROPERTY LeaseSpec
