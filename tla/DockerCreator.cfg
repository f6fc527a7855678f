SPECIFICATION Spec
CONSTANTS
  None = None
  Goroutines = {g1, g2}
  Instances = {i1, i2, i3}
  Pools = {"redis", "icinga2", "icingadb"}
  Servers = {}
  MaxFaults = 1
SYMMETRY Symmetry
INVARIANTS
  TypeOK
  RegisteredExists
  Tracked
  ConfigOutlivesContainer
  NoNameConflict
PROPERTY LeaseSpec
