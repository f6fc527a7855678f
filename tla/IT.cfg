SPECIFICATION ITSpec
CONSTANTS
  None = None
  Main = main
  Goroutines = {main, t1, t2}
  Instances = {i1, i2, i3, i4}
  Pools = {"redis", "icingadb"}
  Servers = {"mysql"}
  MaxFaults = 1
SYMMETRY Symmetry
INVARIANTS
  ITTypeOK
  SingleServer
  NoDoubleRemove
  InfrastructureOutlivesUse
  RedisOutlivesIcingaDb
  CleanupComplete
  ServerOutlivesIcingaDb
