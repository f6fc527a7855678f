SPECIFICATION ITFairSpec
CONSTANTS
  None = None
  Main = main
  Goroutines = {main, t1, t2}
  Instances = {i1, i2}
  Pools = {"redis"}
  Servers = {"mysql"}
  MaxFaults = 1
PROPERTY Ends
