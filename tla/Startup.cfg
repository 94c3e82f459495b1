SPECIFICATION StartupSpec
CONSTANTS
  Variants = {"boost", "ipc", "haproxy"}
  MaxRuns = 2
  MaxStarts <- MCMaxStarts
INVARIANTS
  StartupTypeOK
  SharesWithCoordinator
PROPERTIES
  EveryStartSettles
  LateOpenerServes
CHECK_DEADLOCK FALSE
