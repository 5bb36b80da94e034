SPECIFICATION Spec
CONSTANTS
  Port <- ThreePorts
  DefaultPort = 22
  Hosts <- SomeHosts
  Firewalls <- SomeFirewalls
  BlindDiscovery = FALSE
  MaxRuns = 2
  MaxFaults = 2
INVARIANTS
  NoLockout
  SettledUnlessInterrupted
  DoneAgrees
  RolledBackAgrees
  PendingIsComplete
  OldPortsKeptUntilConfirmed
PROPERTIES
  RuleDeletedOnlyWhenUnused
  IsTransaction
CHECK_DEADLOCK FALSE
