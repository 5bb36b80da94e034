SPECIFICATION OpsSpec
CONSTANTS
  Port <- TwoPorts
  DefaultPort = 22
  Hosts <- OneHost
  Firewalls <- SomeFirewall
  BlindDiscovery = FALSE
  MaxRuns = 1
  MaxFaults = 2
  MaxTasks = 2
INVARIANTS
  OpsTypeOK
  OpsInv
  FirewallPhaseTrue
  PhasesAgree
PROPERTIES
  EnabledWithRules
  UnmanagedKept
CHECK_DEADLOCK FALSE
