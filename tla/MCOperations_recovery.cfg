SPECIFICATION OpsSpec
CONSTANTS
  Port <- TwoPorts
  DefaultPort = 22
  Hosts <- OneHost
  Firewalls <- SomeFirewall
  BlindDiscovery = FALSE
  MaxRuns = 1
  MaxFaults = 1
  MaxTasks = 1
INVARIANT RecoveryKeepsSsh
CHECK_DEADLOCK FALSE
