SPECIFICATION OpsSpec
CONSTANTS
  Port <- TwoPorts
  DefaultPort = 22
  Hosts <- OneHost
  Firewalls <- SomeFirewall
  BlindDiscovery = FALSE
  MaxRuns = 0
  MaxFaults = 1
  MaxTasks = 1
INVARIANT FirewallKeepsSsh
CHECK_DEADLOCK FALSE
