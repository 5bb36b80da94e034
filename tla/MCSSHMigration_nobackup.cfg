SPECIFICATION Spec
CONSTANTS
  Port <- TwoPorts
  DefaultPort = 22
  Hosts <- SomeHosts
  Firewalls <- AnyFirewall
  BlindDiscovery = FALSE
  MaxRuns = 1
  MaxFaults = 1
INVARIANT InterruptedIsRecoverable
CHECK_DEADLOCK FALSE
