SPECIFICATION FairSpec
CONSTANTS
  Port <- TwoPorts
  DefaultPort = 22
  Hosts <- MixedHosts
  Firewalls <- FewFirewalls
  BlindDiscovery = TRUE
  MaxRuns = 1
  MaxFaults = 2
INVARIANTS
  IInv
PROPERTIES RunEnds Recoverable
CHECK_DEADLOCK FALSE
