SPECIFICATION FairSpec
CONSTANTS
  Hosts <- AllHosts
  Sizes <- SomeSizes
  MaxFaults = 2
INVARIANTS
  TypeOK
  ReserveKept
  FstabNamesSwap
  OrphanIsCutOff
  OthersKept
PROPERTIES
  ForeignUntouched
  Converges
CHECK_DEADLOCK FALSE
