SPECIFICATION FairSpec
CONSTANTS
  a = a
  b = b
  c = c
  Installer <- Installers
  None = None
  Foreign = Foreign
  MaxUpdates = 3
  MaxFaults = 2
INVARIANTS
  CommandFindsRelease
  AloneActivatesOwn
PROPERTY
  InstallConverges
CHECK_DEADLOCK FALSE
