SPECIFICATION FairSpec
CONSTANTS
    BasePhases <- Base
    DefaultPhases <- Default
    LegacyOrders <- Legacy
    Optional <- Declinable
    Commands <- Reconfigurable
    Spoils <- Takes
    Refusing <- Refusers
    MaxRequests = 2
    MaxFaults = 2
INVARIANTS RecoveryComesFirst FinishedMeansVerified DoneIsTrue SetupInv
PROPERTIES SkippedStays ScopeKept 
CHECK_DEADLOCK FALSE
