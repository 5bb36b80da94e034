SPECIFICATION Spec
CONSTANTS
    BasePhases <- Base
    DefaultPhases <- Default
    LegacyOrders <- Legacy
    Optional <- Declinable
    Commands <- Reconfigurable
    Spoils <- Takes
    Refusing <- Refusers
    MaxRequests = 2
    MaxFaults = 1
PROPERTY ResumeKeepsScope
CHECK_DEADLOCK FALSE
