SPECIFICATION Spec
CONSTANTS
    alice = alice
    bob = bob
    mine = mine
    lost = lost
    User <- Users
    Key <- Keys
    Own <- Mine
    InitialAccounts <- Accounts
    InitialRoots <- Roots
    MaxCommands = 2
    MaxFaults = 1
INVARIANTS TypeOK RemovedKeysBackedUp RecordsAgree
PROPERTIES RootLosesLast AccountsOnlyGain LastWayIn
CHECK_DEADLOCK FALSE
