SPECIFICATION Spec
CONSTANTS
    alice = alice
    bob = bob
    mine = mine
    lost = lost
    User <- Users
    Key <- Keys
    Own <- Mine
    InitialAccounts <- Accounts
    InitialRoots <- Roots
    MaxCommands = 2
    MaxFaults = 1
PROPERTY CredentialsWaitForAdmin
CHECK_DEADLOCK FALSE
