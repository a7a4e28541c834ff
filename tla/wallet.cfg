SPECIFICATION Spec
CONSTANTS
    Procs = {"p", "q"}
    Gap = 2
    MaxIndex = 4
    MaxFaults = 2
INVARIANTS WalletWhole DiscoverExact
PROPERTIES SecretKept
CHECK_DEADLOCK FALSE
