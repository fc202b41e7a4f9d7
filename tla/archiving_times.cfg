SPECIFICATION Spec
CONSTANTS
    Wallets = {w1, w2}
    Hour = 2
    CheckPeriod = 3
    Behind = 1
    TxTime = 1
    Cap = 7
    MaxChanges = 5
INVARIANTS
    StaleTypeOK
PROPERTIES
    QuietBeforeArchived
    EmptyIsArchived
