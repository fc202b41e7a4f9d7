SPECIFICATION FairPooledSpec
CONSTANTS
    wa = wa
    wb = wb
    wc = wc
    wd = wd
    we = we
    alice = alice
    bob = bob
    carol = carol
    Spellings <- MCSpellings
    Upper <- MCUpper
    Price <- MCPrice
    Wallets <- MCFiveWallets
    Users <- MCUsers
    KnownUsers <- MCKnownUsers
    Requests = {r1, r2}
    Archiver = archiver
    Free = free
    Null = null
    Bodies <- CrossingBodies
    Seed <- SeedCrossing
    Concurrency = 2
    Rounds = 1
    MaxConns = 3
INVARIANTS
    TypeOK
    NonNegativeBalances
    ArchivedIsEmpty
    CommittedIsAnnounced
    WritersHoldTheirRows
    LockHoldersAreServed
PROPERTIES
    
    ImplementsPool
    EveryRequestEnds
    ArchivingEnds
