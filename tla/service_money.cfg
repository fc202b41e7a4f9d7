SPECIFICATION Spec
CONSTANTS
    wa = wa
    wb = wb
    wc = wc
    alice = alice
    bob = bob
    carol = carol
    Spellings <- MCSpellings
    Upper <- MCUpper
    Price <- MCPrice
    Wallets <- MCThreeWallets
    Users <- MCUsers
    KnownUsers <- MCKnownUsers
    Requests = {r1, r2, r3}
    Archiver = archiver
    Free = free
    Null = null
    Bodies <- MoneyBodies
    Seed <- SeedOpen
    Concurrency = 3
    Rounds = 0
SYMMETRY AnyOrder
PROPERTIES
    ImplementsBank
INVARIANTS
    LedgerExplainsBalance
    OnlyOwnersMoveMoney
    RejectedChangesNothing
    AcceptedIsCarriedOut
