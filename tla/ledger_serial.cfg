SPECIFICATION Spec
CONSTANTS
    wa = wa
    wb = wb
    wc = wc
    alice = alice
    bob = bob
    carol = carol
    Spellings <- MCSpellings
    Upper <- MCUpper
    Price <- MCPrice
    Wallets <- MCWallets
    Users <- MCUsers
    KnownUsers <- MCKnownUsers
    Requests = {r1, r2, r3}
    Archiver = archiver
    Free = free
    Null = null
    Bodies <- SerialBodies
    Seed <- SeedRich
    Concurrency = 1
    Rounds = 1
SYMMETRY AnyOrder
INVARIANTS
    LedgerExplainsBalance
PROPERTIES
    ImplementsBank
    CurrencyChangeKeepsValue
