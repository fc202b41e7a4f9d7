SPECIFICATION Spec
CONSTANTS
    wa = wa
    wb = wb
    wc = wc
    alice = alice
    bob = bob
    carol = carol
    Spellings <- MCSpellings
    Upper <- MCUpper
    Price <- MCPrice
    Wallets <- MCWallets
    Users <- MCUsers
    KnownUsers <- MCKnownUsers
    Requests = {r1, r2}
    Archiver = archiver
    Free = free
    Null = null
    Bodies <- DeleteBodies
    Seed <- SeedRich
    Concurrency = 2
    Rounds = 0
SYMMETRY AnyOrder
INVARIANTS
    DeletedIsEmpty
