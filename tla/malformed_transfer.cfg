SPECIFICATION Spec
CONSTANTS
    wa = wa
    wb = wb
    wc = wc
    alice = alice
    bob = bob
    carol = carol
    Spellings <- MCSpellings
    Upper <- MCUpper
    Price <- MCPrice
    Wallets <- MCWallets
    Users <- MCUsers
    KnownUsers <- MCKnownUsers
    Requests = {r1}
    Archiver = archiver
    Free = free
    Null = null
    Bodies <- MalformedBodies
    Seed <- SeedRich
    Concurrency = 1
    Rounds = 0
INVARIANTS
    RejectedChangesNothing
