SPECIFICATION FairSpec
CONSTANTS
    Handlers = {h1, h2, h3, h4}
    MaxConns = 2
    Concurrency = 4
INVARIANTS
    PoolTypeOK
    StallMeansTransactionsOnly
PROPERTIES
    OnlyAStallLasts
