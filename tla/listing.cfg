SPECIFICATION Spec
CONSTANTS
    r1 = r1
    r2 = r2
    r3 = r3
    Rows <- MCRows
    Facts <- MCFacts
    Keys <- MCKeys
    Queries <- MCQueries
    DefaultLimit = 2
    MaxChanges = 2
INVARIANTS
    ListingTypeOK
    PagesAreTheListing
    GrowthHidesNothing
