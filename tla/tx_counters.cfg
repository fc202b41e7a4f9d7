SPECIFICATION Spec
CONSTANTS
    alice = alice
    UserIds = {alice}
    Messages <- MCMessages
    MaxTopic = 0
    Requests = {r1, r2}
    Kinds = {"other", "update", "money"}
    Headers <- MCHeaders
    MaxConns = 2
    MaxRetries = 2
    MaxRuns = 2
INVARIANTS
    OnlyCompletedAreCounted
CHECK_DEADLOCK FALSE
