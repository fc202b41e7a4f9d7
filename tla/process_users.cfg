SPECIFICATION FairSpec
CONSTANTS
    alice = alice
    UserIds = {alice}
    Messages <- MCMessages
    MaxTopic = 2
    Requests = {r1}
    Kinds = {"update"}
    Headers = {"good"}
    MaxConns = 1
    MaxRetries = 2
    MaxRuns = 2
INVARIANTS
    ProcessTypeOK
    UsersFollowTopic
    NothingSkipped
    NoMessageFailsTwice
PROPERTIES
    CancelledEnds
    MessagesAreStored
CHECK_DEADLOCK FALSE
