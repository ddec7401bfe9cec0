SPECIFICATION AnnouncingSpec
CONSTANTS
    w1 = w1
    d1 = d1
    d2 = d2
    alice = alice
    bob = bob
    Workers = {w1}
    Documents = {d1, d2}
    User <- TwoUsers
    Writers <- OneByOne
    MinWait = 1
    PublishMayRaise = FALSE
    MaxTime = 2
    MaxWrites = 3
CHECK_DEADLOCK FALSE
INVARIANTS SubscribersAreTold
