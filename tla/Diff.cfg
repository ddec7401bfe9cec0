SPECIFICATION FairSpec
CONSTANTS
    w1 = w1
    w2 = w2
    d1 = d1
    d2 = d2
    alice = alice
    bob = bob
    Workers = {w1, w2}
    Documents = {d1, d2}
    User <- OneUser
    Writers <- RaceForOne
    MinWait = 2
    PublishMayRaise = TRUE
    MaxTime = 6
    MaxWrites = 3
CHECK_DEADLOCK FALSE
INVARIANTS PendingChangesAreTimed LatestIsPublished
PROPERTIES DiffsStartFromKnown PendingIsPublished
