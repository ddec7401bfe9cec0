SPECIFICATION Spec
CONSTANTS
    w1 = w1
    w2 = w2
    d1 = d1
    d2 = d2
    alice = alice
    bob = bob
    Workers = {w1}
    Documents = {d1, d2}
    User <- OneUser
    Writers <- OneByOne
    MinWait = 2
    PublishMayRaise = FALSE
    MaxTime = 6
    MaxWrites = 3
CHECK_DEADLOCK FALSE
INVARIANTS RateIsLimited
