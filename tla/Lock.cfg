SPECIFICATION FairSpec
CONSTANTS
    w1 = w1
    w2 = w2
    w3 = w3
    alice = alice
    bob = bob
    Nobody = Nobody
    Databases = {"sqlite", "mysql"}
    Workers = {w1, w2, w3}
    Users = {alice, bob}
    PoolSize = 3
    MaxSessions = 1
INVARIANTS MutualExclusion NoLockIsLeftBehind
PROPERTIES ImplementsUserLock EveryRequestEnds
