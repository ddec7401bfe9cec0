SPECIFICATION Spec
CONSTANTS
    w1 = w1
    w2 = w2
    alice = alice
    bob = bob
    Workers = {w1, w2}
    Users = {alice, bob}
    Requests <- Sent
    DefaultRealm = "home"
    Types = {"digest", "basic", "other"}
    MaxNonces = 2
    Expiration = 1
    MaxChallenges = 3
    MaxPasswords = 1
    MaxTime = 1
SYMMETRY Symmetry
CHECK_DEADLOCK FALSE
INVARIANTS TypeOK NoNonceIsLost
PROPERTIES NonceServesOnce OnlyTheOwnerIsServed
