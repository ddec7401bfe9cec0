SPECIFICATION Spec
CONSTANTS
    w1 = w1
    w2 = w2
    alice = alice
    bob = bob
    Workers = {w1}
    Users = {alice, bob}
    Requests <- NoDomain
    DefaultRealm = "home"
    Types = {"digest"}
    MaxNonces = 2
    Expiration = 2
    MaxChallenges = 2
    MaxPasswords = 1
    MaxTime = 2
INVARIANTS DefaultRealmApplies
