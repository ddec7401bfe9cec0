SPECIFICATION Spec
CONSTANTS
    w1 = w1
    w2 = w2
    x1 = x1
    alice = alice
    bob = bob
    c1 = c1
    c2 = c2
    g1 = g1
    p1 = p1
    Nobody = Nobody
    Workers = {w1, w2}
    Clients = {x1}
    Users = {alice}
    Contacts = {c1}
    Groups = {g1}
    Policies = {}
    ClientDocs <- SmallDocs
    MaxWrites = 2
SYMMETRY WorkerSymmetry
INVARIANTS TypeOK ReferencesResolve
PROPERTIES NoApiUpdateIsLost ImplementsAddressbook
