SPECIFICATION Spec
CONSTANTS
    Workers = {w1, w2}
    Users = {u1}
    Paths = {x1, x2}
    Docs = {d1, d2}
    Settings = {s1, s2}
    Databases = {b1, b2}
    Configured = NoDatabase
    Conditions <- FewConditions
    NoDoc = NoDoc
    NoDatabase = NoDatabase
    Truncated = Truncated
    MaxEtags = 2
SYMMETRY Symmetry
PROPERTY OtherDocumentsStay
