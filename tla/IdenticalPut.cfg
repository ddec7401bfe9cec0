SPECIFICATION Spec
CONSTANTS
    w1 = w1
    w2 = w2
    w3 = w3
    k1 = k1
    k2 = k2
    e1 = e1
    e2 = e2
    a1 = a1
    Workers = {w1, w2}
    Keys = {k1}
    Elements = {e1, e2}
    Attributes = {a1}
    Owner <- OneAttribute
    ValidDocs <- MCValidDocs
    Conditions <- MCConditions
    AutoIncrement = TRUE
    MaxEtags = 2
SYMMETRY WorkerSymmetry
INVARIANTS IfNoneMatchStarOnlyCreates
