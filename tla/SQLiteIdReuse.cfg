SPECIFICATION Spec
CONSTANTS
    w1 = w1
    w2 = w2
    w3 = w3
    k1 = k1
    k2 = k2
    e1 = e1
    e2 = e2
    a1 = a1
    Workers = {w1, w2}
    Keys = {k1, k2}
    Elements = {e1}
    Attributes = {}
    Owner <- NoAttribute
    ValidDocs <- AllDocs
    Conditions <- FewConditions
    AutoIncrement = FALSE
    MaxEtags = 2
SYMMETRY WorkerSymmetry

PROPERTIES WritesOwnDocument
