CONSTANTS
    Prefixed = {}
    Wide = {}
    AttSelectors <- SomeAttSelectors
    Values = {""}
    MaxAttTags = 3
    Selectors <- AllSelectors
    Bodies <- SomeBodies
    InitialDocuments <- Roots
    MaxTags = 7

SPECIFICATION Spec

INVARIANT CreationFindsAPlace
