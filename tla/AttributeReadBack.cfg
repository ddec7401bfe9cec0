CONSTANTS
    Prefixed = {}
    Wide = {}
    Selectors <- AllSelectors
    Bodies <- SomeBodies
    InitialDocuments <- Stored
    MaxTags = 6
    AttSelectors <- SomeAttSelectors
    Values = {""}
    MaxAttTags = 3

SPECIFICATION AttributeSpec

INVARIANTS AttributeIsReadBack
