CONSTANTS
    Prefixed = {"entry"}
    Wide = {"y"}
    Selectors <- AllSelectors
    Bodies <- SomeBodies
    InitialDocuments <- Stored
    MaxTags = 6
    AttSelectors <- SomeAttSelectors
    Values = {""}
    MaxAttTags = 3

SPECIFICATION AttributeSpec

INVARIANTS TypeOK GetReturnsTheMatch PutChangesOneElement CreatedComesLast DeleteUndoesCreation RetryChangesNothing NamesAreUnambiguous AttributeOfTheElement AttributeRetryChangesNothing
