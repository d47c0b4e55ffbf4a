SPECIFICATION Spec
CONSTANTS
    Urls <- MCUrls
    Words <- MCWords
    LengthOf <- MCLengthOf
    Documents <- MCDocuments
    Queries <- MCQueries
    DaySeconds = 2
    MaxWrites = 2
    None = None
INVARIANTS TypeOK PagingIsExact PagingDrifts
