SPECIFICATION Spec
CONSTANTS
    Urls <- MCUrls
    Words <- MCWords
    LengthOf <- MCLengthOf
    Documents <- PhraseDocuments
    Queries <- PhraseQueries
    DaySeconds = 2
    MaxWrites = 2
    None = None
INVARIANT PhrasesAreFound
