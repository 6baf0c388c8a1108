CONSTANTS
    Tables <- MCTables
    Authored <- MCAuthors
    Alphabet <- MCAlphabet
    Texts <- OneShot
    Growable <- Growing
    Pieces <- Steps
    MaxText = 4
    Spellings <- Vocabulary
    MaxIds = 2
SPECIFICATION ChartSpec
INVARIANTS TypeOK FamiliesExact FastTreeOnlyWhenSole ReadsAsAuthored ChartExact FiledOnce LeoMemoFresh CursorInStep
PROPERTY MaskEqualsRecompute
