\* The life of the entries, from the original dictionaries to the reports.
SPECIFICATION Spec
CONSTANTS
    None = None
    Null = Null
    JsonNull = JsonNull
    MaxIds = 1
    Library <- SmallLibrary
INVARIANTS
    TypeOK
    NothingLost
    CleaningSettles
    WordsReachTheTable
    RowsAreFound
    ReportsAgree
    FormsLeadBack
    FormsSettle
PROPERTIES
    CleanOriginalIsSafe
