\* The browse mode of the phrases, against its comment.
SPECIFICATION Spec
CONSTANTS
    None = None
    Null = Null
    JsonNull = JsonNull
    MaxIds = 1
    Library <- SmallLibrary
INVARIANTS
    PhrasesBrowsable
