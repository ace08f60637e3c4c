SPECIFICATION Spec
CONSTANTS
    MaxPieces = 4
    Names <- MCNames
    Types = {"none", "pdf; charset"}
    Letters <- MCLetters
    Compat <- MCCompat
    Nul <- MCNul
    Allowed <- MCAllowed
    Blocked <- MCBlocked
    MimeByExtension <- MCMimeByExtension
    MaxStem = 3
    MaxSize = 3
    ChunkSize = 2
INVARIANTS
    TypeOK
    StoredNameSafe
    TypeJudgedByName
    GoodNamesPass
    SizeJudged
