CONSTANTS
    MaxId = 1
    Labels = {0, 1}
    EmptyLabel = EmptyLabel
    JunkLabel = JunkLabel
    NoLabel = NoLabel
    NoFile = NoFile
    NoImage = NoImage
    InDoubt = InDoubt
    TornImage = TornImage
    NoExt = NoExt
    blank = blank
    photo = photo
    Pieces <- MCPieces
    LongLabels = {1}
    Exts = {NoExt}
    FeatureSets = {photo}
    NumFeatures <- MCNumFeatures
SPECIFICATION Spec
INVARIANTS
    OkMeansSaved
    
    
PROPERTIES
    UnloadedServerOnlyMatches
