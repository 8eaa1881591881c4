CONSTANTS
    MaxId = 1
    Labels = {1}
    EmptyLabel = EmptyLabel
    JunkLabel = JunkLabel
    NoLabel = NoLabel
    NoFile = NoFile
    NoImage = NoImage
    InDoubt = InDoubt
    TornImage = TornImage
    NoExt = NoExt
    blank = blank
    photo = photo
    Pieces <- MCPieces
    LongLabels = {}
    Exts = {NoExt}
    FeatureSets = {blank, photo}
    NumFeatures <- MCNumFeatures
SPECIFICATION Spec
INVARIANTS
    TypeOK
    OkMeansAllImagesHaveFeatures
    
PROPERTIES
    RequestsAreAnswered
