CONSTANTS
    MaxId = 1
    Labels = {0, 1}
    EmptyLabel = EmptyLabel
    JunkLabel = JunkLabel
    NoLabel = NoLabel
    NoFile = NoFile
    NoImage = NoImage
    InDoubt = InDoubt
    blank = blank
    photo = photo
    FeatureSets = {blank, photo}
    NumFeatures <- MCNumFeatures
    MaxBatch = 2
SPECIFICATION Spec
INVARIANTS
    
    FileKeepsPromises
