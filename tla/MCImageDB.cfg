CONSTANTS
    MaxId = 2
    Labels = {1, 2}
    EmptyLabel = EmptyLabel
    JunkLabel = JunkLabel
    NoLabel = NoLabel
    NoFile = NoFile
    NoImage = NoImage
    blank = blank
    photo = photo
    FeatureSets = {blank, photo}
    NumFeatures <- MCNumFeatures
SPECIFICATION Spec
INVARIANTS
    TypeOK
    LabelsAgreeWithFeatures
    NextIdIsFresh
    TreeIsCurrent
    LoadableFileIsWhole
    FileImagesHaveFeatures
    MatchNamesLiveImages

    
