CONSTANTS
    Dims = 2
    FeatureArrays <- MCFeatureArrays
    Queries <- MCQueries
    Ks = {1, 2, 3}
    MaxChecks = {1, 2, 4}
    Own = Own
SPECIFICATION Spec
INVARIANTS
    SelectionIsSound
    MediansDivide
    TreeDividesFeatures
    SearchCoversTree
    NeighborsAreNearest
    
CHECK_DEADLOCK FALSE
