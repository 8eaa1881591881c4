CONSTANTS
    Dims = 2
    FeatureArrays <- MCFeatureArrays
    Queries <- MCQueries
    Ks = {1, 2}
    MaxChecks = {1, 2, 4}
    Own = Own
SPECIFICATION Spec
INVARIANTS
    KeysAreDistances
CHECK_DEADLOCK FALSE
