CONSTANTS
    t1 = t1
    t2 = t2
    u1 = u1
    u2 = u2
    Threads = {t1, t2}
    Notes = {1, 2}
    Labels = {1, 2, 3}
    Users = {u1, u2}
    NoUser = NoUser
    Limit = 3
    MaxViews = 5
SPECIFICATION Spec
INVARIANTS
    TypeOK
    
    
    VisitsRepeatInOverlap
    RelationsRepeatInOverlap
SYMMETRY Symmetry
CHECK_DEADLOCK FALSE
