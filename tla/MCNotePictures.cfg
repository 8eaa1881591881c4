CONSTANTS
    r1 = r1
    r2 = r2
    p1 = p1
    p2 = p2
    Requests = {r1, r2}
    Pictures = {p1, p2}
    Sent = {p1, p2}
    NotAPicture = NotAPicture
    Mixed = Mixed
    NoPicture = NoPicture
    Nobody = Nobody
    MaxNotes = 2
    MaxStarts = 3
    MaxInbox = 2
SPECIFICATION Spec
INVARIANTS
    TypeOK
    
    SearchesStayPrivate

    
SYMMETRY Symmetry
CHECK_DEADLOCK FALSE
