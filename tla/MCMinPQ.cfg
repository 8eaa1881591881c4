CONSTANTS
    n1 = n1
    n2 = n2
    n3 = n3
    n4 = n4
    n5 = n5
    Data = {n1, n2, n3, n4, n5}
    Keys = {0, 1, 2}
    InitAlloc = 2
    MaxSize = 5
    Nobody = Nobody
SPECIFICATION Spec
INVARIANTS
    TypeOK
    HeapOrder
PROPERTIES
    ImplementsPriorityQueue
SYMMETRY Symmetry
