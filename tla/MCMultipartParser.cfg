CONSTANTS
    Bytes <- MCBytes
    Boundary <- MCBoundary
    Forms <- MCForms
    BufferSize = 16
SPECIFICATION Spec
INVARIANTS
    TypeOK
    DeliveredInOrder
    CleanReadsParse
PROPERTIES
    ParserStops
CHECK_DEADLOCK FALSE
