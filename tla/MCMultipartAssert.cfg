CONSTANTS
    Bytes <- MCBytes
    Boundary <- MCBoundary
    Forms <- MCForms
    BufferSize = 16
SPECIFICATION Spec
INVARIANTS
    LineAfterDelimiter
CHECK_DEADLOCK FALSE
