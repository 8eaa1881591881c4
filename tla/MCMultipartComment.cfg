CONSTANTS
    Bytes <- MCBytes
    Boundary <- MCBoundary
    Forms <- MCForms
    BufferSize = 16
SPECIFICATION Spec
INVARIANTS
    DelimiterIsDetected
CHECK_DEADLOCK FALSE
