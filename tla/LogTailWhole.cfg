SPECIFICATION Spec
CONSTANTS
    Chunk = 3
    Wanted = 2
    MaxSize = 10
CHECK_DEADLOCK FALSE
INVARIANTS
    WholeLines
