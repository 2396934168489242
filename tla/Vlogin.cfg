CONSTANTS
    Cap = 2
    Size = 2
    MaxKeys = 3
    MaxOut = 3
    NoGroup = 0
SPECIFICATION Spec
INVARIANTS TypeOK TerminalRestored OutputShown
PROPERTIES EndsWithShell OutputMoves
CHECK_DEADLOCK FALSE
