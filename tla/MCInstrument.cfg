CONSTANTS
    Functions <- MCFunctions
    Others = {"work", ""}
SPECIFICATION Spec
INVARIANTS
    TypeOK
    ProgramIsKept
    HooksAreInPlace
\* The pass ends.
CHECK_DEADLOCK FALSE
