CONSTANTS
    Functions <- MCFunctions
    Others = {"work", ""}
SPECIFICATION Spec
INVARIANT RecvHooksFollow
\* The pass ends.
CHECK_DEADLOCK FALSE
