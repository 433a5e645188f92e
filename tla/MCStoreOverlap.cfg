CONSTANTS
    Paths <- MCPaths
    PathsIn <- MCPathsIn
    FirstRoot = "a"
    FirstPath = "a"
    MaxRuns = 2
    MaxReads = 2
SPECIFICATION Spec
INVARIANTS
    SettledIsCurrent
