CONSTANTS
    Paths <- MCPaths
    PathsIn <- MCPathsIn
    FirstRoot = "a"
    FirstPath = "a"
    MaxRuns = 3
    MaxReads = 1
SPECIFICATION FairSpec
INVARIANTS
    TypeOK
    SettledIsCurrent
    PanelIsCurrent
PROPERTY WrittenIsShown
