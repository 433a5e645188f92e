CONSTANTS
    Paths <- MCPaths
    PathsIn <- MCPathsIn
    FirstRoot = "a"
    FirstPath = "a"
    Uris = {"u", "v"}
    Entries <- MCEntries
    Faulty = {}
    MaxRuns = 2
    MaxReads = 1
SPECIFICATION ESpec
INVARIANTS
    ETypeOK
    SquigglesAreOneReport
    SquigglesAreCurrent
    ViewsAgree
