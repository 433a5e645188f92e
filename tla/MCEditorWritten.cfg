CONSTANTS
    Paths <- MCPaths
    PathsIn <- MCPathsIn
    FirstRoot = "a"
    FirstPath = "a"
    Uris = {"u", "v"}
    Entries <- WrittenEntries
    Faulty <- AllReports
    MaxRuns = 1
    MaxReads = 1
SPECIFICATION ESpec
INVARIANT ErrorsAreSurfaced
