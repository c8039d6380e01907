SPECIFICATION FairSpec
CONSTANTS
    Runs = {r1,r2}
    Pids = {p1}
    Strays = {}
    None = None
    MaxCalls = 2
    MaxNodes = 2
PROPERTIES ShellsStop ImplementsScopedJobs
