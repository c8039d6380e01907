SPECIFICATION Spec
CONSTANTS
    Runs = {r1}
    Pids = {p1}
    Strays = {}
    None = None
    MaxCalls = 2
    MaxNodes = 1
INVARIANT NoProcessSurvivesNodeExit
