SPECIFICATION Spec
CONSTANTS
    Runs = {r1,r2}
    Pids = {p1,p2}
    Strays = {s1}
    None = None
    MaxCalls = 2
    MaxNodes = 2
SYMMETRY Symmetry
INVARIANTS TypeOK LiveShellsTracked NoShellSurvivesNodeExit EntriesOfOpenNodesOnly SweptGroupsAreDead DroppedShellsHaveEnded
