SPECIFICATION Spec
CONSTANTS
    Nodes = {n1, n2}
    None = None
    Torn = Torn
    Answers <- MCAnswers
    MaxVisits = 3
    MaxDumps = 4
SYMMETRY Symmetry
INVARIANTS TypeOK CountsExact AlarmIsReal ExitOfLongestVisit
