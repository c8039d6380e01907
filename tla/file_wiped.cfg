SPECIFICATION Spec
CONSTANTS
    TaskIds = {t1, t2}
    Descriptions = {d1}
    NotGiven = NotGiven
    Missing = Missing
    a = a
    LF = lf
    CRLF = crlf
    Chunks = {a, lf, crlf}
    MaxLen = 3
    Searches <- MCSearches
    Replacements <- MCReplacements
    MAX_FILE_LINES = 2
PROPERTY EditWipesNothing
