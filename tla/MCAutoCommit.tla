--------------------------- MODULE MCAutoCommit ---------------------------
(* A workspace with a file of every kind that the auto-commit tells apart. *)
EXTENDS AutoCommit

CONSTANTS
    small, large, \* contents of at most, and of more than, 1 MB
    script,       \* train.py, the only file that the wildcard matches
    trainlog,     \* logs/train.log
    curve,        \* in logs/, with a name that git quotes
    weights,      \* model.pkl: of no pathspec, and in .gitignore
    py            \* a wildcard of git add

MCContents ==
    [f \in Files |->
        CASE f = trainlog -> {None, small, large}
          [] f = curve -> {None, large}
          [] OTHER -> {None, small}]

MCMatches ==
    [f \in Files |-> IF f = script THEN {py} ELSE {}]

=============================================================================
