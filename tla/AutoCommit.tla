----------------------------- MODULE AutoCommit -----------------------------
(***************************************************************************)
(* _auto_commit of src/nodes.py over the git repository of a workspace:    *)
(* what a visit to an Action Node leaves behind, what git add, the size    *)
(* filter and git commit make of it.                                       *)
(*                                                                         *)
(* A file is its content: one of a few versions, none if it does not       *)
(* exist.  The agent writes files and runs git during a visit; processes   *)
(* that the sweep could not reach (ProcessTools has them) go on writing    *)
(* while the auto-commit runs, but leave git alone.                        *)
(***************************************************************************)
EXTENDS Naturals, FiniteSets

CONSTANTS
    Files,     \* paths in the workspace
    Contents,  \* [Files -> the contents the file can have]
    None,      \* the file does not exist
    Large,     \* contents above the limit of 1 MB
    Globs,     \* the wildcard pathspecs of git add: "*.py", "*.md", ...
    Matches,   \* [Files -> the wildcards that match the file]
    CodeDirs,  \* files in src/ or logs/, directories of the bootstrap
    Ignored,   \* files that the workspace's .gitignore names
    Quoted,    \* files whose name git prints quoted: not ASCII
    MaxRewritten \* bound on the files written while one auto-commit runs

ASSUME FilesAssumption ==
    /\ \A f \in Files : None \in Contents[f]
    /\ None \notin Large
    /\ Matches \in [Files -> SUBSET Globs]
    /\ CodeDirs \subseteq Files
    /\ Ignored \subseteq Files
    /\ Quoted \subseteq Files
    /\ MaxRewritten \in Nat

VARIABLES
    at,         \* "visit", or "filter" within _auto_commit
    worktree,   \* [Files -> contents]
    index,      \* the same, as staged
    head,       \* the same, as committed last
    locked,     \* a killed git left its index.lock: every later git refuses
    listed,     \* names that the size filter has yet to look at
    added,      \* git add has not refused (history)
    restaged,   \* files whose entry in the index git add changed (history)
    rewritten   \* files written since by a process that lives on (history)

auto == <<listed, added, restaged, rewritten>>
vars == <<at, worktree, index, head, locked, auto>>

Empty == [f \in Files |-> None]

\* git init: no commit yet.  The files of the bootstrap count as the agent's.
Init ==
    /\ at = "visit"
    /\ worktree = Empty
    /\ index = Empty
    /\ head = Empty
    /\ locked = FALSE
    /\ listed = {}
    /\ added = FALSE
    /\ restaged = {}
    /\ rewritten = {}

-----------------------------------------------------------------------------
(* git *)

\* A file that git looks at: tracked, or there and not ignored.
Seen(f) == index[f] # None \/ (worktree[f] # None /\ f \notin Ignored)

\* git status --porcelain prints nothing: neither a change that is staged nor one
\* that is not.
Clean == \A f \in Files : index[f] = head[f] /\ (Seen(f) => worktree[f] = index[f])

\* git diff --cached --name-only.
Staged == {f \in Files : index[f] # head[f]}

\* git add refuses all of its pathspecs if one of its wildcards matches no file.
AllGlobsMatch == \A g \in Globs : \E f \in Files : Seen(f) /\ g \in Matches[f]

\* The files that the pathspecs of the auto-commit name.
Code == {f \in Files : Matches[f] # {}} \cup CodeDirs

\* The index after git add of every pathspec; deletions are staged, too.
Added ==
    [f \in Files |-> IF f \in Code /\ Seen(f) THEN worktree[f] ELSE index[f]]

-----------------------------------------------------------------------------
(* The visit *)

AgentWrites(f, content) ==
    /\ at = "visit"
    /\ content \in Contents[f]
    /\ worktree' = [worktree EXCEPT ![f] = content]
    /\ UNCHANGED <<at, index, head, locked, auto>>

\* git add (-f, for an ignored file) of one file.
AgentAdds(f) ==
    /\ at = "visit"
    /\ ~locked
    /\ index' = [index EXCEPT ![f] = worktree[f]]
    /\ UNCHANGED <<at, worktree, head, locked, auto>>

AgentCommits ==
    /\ at = "visit"
    /\ ~locked
    /\ head' = index
    /\ UNCHANGED <<at, worktree, index, locked, auto>>

\* A git command is killed with its shell, at its timeout, or the agent removes
\* the lock that it left.
LockChanges ==
    /\ at = "visit"
    /\ locked' = ~locked
    /\ UNCHANGED <<at, worktree, index, head, auto>>

-----------------------------------------------------------------------------
(* _auto_commit *)

\* git status, git add and the first git diff --cached.
Stage ==
    /\ at = "visit"
    /\ ~Clean
    /\ at' = "filter"
    /\ added' = (~locked /\ AllGlobsMatch)
    /\ index' = IF added' THEN Added ELSE index
    /\ listed' = {f \in Files : index'[f] # head[f]}
    /\ restaged' = {f \in Files : index'[f] # index[f]}
    /\ rewritten' = {}
    /\ UNCHANGED <<worktree, head, locked>>

\* os.path.getsize of the name as it was printed: it finds no deleted file and
\* no file with a quoted name, and the loop goes on to the next one.
TooLarge(f) == f \notin Quoted /\ worktree[f] \in Large

\* Mutant: git reset HEAD without the name.
FilterResetsAll(f) ==
    /\ at = "filter"
    /\ f \in listed
    /\ listed' = listed \ {f}
    /\ index' = IF TooLarge(f) /\ ~locked THEN head ELSE index
    /\ UNCHANGED <<at, worktree, head, locked, added, restaged, rewritten>>

\* Mutant: the loop breaks at the first name whose size it cannot read.
FilterBreaks(f) ==
    /\ at = "filter"
    /\ f \in listed
    /\ listed' = IF f \in Quoted \/ worktree[f] = None THEN {} ELSE listed \ {f}
    /\ index' = IF TooLarge(f) /\ ~locked THEN [index EXCEPT ![f] = head[f]] ELSE index
    /\ UNCHANGED <<at, worktree, head, locked, added, restaged, rewritten>>

\* One round of the size filter: git reset HEAD -- f if f is too large.
Filter(f) ==
    /\ at = "filter"
    /\ f \in listed
    /\ listed' = listed \ {f}
    /\ index' = IF TooLarge(f) /\ ~locked THEN [index EXCEPT ![f] = head[f]] ELSE index
    /\ UNCHANGED <<at, worktree, head, locked, added, restaged, rewritten>>

\* git commit of what is still staged: the whole index.
Finish ==
    /\ at = "filter"
    /\ listed = {}
    /\ at' = "visit"
    /\ head' = IF Staged # {} /\ ~locked THEN index ELSE head
    /\ added' = FALSE
    /\ restaged' = {}
    /\ rewritten' = {}
    /\ UNCHANGED <<worktree, index, locked, listed>>

\* A process that outlived the sweep writes or removes files.
OrphanWrites(f, content) ==
    /\ at = "filter"
    /\ Cardinality(rewritten \cup {f}) <= MaxRewritten
    /\ content \in Contents[f]
    /\ worktree' = [worktree EXCEPT ![f] = content]
    /\ rewritten' = rewritten \cup {f}
    /\ UNCHANGED <<at, index, head, locked, listed, added, restaged>>

-----------------------------------------------------------------------------
Next ==
    \/ \E f \in Files :
          \/ \E content \in Contents[f] : AgentWrites(f, content) \/ OrphanWrites(f, content)
          \/ AgentAdds(f)
          \/ Filter(f)
    \/ AgentCommits
    \/ LockChanges
    \/ Stage
    \/ Finish

Spec == Init /\ [][Next]_vars

-----------------------------------------------------------------------------
(* Properties *)

TypeOK ==
    /\ at \in {"visit", "filter"}
    /\ \A tree \in {worktree, index, head} :
          DOMAIN tree = Files /\ \A f \in Files : tree[f] \in Contents[f]
    /\ locked \in BOOLEAN
    /\ listed \subseteq Staged
    /\ added \in BOOLEAN
    /\ restaged \subseteq Files
    /\ rewritten \subseteq Files

AutoCommitEnds == at = "filter" /\ at' = "visit"

\* When git add has staged at all, each small code file that the visit left
\* behind, written or deleted, is committed as it was left: no skipped file, no
\* name that the filter cannot look up and no agent's half-staged version of
\* it comes in the way.
CodeLeftIsCommitted ==
    [][AutoCommitEnds /\ added =>
          \A f \in Code \ rewritten :
              worktree[f] \notin Large /\ f \notin Ignored => head'[f] = worktree[f]]_vars

\* A large file that the auto-commit itself staged is not committed, even with
\* others around it that are deleted or cannot be looked up, unless its name is
\* quoted or a process goes on writing it.
LargeFilesSkipped ==
    [][AutoCommitEnds =>
          \A f \in Files \ (Quoted \cup rewritten) :
              head'[f] # head[f] /\ head'[f] \in Large => f \notin restaged]_vars

-----------------------------------------------------------------------------
(* What the repository says of the program, and the code does not do *)

\* nodes.py:463: "Commit code/memory files the LLM left behind after a node
\* exit."  (Small ones, in a repository that nothing has locked.)
NothingLeftBehind ==
    [][AutoCommitEnds /\ ~locked =>
          \A f \in Code \ (Ignored \cup rewritten) :
              worktree[f] \notin Large => head'[f] = worktree[f]]_vars

=============================================================================
