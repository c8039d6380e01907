-------------------------- MODULE AutoCommit_proofs --------------------------
(***************************************************************************)
(* For any files, wildcards and .gitignore, and any number of files that   *)
(* others write meanwhile: what _auto_commit commits.                      *)
(***************************************************************************)
EXTENDS AutoCommit, TLAPS

-----------------------------------------------------------------------------
(* Types *)

\* Between two auto-commits nothing is left of the one before.
Quiescent ==
    at = "visit" => listed = {} /\ restaged = {} /\ rewritten = {} /\ ~added

Typed == TypeOK /\ Quiescent

LEMMA TypedInit == Init => Typed
<1> SUFFICES ASSUME Init PROVE TypeOK /\ Quiescent
  BY DEF Typed
<1>1. \A tree \in {worktree, index, head} :
         DOMAIN tree = Files /\ \A f \in Files : tree[f] \in Contents[f]
  BY FilesAssumption DEF Init, Empty
<1>2. locked \in BOOLEAN /\ added \in BOOLEAN /\ ~added
  BY Zenon DEF Init
<1> QED
  BY <1>1, <1>2 DEF Init, TypeOK, Quiescent

LEMMA TypedStep == Typed /\ [Next]_vars => Typed'
<1> SUFFICES ASSUME TypeOK, Quiescent, [Next]_vars PROVE TypeOK' /\ Quiescent'
  BY DEF Typed
<1> USE FilesAssumption DEF TypeOK, Quiescent, auto
<1>1. ASSUME NEW f \in Files, NEW content \in Contents[f], AgentWrites(f, content)
      PROVE  TypeOK' /\ Quiescent'
  BY <1>1 DEF AgentWrites, Staged
<1>2. ASSUME NEW f \in Files, AgentAdds(f) PROVE TypeOK' /\ Quiescent'
  BY <1>2 DEF AgentAdds, Staged
<1>3. CASE AgentCommits
  BY <1>3 DEF AgentCommits, Staged
<1>4. CASE LockChanges
  <2>1. locked' \in BOOLEAN
    BY <1>4, Zenon DEF LockChanges
  <2> QED
    BY <1>4, <2>1 DEF LockChanges, Staged
<1>5. CASE Stage
  <2> USE <1>5 DEF Stage
  <2>1. added' \in BOOLEAN
    BY Zenon
  <2>2. DOMAIN index' = Files /\ \A f \in Files : index'[f] \in Contents[f]
    BY DEF Added
  <2>3. listed' \subseteq Staged'
    BY DEF Staged
  <2> QED
    BY <2>1, <2>2, <2>3
<1>6. ASSUME NEW f \in Files, Filter(f) PROVE TypeOK' /\ Quiescent'
  <2>1. DOMAIN index' = Files /\ \A g \in Files : index'[g] \in Contents[g]
    BY <1>6 DEF Filter
  <2>2. listed' \subseteq Staged'
    BY <1>6 DEF Filter, Staged
  <2> QED
    BY <1>6, <2>1, <2>2 DEF Filter
<1>7. CASE Finish
  BY <1>7 DEF Finish, Staged
<1>8. ASSUME NEW f \in Files, NEW content \in Contents[f], OrphanWrites(f, content)
      PROVE  TypeOK' /\ Quiescent'
  BY <1>8 DEF OrphanWrites, Staged
<1>9. CASE UNCHANGED vars
  BY <1>9 DEF vars, Staged
<1> QED
  BY <1>1, <1>2, <1>3, <1>4, <1>5, <1>6, <1>7, <1>8, <1>9 DEF Next

\* Type correctness: the names that the filter has yet to look at are staged.
THEOREM TypeCorrect == Spec => []TypeOK
<1>1. Typed => TypeOK
  BY DEF Typed
<1> QED
  BY <1>1, TypedInit, TypedStep, PTL DEF Spec

-----------------------------------------------------------------------------
(* What is committed *)

\* If git add has staged, nothing is locked, and the index has every small code
\* file as it was left, through every round of the filter.
CodeStaged ==
    at = "filter" /\ added =>
        /\ ~locked
        /\ \A f \in Code \ rewritten :
              worktree[f] \notin Large /\ f \notin Ignored => index[f] = worktree[f]

\* Nothing is staged in a locked repository.
LockedUnstaged == locked => restaged = {}

\* A large file that was staged is one the filter has yet to look at, unless it
\* was committed before.
LargeListed ==
    \A f \in restaged \ (Quoted \cup rewritten) :
        index[f] \in Large => index[f] = head[f] \/ (f \in listed /\ index[f] = worktree[f])

CommitInv == Typed /\ CodeStaged /\ LockedUnstaged /\ LargeListed

LEMMA CommitInit == Init => CommitInv
  BY TypedInit DEF Init, CommitInv, CodeStaged, LockedUnstaged, LargeListed

LEMMA CommitStep == CommitInv /\ [Next]_vars => CommitInv'
<1> SUFFICES ASSUME CommitInv, Typed', [Next]_vars
             PROVE  CodeStaged' /\ LockedUnstaged' /\ LargeListed'
  BY TypedStep DEF CommitInv
<1> USE DEF CommitInv
<1>1. Code \subseteq Files
  BY FilesAssumption DEF Code
<1>2. CASE at = "visit" /\ at' = "visit"
  BY <1>2 DEF Typed, Quiescent, CodeStaged, LockedUnstaged, LargeListed
<1>3. CASE Stage
  <2> USE <1>3 DEF Stage
  <2>1. CodeStaged'
    BY <1>1 DEF CodeStaged, Added, Seen, Code
  <2>2. \A f \in restaged' : added' /\ index'[f] = worktree[f]
    BY DEF Added
  <2>3. LockedUnstaged'
    BY <2>2 DEF LockedUnstaged
  <2>4. LargeListed'
    BY <2>2 DEF LargeListed
  <2> QED
    BY <2>1, <2>3, <2>4
<1>4. ASSUME NEW f \in Files, Filter(f)
      PROVE  CodeStaged' /\ LockedUnstaged' /\ LargeListed'
  <2> USE <1>4 DEF Filter
  <2>1. \A g \in Files : g # f => index'[g] = index[g]
    BY DEF Typed, TypeOK
  <2>2. index'[f] = IF TooLarge(f) /\ ~locked THEN head[f] ELSE index[f]
    BY DEF Typed, TypeOK
  <2>3. CodeStaged'
    BY <1>1, <2>1, <2>2 DEF CodeStaged, TooLarge, Code
  <2>4. LockedUnstaged'
    BY DEF LockedUnstaged
  <2>5. LargeListed'
    BY <2>1, <2>2 DEF LargeListed, LockedUnstaged, TooLarge, Typed, TypeOK
  <2> QED
    BY <2>3, <2>4, <2>5
<1>5. ASSUME NEW f \in Files, NEW content \in Contents[f], OrphanWrites(f, content)
      PROVE  CodeStaged' /\ LockedUnstaged' /\ LargeListed'
  <2> USE <1>5 DEF OrphanWrites
  <2>1. \A g \in Files : g \notin rewritten' => worktree'[g] = worktree[g] /\ g \notin rewritten
    BY DEF Typed, TypeOK
  <2>2. CodeStaged'
    BY <1>1, <2>1 DEF CodeStaged, Code
  <2>3. LockedUnstaged' /\ LargeListed'
    BY <2>1 DEF LockedUnstaged, LargeListed, Typed, TypeOK
  <2> QED
    BY <2>2, <2>3
<1>6. CASE Finish
  BY <1>6 DEF Finish, CodeStaged, LockedUnstaged, LargeListed
<1>7. CASE UNCHANGED vars
  BY <1>7 DEF vars, auto, CodeStaged, LockedUnstaged, LargeListed, Code
<1> QED
  BY <1>2, <1>3, <1>4, <1>5, <1>6, <1>7
  DEF Next, AgentWrites, AgentAdds, AgentCommits, LockChanges

LEMMA CommitInvariance == Spec => []CommitInv
  BY CommitInit, CommitStep, PTL DEF Spec

LEMMA EndIsFinish == CommitInv /\ [Next]_vars /\ AutoCommitEnds => Finish
  BY DEF AutoCommitEnds, Next, AgentWrites, AgentAdds, AgentCommits, LockChanges, Stage,
         Filter, OrphanWrites, vars

\* If git add could stage, the small code files that a visit has left behind and
\* that nothing rewrites are committed as they were left, whatever else is there.
THEOREM CodeIsCommitted == Spec => CodeLeftIsCommitted
<1>1. CommitInv /\ [Next]_vars =>
         [AutoCommitEnds /\ added =>
             \A f \in Code \ rewritten :
                worktree[f] \notin Large /\ f \notin Ignored => head'[f] = worktree[f]]_vars
  <2> SUFFICES ASSUME CommitInv, [Next]_vars, AutoCommitEnds, added,
                      NEW f \in Code \ rewritten, worktree[f] \notin Large, f \notin Ignored
               PROVE  head'[f] = worktree[f]
    OBVIOUS
  <2>1. f \in Files
    BY FilesAssumption DEF Code
  <2>2. ~locked /\ index[f] = worktree[f]
    BY DEF CommitInv, CodeStaged, AutoCommitEnds
  <2> QED
    BY <2>1, <2>2, EndIsFinish DEF Finish, Staged
<1> QED
  BY <1>1, CommitInvariance, PTL DEF Spec, CodeLeftIsCommitted

\* No large file that the auto-commit staged is committed, for any files around
\* it, unless git quotes its name or a process writes it meanwhile.
THEOREM LargeAreSkipped == Spec => LargeFilesSkipped
<1>1. CommitInv /\ [Next]_vars =>
         [AutoCommitEnds =>
             \A f \in Files \ (Quoted \cup rewritten) :
                head'[f] # head[f] /\ head'[f] \in Large => f \notin restaged]_vars
  BY EndIsFinish DEF CommitInv, LargeListed, Finish
<1> QED
  BY <1>1, CommitInvariance, PTL DEF Spec, LargeFilesSkipped

=============================================================================
