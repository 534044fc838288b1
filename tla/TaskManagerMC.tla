--------------------------- MODULE TaskManagerMC ---------------------------
(* Small instances of TaskManager: two tasks of one branch, or each on its *)
(* own.                                                                    *)
EXTENDS TaskManager, TLC

CONSTANTS t1, t2, b1, b2

SameBranch == (t1 :> b1) @@ (t2 :> b1)
OwnBranches == (t1 :> b1) @@ (t2 :> b2)
OneTask == t1 :> b1

\* How many runs each task may have.
AllRuns == [t \in Tasks |-> MaxRuns]
FirstResumes == [t \in Tasks |-> IF t = t1 THEN MaxRuns ELSE 1]

\* The tasks of one branch are interchangeable.
TaskSymmetry == Permutations(Tasks)

=============================================================================
