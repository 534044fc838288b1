--------------------------- MODULE TaskLifecycle ---------------------------
(***************************************************************************)
(* What the developer manager promises the people who call it, with none   *)
(* of the machinery: no workers, no locks, no supervisors, no reports.     *)
(*                                                                         *)
(* A task is begun, works, and ends.  An end either closes the task for    *)
(* ever or leaves it resumable, and a resumable task may begin again as a  *)
(* new run of the same task.  At most MaxWorkers tasks work at a time, and *)
(* at most one task works on a branch.  A restart of the manager closes    *)
(* every task that works.  TaskManager implements this specification.      *)
(***************************************************************************)
EXTENDS Integers, FiniteSets

CONSTANTS
    Tasks,       \* the tasks that people may ask for
    BranchOf,    \* the branch a task works on
    MaxWorkers   \* DeveloperConfig.max_workers

VARIABLES
    phase,       \* "new", "working", "resumable" or "closed"
    runs         \* how many times the task has begun

vars == <<phase, runs>>

Working == {t \in Tasks : phase[t] = "working"}

Init ==
    /\ phase = [t \in Tasks |-> "new"]
    /\ runs = [t \in Tasks |-> 0]

\* develop, rework, or an answer to a resumable task.
Begin(t) ==
    /\ phase[t] \in {"new", "resumable"}
    /\ Cardinality(Working) < MaxWorkers
    /\ \A u \in Working : BranchOf[u] # BranchOf[t]
    /\ phase' = [phase EXCEPT ![t] = "working"]
    /\ runs' = [runs EXCEPT ![t] = @ + 1]

Finish(t) ==
    /\ phase[t] = "working"
    /\ \E p \in {"resumable", "closed"} : phase' = [phase EXCEPT ![t] = p]
    /\ UNCHANGED runs

Restart ==
    /\ phase' = [t \in Tasks |-> IF t \in Working THEN "closed" ELSE phase[t]]
    /\ UNCHANGED runs

Next ==
    \/ \E t \in Tasks : Begin(t) \/ Finish(t)
    \/ Restart

Spec == Init /\ [][Next]_vars

=============================================================================
