------------------------- MODULE TaskManagerProofs -------------------------
(* Theorems about TaskManager, for every set of tasks and branches, every  *)
(* bound, both runtimes and every set of faults, unless a theorem says     *)
(* otherwise.                                                              *)
EXTENDS TaskManager, FiniteSetTheorems, TLAPS

USE DEF Runs, Jobs, ConstantsAssumption

\* Nothing runs for a run that has not begun, and a supervisor that is about
\* to report has decided what.
RunBegun ==
    /\ \A t \in Tasks, r \in Runs :
        \/ <<t, r>> \in starting \/ <<t, r>> \in stalled
        \/ worker[<<t, r>>] # "none" \/ supervisor[<<t, r>>] # "none"
        => r <= run[t]
    /\ \A t \in Tasks : gate[t] <= run[t]
    /\ \A j \in Jobs : supervisor[j] \in {"stopping", "reporting"} => verdict[j] # "none"

Typed == TypeOK /\ RunBegun

LEMMA TypedInit == Init => Typed
BY ConstantsAssumption
   DEF Init, Typed, TypeOK, RunBegun, WorkerStates, SupervisorStates, Notices,
       ACTIVE_STATUSES, TERMINAL_STATUSES

\* A begin takes a run number that is within its bound.
LEMMA TypedBegin ==
    ASSUME Typed, NEW t \in Tasks, Begin(t)
    PROVE  Typed'
<1>0. /\ run[t] \in 0..MaxRuns /\ RunsOf[t] \in 0..MaxRuns
      /\ MaxRuns \in Nat /\ run[t] < RunsOf[t]
  BY ConstantsAssumption DEF Typed, TypeOK, Begin
<1>1. /\ run[t] \in 0..MaxRuns /\ RunsOf[t] \in 0..MaxRuns
      /\ run[t] + 1 \in Runs
  BY <1>0
<1>2. TypeOK'
  <2>1. lock' \in [Branches -> Tasks \cup {NoTask}]
    BY DEF Typed, TypeOK, Begin, Acquired
  <2>2. /\ run' \in [Tasks -> 0..MaxRuns]
        /\ author' \in [Tasks -> 0..MaxRuns]
        /\ starting' \subseteq Jobs
    BY <1>1, ConstantsAssumption DEF Typed, TypeOK, Begin
  <2>3. /\ status' \in [Tasks -> {"none"} \cup ACTIVE_STATUSES \cup TERMINAL_STATUSES]
        /\ \A u \in Tasks : status'[u] = "none" <=> run'[u] = 0
    BY <1>1 DEF Typed, TypeOK, Begin, ACTIVE_STATUSES
  <2> QED BY <2>1, <2>2, <2>3 DEF Typed, TypeOK, Begin
<1>3. RunBegun'
  BY <1>1 DEF Typed, TypeOK, RunBegun, Begin
<1> QED BY <1>2, <1>3 DEF Typed

\* What recording a report may change keeps its type.
RecordTyped ==
    /\ status' \in [Tasks -> {"none"} \cup ACTIVE_STATUSES \cup TERMINAL_STATUSES]
    /\ \A u \in Tasks : status'[u] = "none" <=> run[u] = 0
    /\ author' \in [Tasks -> 0..MaxRuns]
    /\ lock' \in [Branches -> Tasks \cup {NoTask}]
    /\ notice' \in [Jobs -> Notices]
    /\ pushed' \in [Tasks -> BOOLEAN]
    /\ gate' \in [Tasks -> 0..MaxRuns]
    /\ \A u \in Tasks : gate'[u] <= run[u]

\* Recording a report keeps the types, when the run it is from has begun.
LEMMA TypedRecord ==
    ASSUME Typed, NEW t \in Tasks, NEW r \in Runs, NEW st \in TERMINAL_STATUSES,
           NEW p \in BOOLEAN, r <= run[t], run[t] \in Runs, RecordReport(t, r, st, p)
    PROVE  RecordTyped
<1> USE DEF Typed, TypeOK, RunBegun, Notices, TERMINAL_STATUSES, RecordTyped
<1>0. r \in 0..MaxRuns /\ run[t] # 0 /\ status[t] # "none" /\ <<t, run[t]>> \in Jobs
  BY ConstantsAssumption
<1>1. CASE Ignored(t)
  BY <1>1 DEF RecordReport
<1>2. CASE ~Ignored(t) /\ p
  <2>1. gate' = [gate EXCEPT ![t] = r] /\ UNCHANGED <<status, author, lock, notice, pushed>>
    BY <1>2 DEF RecordReport
  <2>2. gate' \in [Tasks -> 0..MaxRuns] /\ \A u \in Tasks : gate'[u] <= run[u]
    BY <1>0, <2>1
  <2> QED BY <2>1, <2>2
<1>3. CASE ~Ignored(t) /\ ~p
  <2>1. EndRow(t, r, st) /\ UNCHANGED <<pushed, gate>>
    BY <1>3 DEF RecordReport
  <2>2. /\ status' \in [Tasks -> {"none"} \cup ACTIVE_STATUSES \cup TERMINAL_STATUSES]
        /\ \A u \in Tasks : status'[u] = "none" <=> run[u] = 0
        /\ author' \in [Tasks -> 0..MaxRuns]
        /\ lock' \in [Branches -> Tasks \cup {NoTask}]
        /\ notice' \in [Jobs -> Notices]
    BY <1>0, <2>1 DEF EndRow, Released
  <2> QED BY <2>1, <2>2
<1> QED BY <1>1, <1>2, <1>3

LEMMA TypedNext == ASSUME Typed, [Next]_vars PROVE Typed'
<1>0. ASSUME NEW t \in Tasks, NEW r \in Runs, NEW st \in TERMINAL_STATUSES, NEW p \in BOOLEAN,
             r <= run[t], run[t] \in Runs, RecordReport(t, r, st, p)
      PROVE  RecordTyped
  BY <1>0, TypedRecord
<1> USE ConstantsAssumption
    DEF Typed, TypeOK, RunBegun, WorkerStates, SupervisorStates, Notices,
        ACTIVE_STATUSES, TERMINAL_STATUSES, rowVars
<1>1. ASSUME NEW t \in Tasks, TaskStep(t) PROVE Typed'
  <2>1. CASE Dispatch(t) \/ Resume(t)
    BY <2>1, TypedBegin DEF Dispatch, Resume
  <2>2. CASE GateDone(t)
    <3>1. /\ gate[t] # 0
          /\ pushed' = [pushed EXCEPT ![t] = TRUE]
          /\ gate' = [gate EXCEPT ![t] = 0]
          /\ UNCHANGED <<run, starting, stalled, worker, supervisor, verdict, restarts>>
      BY <2>2 DEF GateDone
    <3>2. PICK st \in TERMINAL_STATUSES : EndRow(t, gate[t], st)
      BY <2>2 DEF GateDone
    <3>3. gate[t] \in Runs /\ run[t] \in Runs /\ status[t] # "none"
      BY <3>1
    <3>4. /\ status' \in [Tasks -> {"none"} \cup ACTIVE_STATUSES \cup TERMINAL_STATUSES]
          /\ \A u \in Tasks : status'[u] = "none" <=> run[u] = 0
          /\ author' \in [Tasks -> 0..MaxRuns]
          /\ lock' \in [Branches -> Tasks \cup {NoTask}]
          /\ notice' \in [Jobs -> Notices]
      BY <3>2, <3>3 DEF EndRow, Released
    <3>5. /\ pushed' \in [Tasks -> BOOLEAN]
          /\ gate' \in [Tasks -> 0..MaxRuns]
          /\ \A u \in Tasks : gate'[u] <= run[u]
      BY <3>1
    <3> QED BY <3>1, <3>4, <3>5
  <2>3. CASE GateRaises(t)
    BY <2>3 DEF GateRaises
  <2> QED BY <1>1, <2>1, <2>2, <2>3 DEF TaskStep
<1>2. ASSUME NEW t \in Tasks, NEW r \in Runs, RowStep(t, r) PROVE Typed'
  <2> DEFINE j == <<t, r>>
  <2>0. j \in Jobs
    OBVIOUS
  <2>1. CASE StartFails(t, r)
    BY <2>1 DEF StartFails, Released
  <2>2. CASE ReadBrief(t, r)
    BY <2>2 DEF ReadBrief
  <2>3. CASE PostReport(t, r)
    <3>1. r <= run[t] /\ run[t] \in Runs
      BY <2>3 DEF PostReport, Authorized
    <3>2. PICK st \in TERMINAL_STATUSES, p \in BOOLEAN : RecordReport(t, r, st, p)
      BY <2>3 DEF PostReport
    <3>3. RecordTyped
      BY <1>0, <3>1, <3>2
    <3> QED BY <2>3, <3>1, <3>3 DEF PostReport, RecordTyped
  <2>4. CASE StallReport(t, r)
    BY <2>4 DEF StallReport, Authorized
  <2>5. CASE BodyArrives(t, r)
    <3>1. r <= run[t] /\ run[t] \in Runs
      BY <2>5 DEF BodyArrives
    <3>2. PICK st \in TERMINAL_STATUSES, p \in BOOLEAN : RecordReport(t, r, st, p)
      BY <2>5 DEF BodyArrives
    <3>3. RecordTyped
      BY <1>0, <3>1, <3>2
    <3>4. /\ stalled' = stalled \ {j}
          /\ UNCHANGED <<run, starting, worker, supervisor, verdict, restarts>>
      BY <2>5 DEF BodyArrives
    <3> QED BY <3>3, <3>4 DEF RecordTyped
  <2>6. CASE SeesExit(t, r) \/ Deadline(t, r)
    <3>1. PICK next \in {"stopping", "reporting"}, st \in {"failed", "timed_out"} :
            Decide(t, r, next, st)
      BY <2>6 DEF SeesExit, Deadline
    <3>2. supervisor[j] = "watching"
      BY <2>6 DEF SeesExit, Deadline
    <3> QED BY <3>1, <3>2 DEF Decide
  <2>7. CASE SupervisorReports(t, r)
    <3>1. r <= run[t] /\ run[t] \in Runs /\ verdict[j] \in TERMINAL_STATUSES
      BY <2>7 DEF SupervisorReports
    <3>2. CASE RecordReport(t, r, verdict[j], FALSE)
      <4>0. PICK st \in TERMINAL_STATUSES, p \in BOOLEAN : RecordReport(t, r, st, p)
        BY <3>1, <3>2
      <4>1. RecordTyped
        BY <1>0, <3>1, <4>0
      <4>2. /\ supervisor' = [supervisor EXCEPT ![j] = "removing"]
            /\ UNCHANGED <<run, starting, stalled, worker, verdict, restarts>>
        BY <2>7 DEF SupervisorReports
      <4> QED BY <3>1, <4>1, <4>2 DEF RecordTyped
    <3>3. CASE UNCHANGED <<status, author, lock, notice, pushed, gate>>
      BY <2>7, <3>3 DEF SupervisorReports
    <3> QED BY <2>7, <3>2, <3>3 DEF SupervisorReports
  <2> QED BY <1>2, <2>1, <2>2, <2>3, <2>4, <2>5, <2>6, <2>7 DEF RowStep
<1>3. ASSUME NEW j \in Jobs, JobStep(j) PROVE Typed'
  <2> PICK t \in Tasks, r \in Runs : j = <<t, r>>
    OBVIOUS
  <2>1. CASE Spawn(j)
    BY <2>1 DEF Spawn
  <2>2. CASE StartReturns(j)
    BY <2>2 DEF StartReturns
  <2>3. CASE WorkerExits(j)
    BY <2>3 DEF WorkerExits
  <2>4. CASE SendReport(j)
    BY <2>4 DEF SendReport
  <2>5. CASE Stop(j)
    <3>1. CASE worker' = [worker EXCEPT ![j] = "gone"]
      BY <2>5, <3>1 DEF Stop
    <3>2. CASE UNCHANGED worker
      BY <2>5, <3>2 DEF Stop
    <3> QED BY <2>5, <3>1, <3>2 DEF Stop
  <2>6. CASE SupervisorFails(j)
    BY <2>6 DEF SupervisorFails
  <2>7. CASE Remove(j)
    <3>1. CASE worker' = [worker EXCEPT ![j] = IF Runtime = "docker" THEN "gone" ELSE @]
      BY <2>7, <3>1 DEF Remove
    <3>2. CASE UNCHANGED worker
      BY <2>7, <3>2 DEF Remove
    <3> QED BY <2>7, <3>1, <3>2 DEF Remove
  <2> QED BY <1>3, <2>1, <2>2, <2>3, <2>4, <2>5, <2>6, <2>7 DEF JobStep
<1>4. CASE Restart
  BY <1>4 DEF Restart, OrphansRemoved, Recovered, Active
<1>5. CASE UNCHANGED vars
  BY <1>5 DEF vars
<1> QED BY <1>1, <1>2, <1>3, <1>4, <1>5 DEF Next

\* Every variable keeps its type, and a created row keeps a status, whatever
\* the calls, reports, faults and restarts.
THEOREM TypeCorrect == Spec => []TypeOK
<1>1. Init => Typed
  BY TypedInit
<1>2. Typed /\ [Next]_vars => Typed'
  BY TypedNext
<1>3. Typed => TypeOK
  BY DEF Typed
<1> QED BY <1>1, <1>2, <1>3, PTL DEF Spec

-----------------------------------------------------------------------------
(* What any step may do to the status of a task and to the lock table: a   *)
(* begin, an end with its release, the mark of a brief read, a restart, or *)
(* nothing.                                                                *)

Ends(t) ==
    /\ \E st \in TERMINAL_STATUSES : status' = [status EXCEPT ![t] = st]
    /\ lock' = Released(t)
    /\ UNCHANGED run

MarksRunning(t) ==
    /\ status[t] = "dispatched"
    /\ status' = [status EXCEPT ![t] = "running"]
    /\ UNCHANGED <<lock, run>>

LEMMA RecordEnds ==
    ASSUME NEW t \in Tasks, NEW r, NEW st \in TERMINAL_STATUSES, NEW p,
           RecordReport(t, r, st, p), UNCHANGED run
    PROVE  Ends(t) \/ UNCHANGED <<status, lock, run>>
BY DEF RecordReport, EndRow, Ends

LEMMA RowSteps ==
    ASSUME Typed, [Next]_vars
    PROVE  \/ \E t \in Tasks : Begin(t) \/ Ends(t) \/ MarksRunning(t)
           \/ Restart
           \/ UNCHANGED <<status, lock, run>>
<1> USE ConstantsAssumption DEF rowVars
<1> DEFINE Shape == \/ \E t \in Tasks : Begin(t) \/ Ends(t) \/ MarksRunning(t)
                    \/ Restart
                    \/ UNCHANGED <<status, lock, run>>
<1>1. ASSUME NEW t \in Tasks, TaskStep(t) PROVE Shape
  <2>1. CASE Dispatch(t) \/ Resume(t)
    BY <2>1 DEF Dispatch, Resume
  <2>2. CASE GateDone(t)
    BY <2>2 DEF GateDone, EndRow, Ends, TERMINAL_STATUSES
  <2>3. CASE GateRaises(t)
    BY <2>3 DEF GateRaises
  <2> QED BY <1>1, <2>1, <2>2, <2>3 DEF TaskStep
<1>2. ASSUME NEW t \in Tasks, NEW r \in Runs, RowStep(t, r) PROVE Shape
  <2>1. CASE StartFails(t, r)
    BY <2>1 DEF StartFails, Ends, TERMINAL_STATUSES
  <2>2. CASE ReadBrief(t, r)
    BY <2>2 DEF ReadBrief, MarksRunning
  <2>3. CASE PostReport(t, r)
    <3>1. PICK st \in TERMINAL_STATUSES, p \in BOOLEAN : RecordReport(t, r, st, p)
      BY <2>3 DEF PostReport, TERMINAL_STATUSES
    <3> QED BY <2>3, <3>1, RecordEnds DEF PostReport
  <2>4. CASE StallReport(t, r)
    BY <2>4 DEF StallReport
  <2>5. CASE BodyArrives(t, r)
    <3>1. PICK st \in TERMINAL_STATUSES, p \in BOOLEAN : RecordReport(t, r, st, p)
      BY <2>5 DEF BodyArrives, TERMINAL_STATUSES
    <3> QED BY <2>5, <3>1, RecordEnds DEF BodyArrives
  <2>6. CASE SeesExit(t, r) \/ Deadline(t, r)
    BY <2>6 DEF SeesExit, Deadline, Decide
  <2>7. CASE SupervisorReports(t, r)
    <3>1. verdict[<<t, r>>] \in TERMINAL_STATUSES
      BY <2>7 DEF SupervisorReports, Typed, TypeOK, RunBegun, TERMINAL_STATUSES
    <3>2. UNCHANGED run
      BY <2>7 DEF SupervisorReports
    <3>3. CASE RecordReport(t, r, verdict[<<t, r>>], FALSE)
      BY <3>1, <3>2, <3>3, RecordEnds
    <3>4. CASE UNCHANGED <<status, author, lock, notice, pushed, gate>>
      BY <3>2, <3>4
    <3> QED BY <2>7, <3>3, <3>4 DEF SupervisorReports
  <2> QED BY <1>2, <2>1, <2>2, <2>3, <2>4, <2>5, <2>6, <2>7 DEF RowStep
<1>3. ASSUME NEW j \in Jobs, JobStep(j) PROVE Shape
  BY <1>3 DEF JobStep, Spawn, StartReturns, WorkerExits, SendReport, Stop, SupervisorFails, Remove
<1>4. CASE UNCHANGED vars
  BY <1>4 DEF vars
<1> QED BY <1>1, <1>2, <1>3, <1>4 DEF Next

-----------------------------------------------------------------------------
(* The lock table.  LockMatchesTask is inductive with the types: a begin   *)
(* takes a key that no other active task has, every end releases it in the *)
(* same step, and a restart ends every task and frees every key.           *)

LEMMA LockBegin ==
    ASSUME Typed, LockMatchesTask, NEW t \in Tasks, Begin(t)
    PROVE  LockMatchesTask'
<1>0. BranchOf[t] \in Branches /\ NoTask \notin Tasks
  BY ConstantsAssumption
<1> USE DEF Typed, TypeOK, LockMatchesTask, Active, ACTIVE_STATUSES
<1>1. SUFFICES ASSUME NEW b \in Branches, NEW u \in Tasks
               PROVE  lock'[b] = u <=> (Active(u)' /\ BranchOf[u] = b)
  OBVIOUS
<1>2. /\ lock[BranchOf[t]] \in {NoTask, t}
      /\ lock' = [lock EXCEPT ![BranchOf[t]] = t]
      /\ status' = [status EXCEPT ![t] = "dispatched"]
  BY DEF Begin, LockFree, Acquired
<1>3. CASE b = BranchOf[t]
  BY <1>0, <1>2, <1>3
<1>4. CASE b # BranchOf[t]
  BY <1>0, <1>2, <1>4
<1> QED BY <1>3, <1>4

LEMMA LockEnds ==
    ASSUME Typed, LockMatchesTask, NEW t \in Tasks, Ends(t)
    PROVE  LockMatchesTask'
<1>0. BranchOf[t] \in Branches /\ NoTask \notin Tasks
  BY ConstantsAssumption
<1> USE DEF Typed, TypeOK, LockMatchesTask, Active, ACTIVE_STATUSES, TERMINAL_STATUSES
<1>1. SUFFICES ASSUME NEW b \in Branches, NEW u \in Tasks
               PROVE  lock'[b] = u <=> (Active(u)' /\ BranchOf[u] = b)
  OBVIOUS
<1>2. PICK st \in TERMINAL_STATUSES : status' = [status EXCEPT ![t] = st]
  BY DEF Ends
<1>3. lock' = [lock EXCEPT ![BranchOf[t]] = IF @ = t THEN NoTask ELSE @]
  BY DEF Ends, Released
<1>4. CASE u = t
  BY <1>0, <1>2, <1>3, <1>4
<1>5. CASE u # t
  BY <1>0, <1>2, <1>3, <1>5
<1> QED BY <1>4, <1>5

\* A key of the lock table is owned by exactly the active task that works on
\* it, in every reachable state, with every fault and on both runtimes.
THEOREM LocksMatch == Spec => []LockMatchesTask
<1>1. Init => LockMatchesTask
  BY ConstantsAssumption DEF Init, LockMatchesTask, Active, ACTIVE_STATUSES
<1>2. Typed /\ LockMatchesTask /\ [Next]_vars => LockMatchesTask'
  <2> SUFFICES ASSUME Typed, LockMatchesTask, [Next]_vars PROVE LockMatchesTask'
    OBVIOUS
  <2>1. ASSUME NEW t \in Tasks, Begin(t) PROVE LockMatchesTask'
    BY <2>1, LockBegin
  <2>2. ASSUME NEW t \in Tasks, Ends(t) PROVE LockMatchesTask'
    BY <2>2, LockEnds
  <2>3. ASSUME NEW t \in Tasks, MarksRunning(t) PROVE LockMatchesTask'
    BY <2>3 DEF MarksRunning, LockMatchesTask, Active, ACTIVE_STATUSES, Typed, TypeOK
  <2>4. CASE Restart
    BY <2>4, ConstantsAssumption DEF Restart, LockMatchesTask, Active, ACTIVE_STATUSES
  <2>5. CASE UNCHANGED <<status, lock, run>>
    BY <2>5 DEF LockMatchesTask, Active
  <2> QED BY <2>1, <2>2, <2>3, <2>4, <2>5, RowSteps
<1>3. Init => Typed
  BY TypedInit
<1>4. Typed /\ [Next]_vars => Typed'
  BY TypedNext
<1> QED BY <1>1, <1>2, <1>3, <1>4, PTL DEF Spec

-----------------------------------------------------------------------------
(* The number of active tasks grows only in a begin, which counts first.   *)

LEMMA ActiveFinite == IsFiniteSet(ActiveTasks) /\ IsFiniteSet(ActiveTasks)'
<1>1. IsFiniteSet(ActiveTasks)
  BY FS_Subset, ConstantsAssumption DEF ActiveTasks
<1>2. IsFiniteSet(ActiveTasks)'
  BY FS_Subset, ConstantsAssumption DEF ActiveTasks
<1> QED BY <1>1, <1>2

\* Never more than max_workers tasks are dispatched or running.
THEOREM CapacityHolds == Spec => []WithinCapacity
<1>1. Init => WithinCapacity
  <2>1. Init => ActiveTasks = {}
    BY DEF Init, ActiveTasks, Active, ACTIVE_STATUSES
  <2> QED BY <2>1, FS_EmptySet, ConstantsAssumption DEF WithinCapacity
<1>2. Typed /\ WithinCapacity /\ [Next]_vars => WithinCapacity'
  <2> SUFFICES ASSUME Typed, WithinCapacity, [Next]_vars PROVE WithinCapacity'
    OBVIOUS
  <2> USE DEF ActiveTasks, Active, ACTIVE_STATUSES, TERMINAL_STATUSES
  <2>1. ASSUME NEW t \in Tasks, Begin(t) PROVE WithinCapacity'
    <3>1. ActiveTasks' = ActiveTasks \cup {t}
      BY <2>1 DEF Begin, Typed, TypeOK
    <3>2. Cardinality(ActiveTasks) < MaxWorkers
      BY <2>1 DEF Begin, HasSlot
    <3>3. /\ Cardinality(ActiveTasks) \in Nat
          /\ \/ Cardinality(ActiveTasks \cup {t}) = Cardinality(ActiveTasks)
             \/ Cardinality(ActiveTasks \cup {t}) = Cardinality(ActiveTasks) + 1
      BY ActiveFinite, FS_AddElement, FS_CardinalityType
    <3> QED BY <3>1, <3>2, <3>3, ConstantsAssumption DEF WithinCapacity
  <2>2. ASSUME ActiveTasks' \subseteq ActiveTasks PROVE WithinCapacity'
    <3>1. /\ Cardinality(ActiveTasks') <= Cardinality(ActiveTasks)
          /\ Cardinality(ActiveTasks) \in Nat /\ Cardinality(ActiveTasks') \in Nat
      BY <2>2, ActiveFinite, FS_Subset, FS_CardinalityType
    <3> QED BY <3>1, ConstantsAssumption DEF WithinCapacity
  <2>3. ASSUME NEW t \in Tasks, Ends(t) PROVE ActiveTasks' \subseteq ActiveTasks
    BY <2>3 DEF Ends, Typed, TypeOK
  <2>4. ASSUME NEW t \in Tasks, MarksRunning(t) PROVE ActiveTasks' \subseteq ActiveTasks
    BY <2>4 DEF MarksRunning, Typed, TypeOK
  <2>5. CASE Restart
    BY <2>5, <2>2 DEF Restart
  <2>6. CASE UNCHANGED <<status, lock, run>>
    BY <2>6, <2>2
  <2> QED BY <2>1, <2>2, <2>3, <2>4, <2>5, <2>6, RowSteps
<1>3. Init => Typed
  BY TypedInit
<1>4. Typed /\ [Next]_vars => Typed'
  BY TypedNext
<1> QED BY <1>1, <1>2, <1>3, <1>4, PTL DEF Spec

-----------------------------------------------------------------------------
(* Docker whose API answers, and reports that come whole (the git host may *)
(* fail): no worker outlives the run of its task.  The                     *)
(* invariant says who can still write to a row.  A worker that is up, one  *)
(* that is about to be made, and a push that is being gated all belong to  *)
(* the run the row is on; a supervisor that has left its loop has seen its *)
(* worker gone.                                                            *)

DockerAnswers == Runtime = "docker" /\ Faults \subseteq {"git_host"}

SpawnServesRun ==
    \A t \in Tasks, r \in Runs :
        <<t, r>> \in starting /\ worker[<<t, r>>] = "none" =>
            IsActive(t, r) /\ gate[t] = 0

GateServesRun ==
    \A t \in Tasks :
        gate[t] # 0 =>
            IsActive(t, gate[t]) /\ worker[<<t, gate[t]>>] \in {"reported", "gone"}

LateSupervisorSawExit ==
    \A j \in Jobs :
        supervisor[j] \in {"reporting", "removing", "done"} => worker[j] = "gone"

WatchedWasMade == \A j \in Jobs : supervisor[j] # "none" => worker[j] # "none"

DockerInv ==
    /\ stalled = {}
    /\ WorkerHasTask /\ OwnReport
    /\ SpawnServesRun /\ GateServesRun /\ LateSupervisorSawExit /\ WatchedWasMade

LEMMA DockerInit == Init => DockerInv
BY DEF Init, DockerInv, WorkerHasTask, OwnReport, SpawnServesRun, GateServesRun,
       LateSupervisorSawExit, WatchedWasMade

\* A record of a report of the current run, whose worker is no longer up.
LEMMA DockerRecord ==
    ASSUME Typed, DockerInv, NEW t \in Tasks, NEW r \in Runs, NEW st \in TERMINAL_STATUSES,
           NEW p \in BOOLEAN, RecordReport(t, r, st, p), IsActive(t, r),
           worker[<<t, r>>] # "none", NEW w \in {"reported", "gone"},
           worker' = [worker EXCEPT ![<<t, r>>] = w],
           UNCHANGED <<run, starting, stalled>>
    PROVE  /\ stalled' = {}
           /\ WorkerHasTask' /\ OwnReport'
           /\ SpawnServesRun' /\ GateServesRun'
<1> USE DEF Typed, TypeOK, DockerInv, IsActive, Active, ACTIVE_STATUSES, TERMINAL_STATUSES
<1>1. /\ run[t] = r /\ r # 0 /\ status[t] \in ACTIVE_STATUSES
      /\ stalled' = {} /\ starting' = starting /\ run' = run
  OBVIOUS
<1>2. ASSUME NEW u \in Tasks, NEW q \in Runs
      PROVE  /\ worker'[<<u, q>>] = "up" => worker[<<u, q>>] = "up" /\ <<u, q>> # <<t, r>>
             /\ worker'[<<u, q>>] = "none" => worker[<<u, q>>] = "none" /\ <<u, q>> # <<t, r>>
             /\ worker[<<u, q>>] \in {"reported", "gone"} =>
                    worker'[<<u, q>>] \in {"reported", "gone"}
  OBVIOUS
<1>3. ASSUME NEW u \in Tasks, NEW q \in Runs, worker'[<<u, q>>] = "up"
      PROVE  u # t /\ IsActive(u, q)
  BY <1>1, <1>2, <1>3 DEF WorkerHasTask
<1>4. ASSUME NEW u \in Tasks, NEW q \in Runs, <<u, q>> \in starting', worker'[<<u, q>>] = "none"
      PROVE  u # t /\ IsActive(u, q) /\ gate[u] = 0
  BY <1>1, <1>2, <1>4 DEF SpawnServesRun
<1>5. CASE UNCHANGED <<status, author, gate>>
  <2>1. WorkerHasTask' /\ OwnReport'
    BY <1>1, <1>3, <1>5 DEF WorkerHasTask, OwnReport
  <2>2. SpawnServesRun'
    BY <1>1, <1>4, <1>5 DEF SpawnServesRun
  <2>3. GateServesRun'
    BY <1>1, <1>2, <1>5 DEF GateServesRun
  <2> QED BY <1>1, <2>1, <2>2, <2>3
<1>6. CASE gate' = [gate EXCEPT ![t] = r] /\ UNCHANGED <<status, author>>
  <2>1. WorkerHasTask' /\ OwnReport'
    BY <1>1, <1>3, <1>6 DEF WorkerHasTask, OwnReport
  <2>2. SpawnServesRun'
    BY <1>1, <1>4, <1>6 DEF SpawnServesRun
  <2>3. ASSUME NEW u \in Tasks, gate'[u] # 0
        PROVE  IsActive(u, gate[u])' /\ worker'[<<u, gate'[u]>>] \in {"reported", "gone"}
    <3>1. CASE u = t
      BY <1>1, <1>6, <3>1
    <3>2. CASE u # t
      <4>1. gate'[u] = gate[u] /\ gate[u] \in Runs
        BY <1>6, <2>3, <3>2
      <4>2. IsActive(u, gate[u]) /\ worker[<<u, gate[u]>>] \in {"reported", "gone"}
        BY <2>3, <4>1 DEF GateServesRun
      <4> QED BY <1>1, <1>2, <1>6, <4>1, <4>2
    <3> QED BY <3>1, <3>2
  <2> QED BY <1>1, <2>1, <2>2, <2>3 DEF GateServesRun
<1>7. CASE /\ gate[t] = 0
           /\ status' = [status EXCEPT ![t] = st]
           /\ author' = [author EXCEPT ![t] = r]
           /\ UNCHANGED gate
  <2>1. WorkerHasTask' /\ OwnReport'
    BY <1>1, <1>3, <1>7 DEF WorkerHasTask, OwnReport
  <2>2. SpawnServesRun'
    BY <1>1, <1>4, <1>7 DEF SpawnServesRun
  <2>3. GateServesRun'
    BY <1>1, <1>2, <1>7 DEF GateServesRun
  <2> QED BY <1>1, <2>1, <2>2, <2>3
<1> QED BY <1>5, <1>6, <1>7 DEF RecordReport, EndRow, Ignored

LEMMA DockerTaskStep ==
    ASSUME Typed, DockerInv, NEW t \in Tasks, TaskStep(t), DockerAnswers
    PROVE  DockerInv'
<1> USE DEF Typed, TypeOK, DockerInv, IsActive, Active, ACTIVE_STATUSES, TERMINAL_STATUSES,
            RESUMABLE_STATUSES
<1>1. CASE Dispatch(t) \/ Resume(t)
  <2>1. /\ status[t] \notin ACTIVE_STATUSES
        /\ status' = [status EXCEPT ![t] = "dispatched"]
        /\ run' = [run EXCEPT ![t] = run[t] + 1]
        /\ author' = [author EXCEPT ![t] = 0]
        /\ starting' = starting \cup {<<t, run[t] + 1>>}
        /\ UNCHANGED <<gate, stalled, worker, supervisor>>
    BY <1>1 DEF Dispatch, Resume, Begin
  <2>2. WorkerHasTask'
    BY <2>1 DEF WorkerHasTask
  <2>3. OwnReport'
    BY <2>1 DEF OwnReport
  <2>4. gate[t] = 0
    BY <2>1 DEF GateServesRun
  <2>5. SpawnServesRun'
    <3>1. SUFFICES ASSUME NEW u \in Tasks, NEW q \in Runs, <<u, q>> \in starting',
                          worker'[<<u, q>>] = "none"
                   PROVE  IsActive(u, q)' /\ gate'[u] = 0
      BY DEF SpawnServesRun
    <3>2. CASE <<u, q>> \in starting
      BY <2>1, <3>1, <3>2 DEF SpawnServesRun
    <3>3. CASE u = t /\ q = run[t] + 1
      BY <2>1, <2>4, <3>1, <3>3
    <3> QED BY <2>1, <3>1, <3>2, <3>3
  <2>6. GateServesRun'
    BY <2>1, <2>4 DEF GateServesRun
  <2>7. LateSupervisorSawExit' /\ WatchedWasMade'
    BY <2>1 DEF LateSupervisorSawExit, WatchedWasMade
  <2> QED BY <2>1, <2>2, <2>3, <2>5, <2>6, <2>7
<1>2. CASE GateDone(t)
  <2>1. PICK st \in TERMINAL_STATUSES : EndRow(t, gate[t], st)
    BY <1>2, ConstantsAssumption DEF GateDone
  <2>2. /\ gate[t] # 0
        /\ gate' = [gate EXCEPT ![t] = 0]
        /\ UNCHANGED <<run, starting, stalled, worker, supervisor>>
    BY <1>2 DEF GateDone
  <2>3. /\ status' = [status EXCEPT ![t] = st]
        /\ author' = [author EXCEPT ![t] = gate[t]]
    BY <2>1 DEF EndRow
  <2>4. /\ IsActive(t, gate[t])
        /\ worker[<<t, gate[t]>>] \in {"reported", "gone"}
    BY <2>2 DEF GateServesRun
  <2>5. ASSUME NEW u \in Tasks, NEW q \in Runs, worker'[<<u, q>>] = "up"
        PROVE  IsActive(u, q)'
    <3>1. worker[<<u, q>>] = "up" /\ IsActive(u, q)
      BY <2>2, <2>5 DEF WorkerHasTask
    <3>2. u # t
      BY <2>4, <3>1
    <3> QED BY <2>2, <2>3, <3>1, <3>2
  <2>6. OwnReport'
    BY <2>2, <2>3, <2>4 DEF OwnReport
  <2>7. SpawnServesRun' /\ GateServesRun'
    <3>1. SpawnServesRun'
      BY <2>2, <2>3 DEF SpawnServesRun
    <3>2. ASSUME NEW u \in Tasks, gate'[u] # 0
          PROVE  IsActive(u, gate[u])' /\ worker'[<<u, gate'[u]>>] \in {"reported", "gone"}
      <4>1. u # t /\ gate'[u] = gate[u] /\ status'[u] = status[u]
        BY <2>2, <2>3, <3>2
      <4>2. IsActive(u, gate[u]) /\ worker[<<u, gate[u]>>] \in {"reported", "gone"}
        BY <3>2, <4>1 DEF GateServesRun
      <4> QED BY <2>2, <4>1, <4>2
    <3> QED BY <3>1, <3>2 DEF GateServesRun
  <2>8. LateSupervisorSawExit' /\ WatchedWasMade'
    BY <2>2 DEF LateSupervisorSawExit, WatchedWasMade
  <2> QED BY <2>2, <2>5, <2>6, <2>7, <2>8 DEF WorkerHasTask
<1>3. CASE GateRaises(t)
  <2>1. /\ gate' = [gate EXCEPT ![t] = 0]
        /\ UNCHANGED <<status, run, author, starting, stalled, worker, supervisor>>
    BY <1>3 DEF GateRaises
  <2>2. WorkerHasTask' /\ OwnReport' /\ SpawnServesRun'
    BY <2>1 DEF WorkerHasTask, OwnReport, SpawnServesRun
  <2>3. GateServesRun'
    BY <2>1 DEF GateServesRun
  <2>4. LateSupervisorSawExit' /\ WatchedWasMade'
    BY <2>1 DEF LateSupervisorSawExit, WatchedWasMade
  <2> QED BY <2>1, <2>2, <2>3, <2>4
<1> QED BY <1>1, <1>2, <1>3 DEF TaskStep

LEMMA DockerRowStep ==
    ASSUME Typed, DockerInv, NEW t \in Tasks, NEW r \in Runs, RowStep(t, r), DockerAnswers
    PROVE  DockerInv'
<1> USE DEF Typed, TypeOK, DockerInv, IsActive, Active, ACTIVE_STATUSES, TERMINAL_STATUSES
<1> DEFINE j == <<t, r>>
<1>1. CASE StartFails(t, r)
  <2>1. /\ j \in starting /\ worker[j] = "none"
        /\ starting' = starting \ {j}
        /\ status' = [status EXCEPT ![t] = "failed"]
        /\ UNCHANGED <<run, author, gate, stalled, supervisor>>
    BY <1>1 DEF StartFails, DockerAnswers
  <2>2. UNCHANGED worker
    BY <1>1, <2>1 DEF StartFails
  <2>3. run[t] = r /\ gate[t] = 0
    BY <2>1 DEF SpawnServesRun
  <2>4. WorkerHasTask' /\ OwnReport'
    <3>1. ASSUME NEW u \in Tasks, NEW q \in Runs, worker'[<<u, q>>] = "up"
          PROVE  IsActive(u, q)'
      <4>1. worker[<<u, q>>] = "up" /\ IsActive(u, q)
        BY <2>2, <3>1 DEF WorkerHasTask
      <4>2. u # t
        BY <2>1, <2>3, <4>1
      <4> QED BY <2>1, <4>1, <4>2
    <3>2. OwnReport'
      BY <2>1 DEF OwnReport
    <3> QED BY <3>1, <3>2 DEF WorkerHasTask
  <2>5. SpawnServesRun'
    BY <2>1, <2>2, <2>3 DEF SpawnServesRun
  <2>6. ASSUME NEW u \in Tasks, gate'[u] # 0
        PROVE  IsActive(u, gate[u])' /\ worker'[<<u, gate'[u]>>] \in {"reported", "gone"}
    <3>1. u # t /\ gate'[u] = gate[u] /\ status'[u] = status[u]
      BY <2>1, <2>3, <2>6
    <3>2. IsActive(u, gate[u]) /\ worker[<<u, gate[u]>>] \in {"reported", "gone"}
      BY <2>6, <3>1 DEF GateServesRun
    <3> QED BY <2>1, <2>2, <3>1, <3>2
  <2>7. LateSupervisorSawExit' /\ WatchedWasMade'
    BY <2>1, <2>2 DEF LateSupervisorSawExit, WatchedWasMade
  <2> QED BY <2>1, <2>4, <2>5, <2>6, <2>7 DEF GateServesRun
<1>2. CASE ReadBrief(t, r)
  <2>1. /\ status[t] = "dispatched"
        /\ status' = [status EXCEPT ![t] = "running"]
        /\ UNCHANGED <<run, author, gate, starting, stalled, worker, supervisor>>
    BY <1>2 DEF ReadBrief
  <2> QED BY <2>1 DEF WorkerHasTask, OwnReport, SpawnServesRun, GateServesRun,
                      LateSupervisorSawExit, WatchedWasMade
<1>3. CASE PostReport(t, r)
  <2>1. /\ worker[j] \in {"up", "reported"}
        /\ worker' = [worker EXCEPT ![j] = "reported"]
        /\ UNCHANGED <<run, starting, stalled, supervisor>>
    BY <1>3 DEF PostReport
  <2>2. IsActive(t, r)
    BY <1>3 DEF PostReport, Authorized
  <2>3. PICK st \in TERMINAL_STATUSES, p \in BOOLEAN : RecordReport(t, r, st, p)
    BY <1>3, ConstantsAssumption DEF PostReport
  <2>4. worker[j] # "none" /\ UNCHANGED <<run, starting, stalled>>
    BY <2>1
  <2>5. /\ stalled' = {}
        /\ WorkerHasTask' /\ OwnReport'
        /\ SpawnServesRun' /\ GateServesRun'
    BY <2>1, <2>2, <2>3, <2>4, DockerRecord
  <2>6. LateSupervisorSawExit' /\ WatchedWasMade'
    BY <2>1 DEF LateSupervisorSawExit, WatchedWasMade
  <2> QED BY <2>5, <2>6
<1>4. CASE StallReport(t, r) \/ BodyArrives(t, r)
  BY <1>4 DEF StallReport, BodyArrives, DockerAnswers
<1>5. CASE SeesExit(t, r) \/ Deadline(t, r)
  <2>1. PICK next \in {"stopping", "reporting"}, st \in {"failed", "timed_out"} :
          /\ Decide(t, r, next, st)
          /\ supervisor[j] = "watching"
          /\ next = "reporting" => worker[j] = "gone"
    BY <1>5 DEF SeesExit, Deadline
  <2>2. /\ supervisor' = [supervisor EXCEPT ![j] = next]
        /\ UNCHANGED <<status, run, author, gate, starting, stalled, worker>>
    BY <2>1 DEF Decide, DockerAnswers, rowVars
  <2>3. WorkerHasTask' /\ OwnReport' /\ SpawnServesRun' /\ GateServesRun'
    BY <2>2 DEF WorkerHasTask, OwnReport, SpawnServesRun, GateServesRun
  <2>4. LateSupervisorSawExit' /\ WatchedWasMade'
    BY <2>1, <2>2 DEF LateSupervisorSawExit, WatchedWasMade
  <2> QED BY <2>2, <2>3, <2>4
<1>6. CASE SupervisorReports(t, r)
  <2>1. /\ worker[j] = "gone"
        /\ verdict[j] \in TERMINAL_STATUSES
        /\ supervisor' = [supervisor EXCEPT ![j] = "removing"]
        /\ UNCHANGED <<run, starting, stalled, worker>>
    BY <1>6 DEF SupervisorReports, LateSupervisorSawExit, RunBegun
  <2>2. LateSupervisorSawExit' /\ WatchedWasMade'
    BY <2>1 DEF LateSupervisorSawExit, WatchedWasMade
  <2>3. CASE IsActive(t, r)
    <3>1. PICK st \in TERMINAL_STATUSES, p \in BOOLEAN : RecordReport(t, r, st, p)
      BY <1>6, <2>1, <2>3 DEF SupervisorReports
    <3>2. /\ stalled' = {}
          /\ WorkerHasTask' /\ OwnReport'
          /\ SpawnServesRun' /\ GateServesRun'
      <4>1. worker[j] # "none" /\ worker' = [worker EXCEPT ![j] = "gone"]
        BY <2>1
      <4>2. UNCHANGED <<run, starting, stalled>>
        BY <2>1
      <4> QED BY <2>3, <3>1, <4>1, <4>2, DockerRecord
    <3> QED BY <2>2, <3>2
  <2>4. CASE ~IsActive(t, r)
    <3>1. UNCHANGED <<status, author, gate>>
      BY <1>6, <2>4 DEF SupervisorReports, DockerAnswers
    <3>2. WorkerHasTask' /\ OwnReport' /\ SpawnServesRun' /\ GateServesRun'
      BY <2>1, <3>1 DEF WorkerHasTask, OwnReport, SpawnServesRun, GateServesRun
    <3> QED BY <2>1, <2>2, <3>2
  <2> QED BY <2>3, <2>4
<1> QED BY <1>1, <1>2, <1>3, <1>4, <1>5, <1>6 DEF RowStep


LEMMA DockerJobStep ==
    ASSUME Typed, DockerInv, NEW j \in Jobs, JobStep(j), DockerAnswers
    PROVE  DockerInv'
<1> USE DEF Typed, TypeOK, DockerInv, IsActive, Active
<1> PICK t \in Tasks, r \in Runs : j = <<t, r>>
  OBVIOUS
\* A job whose worker goes, or whose supervisor moves, lets no worker in.
<1>1. ASSUME UNCHANGED <<status, run, author, gate, stalled>>, starting' \subseteq starting,
             worker' = worker \/ (worker[j] # "none" /\ worker' = [worker EXCEPT ![j] = "gone"])
      PROVE  stalled' = {} /\ WorkerHasTask' /\ OwnReport' /\ SpawnServesRun' /\ GateServesRun'
  <2>1. ASSUME NEW i \in Jobs
        PROVE  /\ worker'[i] = "up" => worker[i] = "up"
               /\ worker'[i] = "none" => worker[i] = "none"
               /\ worker[i] \in {"reported", "gone"} => worker'[i] \in {"reported", "gone"}
    BY <1>1
  <2>2. WorkerHasTask' /\ OwnReport'
    BY <1>1, <2>1 DEF WorkerHasTask, OwnReport
  <2>3. SpawnServesRun'
    BY <1>1, <2>1 DEF SpawnServesRun
  <2>4. GateServesRun'
    BY <1>1, <2>1 DEF GateServesRun
  <2> QED BY <1>1, <2>2, <2>3, <2>4
<1>2. CASE Spawn(j)
  <2>1. /\ j \in starting /\ worker[j] = "none" /\ IsActive(t, r) /\ gate[t] = 0
        /\ worker' = [worker EXCEPT ![j] = "up"]
        /\ UNCHANGED <<status, run, author, gate, starting, stalled, supervisor>>
    BY <1>2 DEF Spawn, SpawnServesRun, rowVars
  <2>2. WorkerHasTask' /\ OwnReport'
    BY <2>1 DEF WorkerHasTask, OwnReport
  <2>3. SpawnServesRun'
    BY <2>1 DEF SpawnServesRun
  <2>4. GateServesRun'
    BY <2>1 DEF GateServesRun
  <2>5. LateSupervisorSawExit' /\ WatchedWasMade'
    BY <2>1 DEF LateSupervisorSawExit, WatchedWasMade
  <2> QED BY <2>1, <2>2, <2>3, <2>4, <2>5
<1>3. CASE StartReturns(j)
  <2>1. /\ worker[j] # "none"
        /\ starting' \subseteq starting
        /\ supervisor' = [supervisor EXCEPT ![j] = "watching"]
        /\ UNCHANGED <<status, run, author, gate, stalled, worker>>
    BY <1>3 DEF StartReturns, rowVars
  <2>2. LateSupervisorSawExit' /\ WatchedWasMade'
    BY <2>1 DEF LateSupervisorSawExit, WatchedWasMade
  <2> QED BY <1>1, <2>1, <2>2
<1>4. CASE WorkerExits(j)
  <2>1. /\ worker[j] # "none"
        /\ worker' = [worker EXCEPT ![j] = "gone"]
        /\ UNCHANGED <<status, run, author, gate, starting, stalled, supervisor>>
    BY <1>4 DEF WorkerExits, rowVars
  <2>2. LateSupervisorSawExit' /\ WatchedWasMade'
    BY <2>1 DEF LateSupervisorSawExit, WatchedWasMade
  <2> QED BY <1>1, <2>1, <2>2
<1>5. CASE SendReport(j)
  <2>1. UNCHANGED <<status, run, author, gate, starting, stalled, worker, supervisor>>
    BY <1>5 DEF SendReport, rowVars
  <2>2. LateSupervisorSawExit' /\ WatchedWasMade'
    BY <2>1 DEF LateSupervisorSawExit, WatchedWasMade
  <2> QED BY <1>1, <2>1, <2>2
<1>6. CASE Stop(j)
  <2>1. /\ worker[j] # "none"
        /\ worker' = [worker EXCEPT ![j] = "gone"]
        /\ supervisor' = [supervisor EXCEPT ![j] = "reporting"]
        /\ UNCHANGED <<status, run, author, gate, starting, stalled>>
    BY <1>6 DEF Stop, rowVars, DockerAnswers, WatchedWasMade
  <2>2. LateSupervisorSawExit' /\ WatchedWasMade'
    BY <2>1 DEF LateSupervisorSawExit, WatchedWasMade
  <2> QED BY <1>1, <2>1, <2>2
<1>7. CASE SupervisorFails(j)
  BY <1>7 DEF SupervisorFails, DockerAnswers
<1>8. CASE Remove(j)
  <2>1. /\ worker[j] # "none"
        /\ worker' = [worker EXCEPT ![j] = "gone"]
        /\ \E next \in {"done", "dead"} : supervisor' = [supervisor EXCEPT ![j] = next]
        /\ UNCHANGED <<status, run, author, gate, starting, stalled>>
    BY <1>8 DEF Remove, rowVars, DockerAnswers, WatchedWasMade
  <2>2. LateSupervisorSawExit' /\ WatchedWasMade'
    BY <2>1 DEF LateSupervisorSawExit, WatchedWasMade
  <2> QED BY <1>1, <2>1, <2>2
<1> QED BY <1>2, <1>3, <1>4, <1>5, <1>6, <1>7, <1>8 DEF JobStep

LEMMA DockerNext ==
    ASSUME Typed, DockerInv, [Next]_vars, DockerAnswers
    PROVE  DockerInv'
<1>1. ASSUME NEW t \in Tasks, TaskStep(t) PROVE DockerInv'
  BY <1>1, DockerTaskStep
<1>2. ASSUME NEW t \in Tasks, NEW r \in Runs, RowStep(t, r) PROVE DockerInv'
  BY <1>2, DockerRowStep
<1>3. ASSUME NEW j \in Jobs, JobStep(j) PROVE DockerInv'
  BY <1>3, DockerJobStep
<1>4. CASE Restart
  <2>1. /\ worker' = [j \in Jobs |-> IF worker[j] = "none" THEN "none" ELSE "gone"]
        /\ supervisor' = [j \in Jobs |-> IF supervisor[j] = "none" THEN "none" ELSE "done"]
        /\ gate' = [t \in Tasks |-> 0]
        /\ starting' = {} /\ stalled' = {}
        /\ UNCHANGED <<run, author>>
    BY <1>4 DEF Restart, OrphansRemoved, DockerAnswers
  <2>2. \A j \in Jobs : worker'[j] # "up" /\ (worker'[j] = "none" <=> worker[j] = "none")
    BY <2>1
  <2>3. WorkerHasTask' /\ SpawnServesRun' /\ GateServesRun'
    BY <2>1, <2>2 DEF WorkerHasTask, SpawnServesRun, GateServesRun
  <2>4. OwnReport'
    BY <2>1 DEF DockerInv, OwnReport
  <2>5. \A j \in Jobs : supervisor'[j] # "none" => worker'[j] = "gone"
    BY <2>1 DEF DockerInv, WatchedWasMade
  <2>6. LateSupervisorSawExit' /\ WatchedWasMade'
    BY <2>5 DEF LateSupervisorSawExit, WatchedWasMade
  <2> QED BY <2>1, <2>3, <2>4, <2>6 DEF DockerInv
<1>5. CASE UNCHANGED vars
  BY <1>5 DEF vars, DockerInv, WorkerHasTask, OwnReport, SpawnServesRun, GateServesRun,
              LateSupervisorSawExit, WatchedWasMade, IsActive, Active
<1> QED BY <1>1, <1>2, <1>3, <1>4, <1>5 DEF Next

\* On Docker, when its API answers, a container that can still push belongs
\* to the current run of a task that has not ended: through deadlines, late
\* reports, resumes and restarts of the manager.
THEOREM DockerWorkers == DockerAnswers => (Spec => []WorkerHasTask)
<1> SUFFICES ASSUME DockerAnswers PROVE Spec => []WorkerHasTask
  OBVIOUS
<1>1. Init => Typed /\ DockerInv
  BY TypedInit, DockerInit
<1>2. Typed /\ DockerInv /\ [Next]_vars => (Typed /\ DockerInv)'
  BY TypedNext, DockerNext
<1>3. DockerInv => WorkerHasTask
  BY DEF DockerInv
<1> QED BY <1>1, <1>2, <1>3, PTL DEF Spec

\* On Docker, when its API answers, the report in a row was written by the
\* run the row is on.
THEOREM DockerReports == DockerAnswers => (Spec => []OwnReport)
<1> SUFFICES ASSUME DockerAnswers PROVE Spec => []OwnReport
  OBVIOUS
<1>1. Init => Typed /\ DockerInv
  BY TypedInit, DockerInit
<1>2. Typed /\ DockerInv /\ [Next]_vars => (Typed /\ DockerInv)'
  BY TypedNext, DockerNext
<1>3. DockerInv => OwnReport
  BY DEF DockerInv
<1> QED BY <1>1, <1>2, <1>3, PTL DEF Spec

-----------------------------------------------------------------------------
(* What a step may do to a task that ended, and to its event, on Docker    *)
(* whose API answers.  RowSteps says that a begin or an end happens; here  *)
(* the invariant adds that only an active task ends, and that pushed       *)
(* changes with the end of its own task.                                   *)

\* A task that is active ends, and its pushed flag with it.
EndsActive(t) ==
    /\ Active(t)
    /\ Ends(t)
    /\ \E p \in BOOLEAN : pushed' = [pushed EXCEPT ![t] = p]

\* The event of the run that ends is due, or its caller has the result.
Announces(t) ==
    \/ notice' = [notice EXCEPT ![<<t, run[t]>>] = "due"]
    \/ notice' = [notice EXCEPT ![<<t, run[t]>>] = IF @ = "none" THEN "returned" ELSE @]

StepKinds ==
    \/ \E t \in Tasks : (Dispatch(t) \/ Resume(t)) /\ UNCHANGED notice
    \/ \E t \in Tasks : EndsActive(t) /\ Announces(t)
    \/ \E t \in Tasks : MarksRunning(t) /\ UNCHANGED <<pushed, notice>>
    \/ Restart
    \/ UNCHANGED <<status, lock, run, pushed>> /\ UNCHANGED notice
    \/ /\ UNCHANGED <<status, lock, run, pushed>>
       /\ \E j \in Jobs : notice' = [notice EXCEPT ![j] = "sent"]

LEMMA RecordKinds ==
    ASSUME Typed, NEW t \in Tasks, NEW r, NEW st \in TERMINAL_STATUSES, NEW p,
           RecordReport(t, r, st, p), UNCHANGED run, Active(t)
    PROVE  \/ EndsActive(t) /\ Announces(t)
           \/ UNCHANGED <<status, lock, run, pushed>> /\ UNCHANGED notice
<1>1. CASE ~Ignored(t) /\ ~p
  <2>1. EndRow(t, r, st) /\ UNCHANGED pushed
    BY <1>1 DEF RecordReport
  <2>2. Ends(t) /\ Announces(t)
    BY <2>1 DEF EndRow, Ends, Announces
  <2>3. pushed' = [pushed EXCEPT ![t] = pushed[t]] /\ pushed[t] \in BOOLEAN
    BY <2>1 DEF Typed, TypeOK
  <2> QED BY <2>2, <2>3 DEF EndsActive
<1>2. CASE Ignored(t) \/ p
  BY <1>2 DEF RecordReport
<1> QED BY <1>1, <1>2

LEMMA DockerSteps ==
    ASSUME Typed, DockerInv, [Next]_vars, DockerAnswers
    PROVE  StepKinds
<1> USE ConstantsAssumption DEF rowVars
<1>1. ASSUME NEW t \in Tasks, TaskStep(t) PROVE StepKinds
  <2>1. CASE Dispatch(t) \/ Resume(t)
    BY <2>1 DEF StepKinds, Dispatch, Resume, Begin
  <2>2. CASE GateDone(t)
    <3>1. Active(t)
      BY <2>2 DEF GateDone, DockerInv, GateServesRun, IsActive
    <3>2. PICK st \in TERMINAL_STATUSES : EndRow(t, gate[t], st)
      BY <2>2 DEF GateDone, TERMINAL_STATUSES
    <3>3. Ends(t) /\ Announces(t)
      BY <2>2, <3>2 DEF GateDone, EndRow, Ends, Announces
    <3>4. pushed' = [pushed EXCEPT ![t] = TRUE]
      BY <2>2 DEF GateDone
    <3> QED BY <3>1, <3>3, <3>4 DEF EndsActive, StepKinds
  <2>3. CASE GateRaises(t)
    BY <2>3 DEF GateRaises, StepKinds
  <2> QED BY <1>1, <2>1, <2>2, <2>3 DEF TaskStep
<1>2. ASSUME NEW t \in Tasks, NEW r \in Runs, RowStep(t, r) PROVE StepKinds
  <2>1. CASE StartFails(t, r)
    <3>1. <<t, r>> \in starting /\ worker[<<t, r>>] = "none"
      BY <2>1 DEF StartFails, DockerAnswers
    <3>2. Active(t) /\ run[t] = r
      BY <3>1 DEF DockerInv, SpawnServesRun, IsActive
    <3>3. Ends(t)
      BY <2>1 DEF StartFails, Ends, TERMINAL_STATUSES
    <3>4. Announces(t)
      BY <2>1, <3>2 DEF StartFails, Announces
    <3>5. pushed' = [pushed EXCEPT ![t] = pushed[t]] /\ pushed[t] \in BOOLEAN
      BY <2>1 DEF StartFails, Typed, TypeOK
    <3> QED BY <3>2, <3>3, <3>4, <3>5 DEF EndsActive, StepKinds
  <2>2. CASE ReadBrief(t, r)
    BY <2>2 DEF ReadBrief, MarksRunning, StepKinds
  <2>3. CASE PostReport(t, r)
    <3>1. Active(t) /\ UNCHANGED run
      BY <2>3 DEF PostReport, Authorized
    <3>2. PICK st \in TERMINAL_STATUSES, p \in BOOLEAN : RecordReport(t, r, st, p)
      BY <2>3 DEF PostReport, TERMINAL_STATUSES
    <3> QED BY <3>1, <3>2, RecordKinds DEF StepKinds
  <2>4. CASE StallReport(t, r) \/ BodyArrives(t, r)
    BY <2>4 DEF StallReport, BodyArrives, DockerAnswers, DockerInv
  <2>5. CASE SeesExit(t, r) \/ Deadline(t, r)
    BY <2>5 DEF SeesExit, Deadline, Decide, StepKinds
  <2>6. CASE SupervisorReports(t, r)
    <3>1. verdict[<<t, r>>] \in TERMINAL_STATUSES /\ UNCHANGED run
      BY <2>6 DEF SupervisorReports, Typed, TypeOK, RunBegun, TERMINAL_STATUSES
    <3>2. CASE IsActive(t, r)
      <4>1. Active(t) /\ RecordReport(t, r, verdict[<<t, r>>], FALSE)
        BY <2>6, <3>2 DEF SupervisorReports, IsActive
      <4> QED BY <3>1, <4>1, RecordKinds DEF StepKinds
    <3>3. CASE ~IsActive(t, r)
      BY <2>6, <3>1, <3>3 DEF SupervisorReports, DockerAnswers, StepKinds
    <3> QED BY <3>2, <3>3
  <2> QED BY <1>2, <2>1, <2>2, <2>3, <2>4, <2>5, <2>6 DEF RowStep
<1>3. ASSUME NEW j \in Jobs, JobStep(j) PROVE StepKinds
  <2>1. CASE SendReport(j)
    BY <2>1 DEF SendReport, StepKinds
  <2>2. CASE ~SendReport(j)
    BY <1>3, <2>2 DEF JobStep, Spawn, StartReturns, WorkerExits, Stop, SupervisorFails, Remove,
                      StepKinds
  <2> QED BY <2>1, <2>2
<1>4. CASE Restart
  BY <1>4 DEF StepKinds
<1>5. CASE UNCHANGED vars
  BY <1>5 DEF vars, StepKinds
<1> QED BY <1>1, <1>2, <1>3, <1>4, <1>5 DEF Next

\* On Docker, when its API answers, a final status changes only by a resume:
\* no late report, gate or failed start rewrites it.
THEOREM EndStays == DockerAnswers => (Spec => EndedStaysEnded)
<1> SUFFICES ASSUME DockerAnswers PROVE Spec => EndedStaysEnded
  OBVIOUS
<1> DEFINE Kept == \A t \in Tasks :
        status[t] \in TERMINAL_STATUSES /\ status'[t] # status[t] => run'[t] = run[t] + 1
<1>1. Init => Typed /\ DockerInv
  BY TypedInit, DockerInit
<1>2. Typed /\ DockerInv /\ [Next]_vars => (Typed /\ DockerInv)'
  BY TypedNext, DockerNext
<1>3. Typed /\ DockerInv /\ [Next]_vars => [Kept]_vars
  <2> SUFFICES ASSUME Typed, DockerInv, [Next]_vars PROVE Kept
    OBVIOUS
  <2> USE DEF Typed, TypeOK, Active, ACTIVE_STATUSES, TERMINAL_STATUSES
  <2>1. ASSUME NEW t \in Tasks, Dispatch(t) \/ Resume(t) PROVE Kept
    BY <2>1 DEF Dispatch, Resume, Begin
  <2>2. ASSUME NEW t \in Tasks, EndsActive(t) PROVE Kept
    BY <2>2 DEF EndsActive, Ends
  <2>3. ASSUME NEW t \in Tasks, MarksRunning(t) PROVE Kept
    BY <2>3 DEF MarksRunning
  <2>4. CASE Restart
    BY <2>4 DEF Restart
  <2>5. CASE UNCHANGED <<status, lock, run, pushed>>
    BY <2>5
  <2> QED BY <2>1, <2>2, <2>3, <2>4, <2>5, DockerSteps DEF StepKinds
<1> QED BY <1>1, <1>2, <1>3, PTL DEF Spec, EndedStaysEnded

-----------------------------------------------------------------------------
(* Until a restart no event is lost, and a task that ended has one.        *)

Told ==
    restarts = 0 =>
        /\ \A j \in Jobs : notice[j] \in {"none", "due", "sent", "returned"}
        /\ \A t \in Tasks :
            status[t] \in TERMINAL_STATUSES => notice[<<t, run[t]>>] # "none"

LEMMA RestartsCount == ASSUME [Next]_vars PROVE Restart \/ UNCHANGED restarts
<1>1. ASSUME NEW t \in Tasks, TaskStep(t) PROVE UNCHANGED restarts
  BY <1>1 DEF TaskStep, Dispatch, Resume, Begin, GateDone, GateRaises
<1>2. ASSUME NEW t \in Tasks, NEW r \in Runs, RowStep(t, r) PROVE UNCHANGED restarts
  BY <1>2 DEF RowStep, StartFails, ReadBrief, PostReport, StallReport, BodyArrives, SeesExit,
              Deadline, Decide, SupervisorReports
<1>3. ASSUME NEW j \in Jobs, JobStep(j) PROVE UNCHANGED restarts
  BY <1>3 DEF JobStep, Spawn, StartReturns, WorkerExits, SendReport, Stop, SupervisorFails, Remove
<1>4. CASE UNCHANGED vars
  BY <1>4 DEF vars
<1> QED BY <1>1, <1>2, <1>3, <1>4 DEF Next

\* On Docker, when its API answers, and until the manager restarts, every
\* task that ended has told its caller or has an event to tell the chat.
THEOREM EndIsTold == DockerAnswers => (Spec => []EndIsAnnounced)
<1> SUFFICES ASSUME DockerAnswers PROVE Spec => []EndIsAnnounced
  OBVIOUS
<1>1. Init => Typed /\ DockerInv /\ Told
  <2>1. Init => Told
    BY DEF Init, Told, TERMINAL_STATUSES
  <2> QED BY <2>1, TypedInit, DockerInit
<1>2. Typed /\ DockerInv /\ [Next]_vars => (Typed /\ DockerInv)'
  BY TypedNext, DockerNext
<1>3. Typed /\ DockerInv /\ Told /\ [Next]_vars => Told'
  <2> SUFFICES ASSUME Typed, DockerInv, Told, [Next]_vars PROVE Told'
    OBVIOUS
  <2> USE DEF Typed, TypeOK, Told, ACTIVE_STATUSES, TERMINAL_STATUSES
  <2>1. CASE Restart
    BY <2>1 DEF Restart
  <2>2. CASE UNCHANGED restarts
    <3>1. ASSUME NEW t \in Tasks, Dispatch(t) \/ Resume(t), UNCHANGED notice PROVE Told'
      BY <2>2, <3>1 DEF Dispatch, Resume, Begin
    <3>2. ASSUME NEW t \in Tasks, EndsActive(t), Announces(t) PROVE Told'
      <4>1. run[t] \in Runs
        BY <3>2, ConstantsAssumption DEF EndsActive, Active
      <4>2. PICK n \in {"due", "returned", notice[<<t, run[t]>>]} :
              /\ notice' = [notice EXCEPT ![<<t, run[t]>>] = n]
              /\ n # "none"
        BY <3>2, <4>1 DEF Announces
      <4>3. PICK st \in TERMINAL_STATUSES : status' = [status EXCEPT ![t] = st]
        BY <3>2 DEF EndsActive, Ends
      <4>4. UNCHANGED run
        BY <3>2 DEF EndsActive, Ends
      <4> QED BY <2>2, <4>1, <4>2, <4>3, <4>4
    <3>3. ASSUME NEW t \in Tasks, MarksRunning(t), UNCHANGED notice PROVE Told'
      BY <2>2, <3>3 DEF MarksRunning
    <3>4. CASE UNCHANGED <<status, run, notice>>
      BY <2>2, <3>4
    <3>5. ASSUME NEW j \in Jobs, notice' = [notice EXCEPT ![j] = "sent"],
                 UNCHANGED <<status, run>>
          PROVE  Told'
      BY <2>2, <3>5
    <3> QED BY <2>1, <3>1, <3>2, <3>3, <3>4, <3>5, DockerSteps DEF StepKinds
  <2> QED BY <2>1, <2>2, RestartsCount
<1>4. Typed /\ Told => EndIsAnnounced
  <2> SUFFICES ASSUME Typed, Told, restarts = 0, NEW t \in Tasks,
                      status[t] \in TERMINAL_STATUSES
               PROVE  notice[<<t, run[t]>>] \in {"due", "sent", "returned"}
    BY DEF EndIsAnnounced
  <2>1. run[t] \in Runs
    BY ConstantsAssumption DEF Typed, TypeOK, TERMINAL_STATUSES
  <2> QED BY <2>1 DEF Told
<1> QED BY <1>1, <1>2, <1>3, <1>4, PTL DEF Spec

-----------------------------------------------------------------------------
(* The refinement: on Docker whose API answers, TaskManager implements     *)
(* TaskLifecycle.  A begin maps to Begin, whose guard about the branch is  *)
(* the lock table's agreement with the rows; an end maps to Finish; the    *)
(* rest of the machinery stutters.                                         *)

PhaseOf == [t \in Tasks |->
    IF status[t] = "none" THEN "new"
    ELSE IF Active(t) THEN "working"
    ELSE IF status[t] \in RESUMABLE_STATUSES /\ pushed[t] THEN "resumable"
    ELSE "closed"]

LEMMA WorkingIsActive == ASSUME Typed PROVE Lifecycle!Working = ActiveTasks
BY DEF Lifecycle!Working, ActiveTasks, Active, ACTIVE_STATUSES

\* The instance has a Cardinality of its own, with the same definition.
LEMMA SameCardinality == \A S : Lifecycle!Cardinality(S) = Cardinality(S)
BY DEF Cardinality, Lifecycle!Cardinality

LEMMA LifecycleBegin ==
    ASSUME Typed, LockMatchesTask, NEW t \in Tasks, Dispatch(t) \/ Resume(t)
    PROVE  Lifecycle!Begin(t)
<1> USE DEF Typed, TypeOK, Active, ACTIVE_STATUSES, RESUMABLE_STATUSES
<1>1. Begin(t) /\ ~Active(t)
  BY DEF Dispatch, Resume
<1>2. PhaseOf[t] \in {"new", "resumable"}
  BY DEF Dispatch, Resume, PhaseOf
<1>3. Lifecycle!Cardinality(Lifecycle!Working) < MaxWorkers
  BY <1>1, WorkingIsActive, SameCardinality DEF Begin, HasSlot
<1>4. ASSUME NEW u \in ActiveTasks PROVE BranchOf[u] # BranchOf[t]
  <2>1. u \in Tasks /\ Active(u) /\ u # t
    BY <1>1 DEF ActiveTasks
  <2>2. lock[BranchOf[u]] = u
    BY <2>1, ConstantsAssumption DEF LockMatchesTask
  <2>3. lock[BranchOf[t]] \in {NoTask, t}
    BY <1>1 DEF Begin, LockFree
  <2> QED BY <2>1, <2>2, <2>3, ConstantsAssumption
<1>5. PhaseOf' = [PhaseOf EXCEPT ![t] = "working"]
  BY <1>1 DEF Begin, PhaseOf
<1>6. run' = [run EXCEPT ![t] = @ + 1]
  BY <1>1 DEF Begin
<1>7. \A u \in Lifecycle!Working : BranchOf[u] # BranchOf[t]
  BY <1>4, WorkingIsActive
<1> HIDE DEF Typed, TypeOK, Active, ACTIVE_STATUSES, RESUMABLE_STATUSES
<1> QED BY <1>2, <1>3, <1>5, <1>6, <1>7 DEF Lifecycle!Begin, PhaseOf

LEMMA LifecycleFinish ==
    ASSUME Typed, NEW t \in Tasks, EndsActive(t)
    PROVE  Lifecycle!Finish(t)
<1> USE DEF Typed, TypeOK, Active, ACTIVE_STATUSES, TERMINAL_STATUSES, RESUMABLE_STATUSES
<1>1. PhaseOf[t] = "working"
  BY DEF EndsActive, PhaseOf
<1>2. PICK st \in TERMINAL_STATUSES, p \in BOOLEAN :
        /\ status' = [status EXCEPT ![t] = st]
        /\ pushed' = [pushed EXCEPT ![t] = p]
  BY DEF EndsActive, Ends
<1>3. PICK ph \in {"resumable", "closed"} : PhaseOf' = [PhaseOf EXCEPT ![t] = ph]
  <2>1. CASE st \in RESUMABLE_STATUSES /\ p
    <3>1. PhaseOf' = [PhaseOf EXCEPT ![t] = "resumable"]
      BY <1>2, <2>1 DEF PhaseOf
    <3> QED BY <3>1
  <2>2. CASE ~(st \in RESUMABLE_STATUSES /\ p)
    <3>1. PhaseOf' = [PhaseOf EXCEPT ![t] = "closed"]
      BY <1>2, <2>2 DEF PhaseOf
    <3> QED BY <3>1
  <2> QED BY <2>1, <2>2
<1>4. UNCHANGED run
  BY DEF EndsActive, Ends
<1> QED BY <1>1, <1>3, <1>4 DEF Lifecycle!Finish, PhaseOf

LEMMA LifecycleStep ==
    ASSUME Typed, DockerInv, LockMatchesTask, [Next]_vars, DockerAnswers
    PROVE  [Lifecycle!Next]_(Lifecycle!vars)
<1> USE DEF Typed, TypeOK, Active, ACTIVE_STATUSES, TERMINAL_STATUSES, RESUMABLE_STATUSES
<1>1. ASSUME NEW t \in Tasks, Dispatch(t) \/ Resume(t) PROVE Lifecycle!Next
  BY <1>1, LifecycleBegin DEF Lifecycle!Next
<1>2. ASSUME NEW t \in Tasks, EndsActive(t) PROVE Lifecycle!Next
  BY <1>2, LifecycleFinish DEF Lifecycle!Next
<1>3. ASSUME NEW t \in Tasks, MarksRunning(t), UNCHANGED pushed PROVE UNCHANGED Lifecycle!vars
  <2>1. PhaseOf' = PhaseOf /\ UNCHANGED run
    BY <1>3 DEF MarksRunning, PhaseOf
  <2> QED BY <2>1 DEF Lifecycle!vars, PhaseOf
<1>4. CASE Restart
  <2>1. /\ status' = [t \in Tasks |-> IF Active(t) THEN "failed" ELSE status[t]]
        /\ UNCHANGED <<run, pushed>>
    BY <1>4 DEF Restart
  <2>2. PhaseOf' = [t \in Tasks |-> IF t \in ActiveTasks THEN "closed" ELSE PhaseOf[t]]
    BY <2>1 DEF PhaseOf, ActiveTasks
  <2>3. Lifecycle!Restart
    BY <2>1, <2>2, WorkingIsActive DEF Lifecycle!Restart, PhaseOf
  <2> QED BY <2>3 DEF Lifecycle!Next
<1>5. CASE UNCHANGED <<status, lock, run, pushed>>
  BY <1>5 DEF Lifecycle!vars
<1> QED BY <1>1, <1>2, <1>3, <1>4, <1>5, DockerSteps DEF StepKinds

\* On Docker, when its API answers, the task manager with all its machinery
\* implements TaskLifecycle: what a caller sees of a task is begin, finish
\* and, when its branch was pushed, begin again.
THEOREM ImplementsPromise == DockerAnswers => (Spec => ImplementsLifecycle)
<1> SUFFICES ASSUME DockerAnswers PROVE Spec => ImplementsLifecycle
  OBVIOUS
<1>1. Init => Typed /\ DockerInv
  BY TypedInit, DockerInit
<1>2. Init => Lifecycle!Init
  BY DEF Init, Lifecycle!Init
<1>3. Typed /\ DockerInv /\ [Next]_vars => (Typed /\ DockerInv)'
  BY TypedNext, DockerNext
<1>4. Typed /\ DockerInv /\ LockMatchesTask /\ [Next]_vars => [Lifecycle!Next]_(Lifecycle!vars)
  BY LifecycleStep
<1>5. Spec => []LockMatchesTask
  BY LocksMatch
<1> QED BY <1>1, <1>2, <1>3, <1>4, <1>5, PTL DEF Spec, ImplementsLifecycle, Lifecycle!Spec

=============================================================================
