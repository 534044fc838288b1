---------------------------- MODULE TaskManager ----------------------------
(***************************************************************************)
(* The task manager of the developer addon: Manager (manager.py), its lock *)
(* table (locks.py), the task rows (store.py), the worker API that admits  *)
(* a worker's calls (worker_api.py), and the two runtimes that start and   *)
(* supervise one worker for each run of a task (runtime_docker.py,         *)
(* runtime_k8s.py).                                                        *)
(*                                                                         *)
(* The manager is one asyncio process.  A stretch of code with no await in *)
(* it is one action; every await is a point where other actions happen:    *)
(* the start of a worker, the gate of a push, the reads and the kill of a  *)
(* supervisor, the send of a report.  A run of a task is named by its      *)
(* number: a resume mints a new worker token, so the run number stands for *)
(* the token.  A job <<t, r>> is the worker of run r of task t.            *)
(***************************************************************************)
EXTENDS Integers, FiniteSets

CONSTANTS
    Tasks,        \* task ids
    Branches,     \* the (repo, scope) keys of the lock table
    BranchOf,     \* the key a task locks
    NoTask,       \* the owner of a free lock
    MaxWorkers,   \* DeveloperConfig.max_workers
    MaxRuns,      \* bound: runs of any task (1 + its resumes)
    RunsOf,       \* bound: runs of each task
    MaxRestarts,  \* bound: restarts of the manager
    Runtime,      \* "docker" or "kubernetes" (WORKER_RUNTIME)
    Outcomes,     \* bound: the statuses a worker may report
    Faults        \* the faults that may happen, a subset of FaultKinds

ACTIVE_STATUSES == {"dispatched", "running"}
TERMINAL_STATUSES == {"success", "blocked", "timed_out", "failed"}
RESUMABLE_STATUSES == {"blocked", "timed_out"}

FaultKinds == {
    "runtime_api",  \* a call to Docker or to the Kubernetes API fails
    "git_host",     \* the git host sends a reply the gate cannot read
    "late_body"}    \* the body of a worker's report comes after its headers

ASSUME ConstantsAssumption ==
    /\ IsFiniteSet(Tasks)
    /\ BranchOf \in [Tasks -> Branches]
    /\ NoTask \notin Tasks
    /\ MaxWorkers \in Nat
    /\ MaxRuns \in Nat \ {0}
    /\ RunsOf \in [Tasks -> 0..MaxRuns]
    /\ MaxRestarts \in Nat
    /\ Runtime \in {"docker", "kubernetes"}
    /\ Outcomes \subseteq TERMINAL_STATUSES
    /\ Faults \subseteq FaultKinds

Runs == 1..MaxRuns
Jobs == Tasks \X Runs

VARIABLES
    status,      \* the status column of the task row, "none" before the row
    run,         \* the run whose token the row holds (the length of history + 1)
    pushed,      \* a recorded report, of this run or in history, says pushed
    author,      \* the run that wrote the report column, 0 when it is NULL
    lock,        \* LockManager._locks: the owner of each key
    gate,        \* Manager._finishing: the run whose push is being gated, or 0
    starting,    \* the jobs whose Runtime.start is awaited
    stalled,     \* the jobs with an authorized report whose body is not read
    worker,      \* the container or pod of a job
    supervisor,  \* where the _supervise task of a job is
    verdict,     \* the report a supervisor decided on
    notice,      \* the report event of a job
    restarts

vars == <<status, run, pushed, author, lock, gate, starting, stalled, worker,
          supervisor, verdict, notice, restarts>>

rowVars == <<status, run, pushed, author, lock, gate>>

-----------------------------------------------------------------------------
(* The row, the lock table and the token check. *)

Active(t) == status[t] \in ACTIVE_STATUSES
ActiveTasks == {t \in Tasks : Active(t)}

\* Mutated: the token is not compared.
IsActiveByIdOnly(t, r) == Active(t)

\* Manager.is_active(task_id, worker_token).
IsActive(t, r) == Active(t) /\ run[t] = r

\* worker_api.authorize: the token finds the row, and the task has not ended.
Authorized(t, r) == run[t] = r /\ Active(t)

\* Mutated: one task too many is admitted.
HasSlotOffByOne == Cardinality(ActiveTasks) <= MaxWorkers

\* Manager._check_capacity.
HasSlot == Cardinality(ActiveTasks) < MaxWorkers

\* LockManager.acquire succeeds: the key is free, or this task has it.
LockFree(t) == lock[BranchOf[t]] \in {NoTask, t}
Acquired(t) == [lock EXCEPT ![BranchOf[t]] = t]

\* Mutated: the end of a task keeps its lock.
ReleasedNever(t) == lock

\* LockManager.release changes nothing when another task has the key.
Released(t) == [lock EXCEPT ![BranchOf[t]] = IF @ = t THEN NoTask ELSE @]

\* The MCP server and the lifespan: no call is served until
\* send_recovered_reports has sent what recover left.
Serving == \A j \in Jobs : notice[j] # "recovered"

-----------------------------------------------------------------------------
(* The calls of a person: develop and rework begin a task, an answer to a  *)
(* task that ended resumes it.  Both take the slot, the lock and the row   *)
(* under _admission, and then await the start of the worker.               *)

Begin(t) ==
    /\ Serving
    /\ HasSlot
    /\ LockFree(t)
    /\ run[t] < RunsOf[t]
    /\ lock' = Acquired(t)
    /\ status' = [status EXCEPT ![t] = "dispatched"]
    /\ run' = [run EXCEPT ![t] = @ + 1]
    /\ author' = [author EXCEPT ![t] = 0]
    /\ starting' = starting \cup {<<t, run[t] + 1>>}
    /\ UNCHANGED <<pushed, gate, stalled, worker, supervisor, verdict, notice, restarts>>

\* Manager._dispatch, for develop and for rework.
Dispatch(t) == status[t] = "none" /\ Begin(t)

\* Mutated: a task that succeeded or failed may resume.
ResumeAnyEnd(t) == status[t] \in TERMINAL_STATUSES /\ pushed[t] /\ Begin(t)

\* Manager._resume: answer on a task that ended with its branch pushed.
Resume(t) == status[t] \in RESUMABLE_STATUSES /\ pushed[t] /\ Begin(t)

\* The runtime has made the worker; the await of start has not returned.
Spawn(j) ==
    /\ j \in starting
    /\ worker[j] = "none"
    /\ worker' = [worker EXCEPT ![j] = "up"]
    /\ UNCHANGED <<rowVars, starting, stalled, supervisor, verdict, notice, restarts>>

\* start returns: it leaves a supervisor behind.
StartReturns(j) ==
    /\ j \in starting
    /\ worker[j] # "none"
    /\ starting' = starting \ {j}
    /\ supervisor' = [supervisor EXCEPT ![j] = "watching"]
    /\ UNCHANGED <<rowVars, stalled, worker, verdict, notice, restarts>>

\* start raises: _start_worker fails the row whatever it holds by now, and
\* the caller gets the result.  Docker removes the container it made; a Job
\* whose creation was accepted but not answered stays.
StartFails(t, r) ==
    LET j == <<t, r>> IN
    /\ j \in starting
    /\ worker[j] = "none" \/ "runtime_api" \in Faults
    /\ starting' = starting \ {j}
    /\ status' = [status EXCEPT ![t] = "failed"]
    /\ lock' = Released(t)
    /\ notice' = [notice EXCEPT ![j] = IF @ = "none" THEN "returned" ELSE @]
    /\ worker' = [worker EXCEPT ![j] =
                    IF @ # "none" /\ Runtime = "docker" THEN "gone" ELSE @]
    /\ UNCHANGED <<run, pushed, author, gate, stalled, supervisor, verdict, restarts>>

-----------------------------------------------------------------------------
(* Reports.  record_report ends the task at once, or, when the worker says *)
(* it pushed, first gates the push, which awaits the git host.             *)

\* Mutated: the row ends and no event is due.
EndRowUnannounced(t, r, st) ==
    /\ status' = [status EXCEPT ![t] = st]
    /\ author' = [author EXCEPT ![t] = r]
    /\ lock' = Released(t)
    /\ UNCHANGED notice

\* The end of record_report: the row, the lock, and the event that is due.
EndRow(t, r, st) ==
    /\ status' = [status EXCEPT ![t] = st]
    /\ author' = [author EXCEPT ![t] = r]
    /\ lock' = Released(t)
    /\ notice' = [notice EXCEPT ![<<t, run[t]>>] = "due"]

\* Mutated: a report that is being gated does not keep out a second one.
IgnoredIfEnded(t) == status[t] \in TERMINAL_STATUSES

\* A report for an ended task, or while another is being recorded.
Ignored(t) == status[t] \in TERMINAL_STATUSES \/ gate[t] # 0

\* Manager.record_report(task_id, report): it is keyed by the task alone.
\* r is the run whose report it is.
RecordReport(t, r, st, p) ==
    \/ /\ Ignored(t)
       /\ UNCHANGED <<status, author, lock, notice, pushed, gate>>
    \/ /\ ~Ignored(t) /\ p
       /\ gate' = [gate EXCEPT ![t] = r]
       /\ UNCHANGED <<status, author, lock, notice, pushed>>
    \/ /\ ~Ignored(t) /\ ~p
       /\ EndRow(t, r, st)
       /\ UNCHANGED <<pushed, gate>>

\* _after_push returned: the outcome of the report, or failed.
GateDone(t) ==
    /\ gate[t] # 0
    /\ \E st \in Outcomes \cup {"failed"} : EndRow(t, gate[t], st)
    /\ pushed' = [pushed EXCEPT ![t] = TRUE]
    /\ gate' = [gate EXCEPT ![t] = 0]
    /\ UNCHANGED <<run, starting, stalled, worker, supervisor, verdict, restarts>>

\* _after_push raised something other than PlatformError: the finally of
\* record_report forgets the report, and the row stays active.
GateRaises(t) ==
    /\ "git_host" \in Faults
    /\ gate[t] # 0
    /\ gate' = [gate EXCEPT ![t] = 0]
    /\ UNCHANGED <<status, run, pushed, author, lock, starting, stalled, worker,
                   supervisor, verdict, notice, restarts>>

\* notify.send_report has returned, whatever channels said.
SendReport(j) ==
    /\ notice[j] \in {"due", "recovered"}
    /\ notice' = [notice EXCEPT ![j] = "sent"]
    /\ UNCHANGED <<rowVars, starting, stalled, worker, supervisor, verdict, restarts>>

-----------------------------------------------------------------------------
(* The worker of a job, as the worker API sees it. *)

\* GET /worker/brief: mark_running.
ReadBrief(t, r) ==
    /\ worker[<<t, r>>] = "up"
    /\ Authorized(t, r)
    /\ status[t] = "dispatched"
    /\ status' = [status EXCEPT ![t] = "running"]
    /\ UNCHANGED <<run, pushed, author, lock, gate, starting, stalled, worker,
                   supervisor, verdict, notice, restarts>>

\* A worker that could not read its brief reports failed; one that ran a
\* session reports any outcome, pushed or not.
Reportable(t, st, p) == status[t] = "dispatched" => st = "failed" /\ ~p

\* POST /worker/report, read and recorded at once.  A worker whose call got
\* no reply in time sends it again.
PostReport(t, r) ==
    /\ worker[<<t, r>>] \in {"up", "reported"}
    /\ Authorized(t, r)
    /\ \E st \in Outcomes \cup {"failed"}, p \in BOOLEAN :
            Reportable(t, st, p) /\ RecordReport(t, r, st, p)
    /\ worker' = [worker EXCEPT ![<<t, r>>] = "reported"]
    /\ UNCHANGED <<run, starting, stalled, supervisor, verdict, restarts>>

\* POST /worker/report: authorized by its headers, its body still to come.
StallReport(t, r) ==
    /\ "late_body" \in Faults
    /\ worker[<<t, r>>] = "up"
    /\ Authorized(t, r)
    /\ stalled' = stalled \cup {<<t, r>>}
    /\ worker' = [worker EXCEPT ![<<t, r>>] = "reported"]
    /\ UNCHANGED <<rowVars, starting, supervisor, verdict, notice, restarts>>

\* The body is read: record_report, with no second look at the token.
BodyArrives(t, r) ==
    /\ <<t, r>> \in stalled
    /\ stalled' = stalled \ {<<t, r>>}
    /\ \E st \in Outcomes, p \in BOOLEAN : RecordReport(t, r, st, p)
    /\ UNCHANGED <<run, starting, worker, supervisor, verdict, restarts>>

\* The worker process ends: it sent its report, or it crashed.
WorkerExits(j) ==
    /\ worker[j] \in {"up", "reported"}
    /\ worker' = [worker EXCEPT ![j] = "gone"]
    /\ UNCHANGED <<rowVars, starting, stalled, supervisor, verdict, notice, restarts>>

-----------------------------------------------------------------------------
(* The supervisor of a job.  "watching" is the poll loop; "stopping" is a  *)
(* worker past its deadline, to be killed; "reporting" is the loop's end;  *)
(* "removing" is the finally block, and "raised" the one of a supervisor   *)
(* that failed: it ends "dead".                                            *)

\* The loop of t's run r breaks with a verdict.  Kubernetes asks is_active
\* here, before the awaits of the log and of the kill; Docker asks later.
Decide(t, r, next, st) ==
    /\ supervisor' = [supervisor EXCEPT ![<<t, r>>] =
            IF Runtime = "kubernetes" /\ ~IsActive(t, r) THEN "removing" ELSE next]
    /\ verdict' = [verdict EXCEPT ![<<t, r>>] = st]
    /\ UNCHANGED <<rowVars, starting, stalled, worker, notice, restarts>>

\* Mutated: a container that exited is removed, and not reported.
SeesExitSilently(t, r) ==
    /\ supervisor[<<t, r>>] = "watching"
    /\ worker[<<t, r>>] = "gone"
    /\ Decide(t, r, "removing", "failed")

\* The worker has ended.  A Job that ended by its activeDeadlineSeconds is
\* treated like one that the supervisor finds past its deadline.
SeesExit(t, r) ==
    /\ supervisor[<<t, r>>] = "watching"
    /\ worker[<<t, r>>] = "gone"
    /\ \/ Decide(t, r, "reporting", "failed")
       \/ Runtime = "kubernetes" /\ Decide(t, r, "stopping", "timed_out")

\* Mutated: the loop ends without a status.
DeadlineUnset(t, r) ==
    /\ supervisor[<<t, r>>] = "watching"
    /\ worker[<<t, r>>] # "gone"
    /\ Decide(t, r, "stopping", "none")

\* Deadline.check: no_start while the brief is not read, else deadline.  It
\* reads the clock of the row, which a resume may have started anew.
Deadline(t, r) ==
    /\ supervisor[<<t, r>>] = "watching"
    /\ worker[<<t, r>>] # "gone"
    /\ Decide(t, r, "stopping", IF status[t] = "dispatched" THEN "failed" ELSE "timed_out")

\* Mutated: the report comes before the kill.
StopSkipped(j) ==
    /\ supervisor[j] = "stopping"
    /\ UNCHANGED worker
    /\ supervisor' = [supervisor EXCEPT ![j] = "reporting"]
    /\ UNCHANGED <<rowVars, starting, stalled, verdict, notice, restarts>>

\* _kill and _stop: the worker is gone, unless the runtime's API fails.
Stop(j) ==
    /\ supervisor[j] = "stopping"
    /\ \/ worker' = [worker EXCEPT ![j] = "gone"]
       \/ "runtime_api" \in Faults /\ UNCHANGED worker
    /\ supervisor' = [supervisor EXCEPT ![j] = "reporting"]
    /\ UNCHANGED <<rowVars, starting, stalled, verdict, notice, restarts>>

\* Docker asks is_active and records with no await between; Kubernetes
\* records what it decided on.
SupervisorReports(t, r) ==
    /\ supervisor[<<t, r>>] = "reporting"
    /\ IF Runtime = "docker" /\ ~IsActive(t, r)
       THEN UNCHANGED <<status, author, lock, notice, pushed, gate>>
       ELSE RecordReport(t, r, verdict[<<t, r>>], FALSE)
    /\ supervisor' = [supervisor EXCEPT ![<<t, r>>] = "removing"]
    /\ UNCHANGED <<run, starting, stalled, worker, verdict, restarts>>

\* A call of the supervisor raises what the helpers do not take: the read of the
\* worker, its kill or the read of its log.  It logs the error and reports nothing.
SupervisorFails(j) ==
    /\ "runtime_api" \in Faults
    /\ supervisor[j] \in {"watching", "stopping", "reporting"}
    /\ supervisor' = [supervisor EXCEPT ![j] = "raised"]
    /\ UNCHANGED <<rowVars, starting, stalled, worker, verdict, notice, restarts>>

\* The finally block.  Docker removes the container by force, unless its API
\* fails; Kubernetes deletes the Job in the background, and its pod exits later.
Remove(j) ==
    /\ supervisor[j] \in {"removing", "raised"}
    /\ supervisor' = [supervisor EXCEPT ![j] = IF @ = "raised" THEN "dead" ELSE "done"]
    /\ verdict' = [verdict EXCEPT ![j] = "none"]
    /\ \/ worker' = [worker EXCEPT ![j] = IF Runtime = "docker" THEN "gone" ELSE @]
       \/ "runtime_api" \in Faults /\ UNCHANGED worker
    /\ UNCHANGED <<rowVars, starting, stalled, notice, restarts>>

-----------------------------------------------------------------------------
(* The manager process stops and starts: start, recover, make_runtime.  The *)
(* rows survive; locks, gates, supervisors and calls in flight do not.      *)

\* Mutated: the workers of the process before are left.
OrphansStay == worker

\* remove_orphans: Docker removes the containers before the first call is
\* served; Kubernetes deletes Jobs in the background.
OrphansRemoved ==
    IF Runtime = "docker" /\ "runtime_api" \notin Faults
    THEN [j \in Jobs |-> IF worker[j] = "none" THEN "none" ELSE "gone"]
    ELSE worker

\* recover and send_recovered_reports: the tasks recover fails have a report
\* to send; an event that was due is in no table and is lost.
Recovered(j) ==
    IF notice[j] \in {"due", "recovered"} THEN "lost"
    ELSE IF Active(j[1]) /\ run[j[1]] = j[2] THEN "recovered"
    ELSE notice[j]

Restart ==
    /\ restarts < MaxRestarts
    /\ restarts' = restarts + 1
    /\ status' = [t \in Tasks |-> IF Active(t) THEN "failed" ELSE status[t]]
    /\ lock' = [b \in Branches |-> NoTask]
    /\ gate' = [t \in Tasks |-> 0]
    /\ starting' = {}
    /\ stalled' = {}
    /\ worker' = OrphansRemoved
    /\ supervisor' = [j \in Jobs |-> IF supervisor[j] = "none" THEN "none" ELSE "done"]
    /\ verdict' = [j \in Jobs |-> "none"]
    /\ notice' = [j \in Jobs |-> Recovered(j)]
    /\ UNCHANGED <<run, pushed, author>>

-----------------------------------------------------------------------------
Init ==
    /\ status = [t \in Tasks |-> "none"]
    /\ run = [t \in Tasks |-> 0]
    /\ pushed = [t \in Tasks |-> FALSE]
    /\ author = [t \in Tasks |-> 0]
    /\ lock = [b \in Branches |-> NoTask]
    /\ gate = [t \in Tasks |-> 0]
    /\ starting = {}
    /\ stalled = {}
    /\ worker = [j \in Jobs |-> "none"]
    /\ supervisor = [j \in Jobs |-> "none"]
    /\ verdict = [j \in Jobs |-> "none"]
    /\ notice = [j \in Jobs |-> "none"]
    /\ restarts = 0

TaskStep(t) == Dispatch(t) \/ Resume(t) \/ GateDone(t) \/ GateRaises(t)

RowStep(t, r) ==
    \/ StartFails(t, r)
    \/ ReadBrief(t, r) \/ PostReport(t, r) \/ StallReport(t, r) \/ BodyArrives(t, r)
    \/ SeesExit(t, r) \/ Deadline(t, r) \/ SupervisorReports(t, r)

JobStep(j) ==
    \/ Spawn(j) \/ StartReturns(j) \/ WorkerExits(j) \/ SendReport(j)
    \/ Stop(j) \/ SupervisorFails(j) \/ Remove(j)

Next ==
    \/ \E t \in Tasks : TaskStep(t)
    \/ \E t \in Tasks, r \in Runs : RowStep(t, r)
    \/ \E j \in Jobs : JobStep(j)
    \/ Restart

Spec == Init /\ [][Next]_vars

\* A start returns or raises, a deadline passes, a kill, a gate and a send
\* come to an end (every call has a timeout).  Nothing makes a person call,
\* a worker exit, a worker report, or a manager restart.
Fairness ==
    /\ \A t \in Tasks : WF_vars(GateDone(t) \/ GateRaises(t))
    /\ \A t \in Tasks, r \in Runs :
        /\ WF_vars(Spawn(<<t, r>>) \/ StartFails(t, r))
        /\ WF_vars(StartReturns(<<t, r>>) \/ StartFails(t, r))
        /\ WF_vars(SeesExit(t, r) \/ Deadline(t, r) \/ SupervisorFails(<<t, r>>))
        /\ WF_vars(Stop(<<t, r>>) \/ SupervisorFails(<<t, r>>))
        /\ WF_vars(SupervisorReports(t, r) \/ SupervisorFails(<<t, r>>))
        /\ WF_vars(Remove(<<t, r>>))
        /\ WF_vars(SendReport(<<t, r>>))

FairSpec == Spec /\ Fairness

-----------------------------------------------------------------------------
(* Properties *)

WorkerStates == {"none", "up", "reported", "gone"}
SupervisorStates == {"none", "watching", "stopping", "reporting", "removing", "done",
                     "raised", "dead"}
Notices == {"none", "due", "recovered", "sent", "returned", "lost"}

\* Every row column, lock, worker and supervisor has a value the code gives it,
\* and a row that was created keeps a status: no report is recorded without one.
TypeOK ==
    /\ status \in [Tasks -> {"none"} \cup ACTIVE_STATUSES \cup TERMINAL_STATUSES]
    /\ run \in [Tasks -> 0..MaxRuns]
    /\ \A t \in Tasks : status[t] = "none" <=> run[t] = 0
    /\ pushed \in [Tasks -> BOOLEAN]
    /\ author \in [Tasks -> 0..MaxRuns]
    /\ lock \in [Branches -> Tasks \cup {NoTask}]
    /\ gate \in [Tasks -> 0..MaxRuns]
    /\ starting \subseteq Jobs
    /\ stalled \subseteq Jobs
    /\ worker \in [Jobs -> WorkerStates]
    /\ supervisor \in [Jobs -> SupervisorStates]
    /\ verdict \in [Jobs -> {"none", "failed", "timed_out"}]
    /\ notice \in [Jobs -> Notices]
    /\ restarts \in 0..MaxRestarts

\* The lock table in memory and the task rows on disk agree: a key is owned
\* by exactly the active task that works on it, whatever order starts,
\* reports, gates, resumes and restarts come in (manager.py, locks.py).
LockMatchesTask ==
    \A b \in Branches, t \in Tasks :
        lock[b] = t <=> (Active(t) /\ BranchOf[t] = b)

\* No interleaving of calls, starts and resumes has more than max_workers
\* tasks in dispatched or running (_check_capacity).
WithinCapacity == Cardinality(ActiveTasks) <= MaxWorkers

\* The report in a row was written by the run the row is on: a supervisor or
\* a request of an earlier run never reports for the new one (is_active).
OwnReport == \A t \in Tasks : author[t] # 0 => author[t] = run[t]

\* A worker that can still push belongs to the current run of a task that has
\* not ended: the kill comes before the report, and the orphans go before the
\* first call ("so the worker cannot push after the status is final").
WorkerHasTask ==
    \A t \in Tasks, r \in Runs : worker[<<t, r>>] = "up" => IsActive(t, r)

\* Until the manager restarts, a task that ended has told its caller, or an
\* event tells the chat ("Its report arrives as an event from the developer when
\* it ends").
EndIsAnnounced ==
    restarts = 0 =>
        \A t \in Tasks :
            status[t] \in TERMINAL_STATUSES =>
                notice[<<t, run[t]>>] \in {"due", "sent", "returned"}

\* A final status never changes but by a resume, which is a new run: no late
\* report, gate or start failure rewrites it ("A report for a task that
\* already ended is ignored").
EndedStaysEnded ==
    [][\A t \in Tasks :
        status[t] \in TERMINAL_STATUSES /\ status'[t] # status[t] => run'[t] = run[t] + 1]_vars

\* The promise to the caller, with none of the machinery.
Lifecycle == INSTANCE TaskLifecycle WITH
    phase <- [t \in Tasks |->
                IF status[t] = "none" THEN "new"
                ELSE IF Active(t) THEN "working"
                ELSE IF status[t] \in RESUMABLE_STATUSES /\ pushed[t] THEN "resumable"
                ELSE "closed"],
    runs <- run

ImplementsLifecycle == Lifecycle!Spec

\* Every dispatched or running task ends, so its lock and its slot come back
\* ("The manager watches every worker to its end").
EveryRunEnds == \A t \in Tasks : Active(t) ~> ~Active(t)

\* The part of it that holds when calls to the runtime fail: only a supervisor
\* that died of such a call leaves its task active (_supervise).
WatchedRunEnds ==
    \A t \in Tasks : Active(t) ~> (~Active(t) \/ supervisor[<<t, run[t]>>] = "dead")

=============================================================================
