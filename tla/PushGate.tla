------------------------------ MODULE PushGate ------------------------------
(***************************************************************************)
(* One branch of a repository, the workers that push to it one after the   *)
(* other, and the gate of each push: checkout and push of the worker       *)
(* (git.py), its report (finish and run_task in main.py), _after_push and  *)
(* _reject_push of the manager (manager.py), and the calls of the git host *)
(* (platforms.py) with their one retry.                                    *)
(*                                                                         *)
(* The lock of the branch lets one task run at a time (TaskManager).  A    *)
(* run commits at most once and its commit is named by the run; commits is *)
(* what the branch holds beyond its base.  A call to the host fails with   *)
(* or without effect; a 5xx gets one more attempt.                         *)
(***************************************************************************)
EXTENDS Integers

CONSTANTS
    MaxTasks,   \* bound: tasks on the branch
    MaxRuns,    \* bound: runs of all tasks
    Host        \* "api" (GitHub, GitLab) or "git" (no API)

FaultKinds == {
    "host",     \* the git host refuses a call, or its reply is lost
    "lost",     \* the worker or the manager dies before the report is recorded
    "people"}   \* a person deletes or makes the branch between two runs

ASSUME GateAssumption ==
    /\ MaxTasks \in Nat \ {0}
    /\ MaxRuns \in Nat \ {0}
    /\ Host \in {"api", "git"}

Tasks == 1..MaxTasks
Runs == 1..MaxRuns

VARIABLES
    status,     \* the status of each task
    kind,       \* its task_type
    history,    \* what its recorded reports say, taken together
    cur,        \* the task that has the lock, 0 when none
    runs,       \* how many runs there were
    step,       \* where the run of cur is
    again,      \* the call is the second attempt of retry_5xx
    cloned,     \* clone_head: the commits of the branch at the checkout
    created,    \* the checkout found no branch on the remote
    outcome,    \* the status in the report of the worker
    exists,     \* the remote has the branch
    maker,      \* the task that made it, 0 when a person did
    commits,    \* the commits of workers on it
    secrets,    \* the commits that add a credential
    scanned,    \* the commits whose diff a gate has read
    prs,        \* the open pull requests of the branch
    faults      \* the faults that may happen, a subset of FaultKinds

vars == <<status, kind, history, cur, runs, step, again, cloned, created, outcome,
          exists, maker, commits, secrets, scanned, prs, faults>>

taskVars == <<status, kind, history, cur, runs>>
runVars == <<cloned, created, outcome>>
branchVars == <<exists, maker, commits, secrets>>

Resumable(t) == status[t] \in {"blocked", "timed_out"} /\ history[t].pushed
Resumed(t) == history[t].pushed

-----------------------------------------------------------------------------
(* A task begins a run and ends. *)

Start(t) ==
    /\ cur = 0 /\ runs < MaxRuns
    /\ cur' = t /\ runs' = runs + 1
    /\ step' = "checkout"
    /\ status' = [status EXCEPT ![t] = "active"]
    /\ UNCHANGED <<history, again, runVars, branchVars, scanned, prs, faults>>

FirstStart(t, type) ==
    /\ status[t] = "none"
    /\ \A before \in 1..(t - 1) : status[before] # "none"
    /\ kind' = [kind EXCEPT ![t] = type]
    /\ Start(t)

Develop(t) == FirstStart(t, "develop")
Rework(t) == (Host = "git" \/ prs > 0) /\ FirstStart(t, "rework")
Resume(t) == Resumable(t) /\ UNCHANGED kind /\ Start(t)

\* record_report: the row has the status, and what the report says of the push.
Ends(st, pushed, made) ==
    /\ status' = [status EXCEPT ![cur] = st]
    /\ history' = [history EXCEPT ![cur] =
                        [pushed |-> @.pushed \/ pushed, created |-> @.created \/ made]]
    /\ cur' = 0 /\ step' = "idle" /\ again' = FALSE
    /\ UNCHANGED <<kind, runs>>

\* The gate ends: the worker pushed, and its report is recorded.
GateEnds(st) == Ends(st, TRUE, created)

-----------------------------------------------------------------------------
(* The worker. *)

\* A rework, or a resumed task, works on a branch that exists.
Checkout ==
    /\ step = "checkout"
    /\ IF exists \/ (kind[cur] = "develop" /\ ~Resumed(cur))
       THEN /\ created' = ~exists
            /\ cloned' = commits
            /\ step' = "session"
            /\ UNCHANGED <<taskVars, again>>
       ELSE Ends("failed", FALSE, FALSE) /\ UNCHANGED <<created, cloned>>
    /\ UNCHANGED <<outcome, branchVars, scanned, prs, faults>>

\* finish, when the session made no commit, or the push failed.
EndsUnpushed ==
    /\ step = "session"
    /\ \E st \in {"success", "blocked", "timed_out", "failed"} : Ends(st, FALSE, created)
    /\ UNCHANGED <<runVars, branchVars, scanned, prs, faults>>

\* The remote takes the commit of this run.
RemoteTakes ==
    /\ exists' = TRUE
    /\ maker' = IF exists THEN maker ELSE cur
    /\ commits' = commits \cup {runs}
    /\ secrets' \in {secrets, secrets \cup {runs}}

\* finish, when the push of the commit of this run is done.
Push ==
    /\ step = "session"
    /\ step' = "pushed"
    /\ outcome' \in {"success", "blocked", "timed_out", "failed"}
    /\ RemoteTakes
    /\ UNCHANGED <<taskVars, again, cloned, created, scanned, prs, faults>>

\* finish, when the remote has taken the commit and git push fails all the same:
\* the task fails, its report names no push, and nothing is gated.
PushUnseen ==
    /\ "host" \in faults
    /\ step = "session"
    /\ RemoteTakes
    /\ Ends("failed", FALSE, created)
    /\ UNCHANGED <<runVars, scanned, prs, faults>>

\* The report reaches record_report.  A git host has no diff to read.
Report ==
    /\ step = "pushed"
    /\ IF Host = "api"
       THEN step' = "scan" /\ UNCHANGED <<taskVars, again>>
       ELSE GateEnds(outcome)
    /\ UNCHANGED <<runVars, branchVars, scanned, prs, faults>>

\* No report is recorded: the worker is killed or dies before it is posted, or
\* the manager restarts, also within the gate.
Lost ==
    /\ "lost" \in faults
    /\ cur # 0
    /\ \/ Ends("failed", FALSE, FALSE)
       \/ step \in {"session", "pushed"} /\ Ends("timed_out", FALSE, FALSE)
    /\ UNCHANGED <<runVars, branchVars, scanned, prs, faults>>

-----------------------------------------------------------------------------
(* The gate. *)

\* A call of the gate fails, or the host has no token any more: a 5xx is tried
\* once more, from the step first.
HostFails(first) ==
    /\ "host" \in faults
    /\ \/ ~again /\ again' = TRUE /\ step' = first /\ UNCHANGED taskVars
       \/ GateEnds("failed")

\* Mutated: base and head of the compare are swapped.
DiffSwapped == cloned \ commits

\* The diff from clone_head to the branch.
Diff == commits \ cloned

\* Mutated: any develop deletes the branch.
MadeByAnyDevelop == kind[cur] = "develop"

\* The manager deletes the branch only when this task made it.
MadeByTask == kind[cur] = "develop" /\ (created \/ history[cur].created)

\* compare and scan_diff.
Scan ==
    /\ step = "scan"
    /\ scanned' = scanned \cup Diff
    /\ IF Diff \cap secrets # {}
       THEN IF MadeByTask
            THEN step' = "delete" /\ again' = FALSE /\ UNCHANGED taskVars
            ELSE GateEnds("failed")
       ELSE IF outcome # "success" THEN GateEnds(outcome)
       ELSE /\ step' = IF kind[cur] = "develop" THEN "find" ELSE "check"
            /\ again' = FALSE /\ UNCHANGED taskVars
    /\ UNCHANGED <<runVars, branchVars, prs, faults>>

ScanFails ==
    /\ step = "scan"
    /\ HostFails("scan")
    /\ UNCHANGED <<runVars, branchVars, scanned, prs, faults>>

\* The host removes the branch, and its pull requests close.
BranchGone ==
    /\ exists' = FALSE /\ commits' = {} /\ maker' = 0 /\ prs' = 0
    /\ UNCHANGED secrets

\* delete_branch; a delete of a branch that is gone is refused.
Delete ==
    /\ step = "delete" /\ exists
    /\ BranchGone
    /\ GateEnds("failed")
    /\ UNCHANGED <<runVars, scanned, faults>>

DeleteFails ==
    /\ step = "delete"
    /\ "host" \in faults \/ ~exists
    /\ \/ exists /\ BranchGone
       \/ UNCHANGED <<branchVars, prs>>
    /\ \/ /\ ~again /\ exists
          /\ again' = TRUE
          /\ UNCHANGED <<taskVars, step>>
       \/ GateEnds("failed")
    /\ UNCHANGED <<runVars, scanned, faults>>

\* find_or_open: find_pr, then open_pr.
FindPr ==
    /\ step = "find"
    /\ IF prs > 0 THEN GateEnds("success")
       ELSE step' = "open" /\ UNCHANGED <<taskVars, again>>
    /\ UNCHANGED <<runVars, branchVars, scanned, prs, faults>>

OpenPr ==
    /\ step = "open"
    /\ prs' = prs + 1
    /\ GateEnds("success")
    /\ UNCHANGED <<runVars, branchVars, scanned, faults>>

\* Mutated: the second attempt opens, and does not find first.
PrFailsOpensAgain ==
    /\ step \in {"find", "open"}
    /\ prs' \in {prs, prs + 1}
    /\ step = "find" => prs' = prs
    /\ HostFails(step)
    /\ UNCHANGED <<runVars, branchVars, scanned, faults>>

\* find_pr or open_pr fails; a pull request may be open all the same.  The
\* second attempt finds before it opens.
PrFails ==
    /\ step \in {"find", "open"}
    /\ prs' \in {prs, prs + 1}
    /\ step = "find" => prs' = prs
    /\ HostFails("find")
    /\ UNCHANGED <<runVars, branchVars, scanned, faults>>

\* The pull request of a rework is read; it may be gone, or the call may fail.
CheckPr ==
    /\ step = "check"
    /\ \/ GateEnds("success")
       \/ "people" \in faults /\ GateEnds("failed")
       \/ HostFails("check")
    /\ UNCHANGED <<runVars, branchVars, scanned, prs, faults>>

-----------------------------------------------------------------------------
(* People, between two runs. *)

PersonDeletes ==
    /\ "people" \in faults /\ cur = 0 /\ exists
    /\ BranchGone
    /\ UNCHANGED <<taskVars, step, again, runVars, scanned, faults>>

PersonMakes ==
    /\ "people" \in faults /\ cur = 0 /\ ~exists
    /\ exists' = TRUE
    /\ UNCHANGED <<taskVars, step, again, runVars, maker, commits, secrets, scanned,
                   prs, faults>>

-----------------------------------------------------------------------------
Init ==
    /\ status = [t \in Tasks |-> "none"]
    /\ kind = [t \in Tasks |-> "develop"]
    /\ history = [t \in Tasks |-> [pushed |-> FALSE, created |-> FALSE]]
    /\ cur = 0 /\ runs = 0
    /\ step = "idle" /\ again = FALSE
    /\ cloned = {} /\ created = FALSE /\ outcome = "failed"
    /\ exists \in BOOLEAN
    /\ maker = 0 /\ commits = {} /\ secrets = {} /\ scanned = {}
    /\ prs = 0
    /\ faults \in SUBSET FaultKinds

Worker == Checkout \/ EndsUnpushed \/ Push \/ PushUnseen \/ Report \/ Lost

Gate ==
    \/ Scan \/ ScanFails \/ Delete \/ DeleteFails
    \/ FindPr \/ OpenPr \/ PrFails \/ CheckPr

Next ==
    \/ \E t \in Tasks : Develop(t) \/ Rework(t) \/ Resume(t)
    \/ Worker
    \/ Gate
    \/ PersonDeletes \/ PersonMakes

Spec == Init /\ [][Next]_vars

-----------------------------------------------------------------------------
(* Properties *)

Steps == {"idle", "checkout", "session", "pushed", "scan", "delete", "find", "open", "check"}

\* The tasks, the run and the branch have the values the code gives them, and
\* nothing is on a branch that is not there.
TypeOK ==
    /\ status \in [Tasks -> {"none", "active", "success", "blocked", "timed_out", "failed"}]
    /\ kind \in [Tasks -> {"develop", "rework"}]
    /\ history \in [Tasks -> [pushed : BOOLEAN, created : BOOLEAN]]
    /\ cur \in 0..MaxTasks /\ runs \in 0..MaxRuns
    /\ step \in Steps /\ again \in BOOLEAN
    /\ cur = 0 <=> step = "idle"
    /\ cloned \subseteq Runs /\ created \in BOOLEAN
    /\ outcome \in {"success", "blocked", "timed_out", "failed"}
    /\ exists \in BOOLEAN /\ maker \in 0..MaxTasks
    /\ commits \subseteq Runs /\ secrets \subseteq Runs /\ scanned \subseteq Runs
    /\ ~exists => commits = {} /\ prs = 0 /\ maker = 0
    /\ prs \in Nat
    /\ faults \subseteq FaultKinds

\* The branch has at most one open pull request, whatever calls fail with
\* their effect done ("a retry never opens two").
OnePr == prs <= 1

\* Unless an earlier push or gate was cut short, when a gate opens a pull request
\* the diff of every commit of a worker in it was read ("It scans the diff of the
\* worker's commits for credentials before it opens the pull request").
ScannedBeforePr ==
    [][faults \subseteq {"people"} /\ prs' > prs => commits \subseteq scanned]_vars

\* Unless a person makes the branch anew, a gate deletes only a branch that a run
\* of the same task made ("deletes the branch only when the task made it").
DeletesOwnBranch ==
    []["people" \notin faults /\ step = "delete" /\ exists /\ ~exists' => maker = cur]_vars

=============================================================================
