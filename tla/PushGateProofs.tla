--------------------------- MODULE PushGateProofs ---------------------------
(***************************************************************************)
(* What holds of the gate for any number of tasks and runs on a branch.    *)
(***************************************************************************)
EXTENDS PushGate, TLAPS

Statuses == {"none", "active", "success", "blocked", "timed_out", "failed"}
NoHistory == [pushed |-> FALSE, created |-> FALSE]

\* The tasks have their columns, and the one with the lock is active.
Typed ==
    /\ status \in [Tasks -> Statuses]
    /\ kind \in [Tasks -> {"develop", "rework"}]
    /\ history \in [Tasks -> [pushed : BOOLEAN, created : BOOLEAN]]
    /\ cur \in Tasks \cup {0}
    /\ cur = 0 <=> step = "idle"
    /\ cur # 0 => status[cur] = "active"
    /\ step \in Steps /\ prs \in Nat
    /\ created \in BOOLEAN /\ exists \in BOOLEAN
    /\ outcome \in Statuses \ {"none", "active"}

\* A pull request is opened when none was found.
FoundNone == prs <= 1 /\ (step = "open" => prs = 0)

LEMMA TasksPositive == 0 \notin Tasks /\ Tasks \subseteq Nat
BY GateAssumption DEF Tasks

LEMMA InitTyped == Init => Typed /\ FoundNone
<1> SUFFICES ASSUME Init PROVE Typed /\ FoundNone
  OBVIOUS
<1>1. status \in [Tasks -> Statuses] /\ kind \in [Tasks -> {"develop", "rework"}]
  BY DEF Init, Statuses
<1>2. history \in [Tasks -> [pushed : BOOLEAN, created : BOOLEAN]]
  BY DEF Init
<1>3. created \in BOOLEAN /\ exists \in BOOLEAN
  BY DEF Init
<1>4. /\ cur = 0 /\ step = "idle" /\ prs = 0 /\ outcome = "failed"
      /\ step \in Steps /\ outcome \in Statuses \ {"none", "active"}
  BY DEF Init, Steps, Statuses
<1>5. FoundNone
  BY <1>4 DEF FoundNone
<1> QED BY <1>1, <1>2, <1>3, <1>4, <1>5 DEF Typed

-----------------------------------------------------------------------------
(* How a run begins, goes on and ends. *)

LEMMA BeginsTyped ==
    ASSUME Typed, NEW t \in Tasks, Develop(t) \/ Rework(t) \/ Resume(t)
    PROVE  /\ Typed' /\ cur = 0 /\ step = "idle" /\ cur' = t /\ step' = "checkout"
           /\ status' = [status EXCEPT ![t] = "active"]
           /\ UNCHANGED <<history, again, runVars, branchVars, scanned, prs, faults>>
           /\ status[t] = "none" \/ Resumable(t)
<1>1. Start(t) /\ (status[t] = "none" \/ Resumable(t))
  BY DEF Develop, Rework, Resume, FirstStart
<1>2. kind' \in [Tasks -> {"develop", "rework"}]
  BY DEF Develop, Rework, Resume, FirstStart, Typed
<1>3. /\ cur = 0 /\ step = "idle" /\ cur' = t /\ step' = "checkout"
      /\ status' = [status EXCEPT ![t] = "active"]
      /\ UNCHANGED <<history, again, runVars, branchVars, scanned, prs, faults>>
  BY <1>1 DEF Start, Typed
<1>4. status' \in [Tasks -> Statuses] /\ status'[t] = "active"
  BY <1>3 DEF Typed, Statuses
<1>5. Typed'
  BY <1>2, <1>3, <1>4, TasksPositive DEF Typed, Steps, runVars, branchVars
<1> QED BY <1>1, <1>3, <1>5

\* What record_report leaves in the row of the task that ends.
LEMMA EndsRow ==
    ASSUME Typed, cur # 0, NEW st \in Statuses, NEW pushed \in BOOLEAN, NEW made \in BOOLEAN,
           Ends(st, pushed, made)
    PROVE  /\ cur' = 0 /\ step' = "idle" /\ UNCHANGED <<kind, runs>>
           /\ status' \in [Tasks -> Statuses]
           /\ history' \in [Tasks -> [pushed : BOOLEAN, created : BOOLEAN]]
           /\ status'[cur] = st
           /\ history'[cur].pushed = (history[cur].pushed \/ pushed)
           /\ history'[cur].created = (history[cur].created \/ made)
           /\ \A t \in Tasks \ {cur} : status'[t] = status[t] /\ history'[t] = history[t]
<1>1. cur \in Tasks /\ history[cur] \in [pushed : BOOLEAN, created : BOOLEAN]
  BY DEF Typed
<1> DEFINE row == [pushed |-> history[cur].pushed \/ pushed,
                   created |-> history[cur].created \/ made]
<1>2. row \in [pushed : BOOLEAN, created : BOOLEAN]
  BY <1>1
<1>3. history' = [history EXCEPT ![cur] = row] /\ status' = [status EXCEPT ![cur] = st]
  BY DEF Ends
<1>4. row.pushed = (history[cur].pushed \/ pushed) /\ row.created = (history[cur].created \/ made)
  OBVIOUS
<1> HIDE DEF row
<1>5. history'[cur] = row /\ status'[cur] = st
  BY <1>1, <1>3 DEF Typed
<1> QED BY <1>1, <1>2, <1>3, <1>4, <1>5 DEF Ends, Typed

\* A run goes on, or its report is recorded with a status that ends it.
LEMMA RunGoesOrEnds ==
    ASSUME Typed, Worker \/ Gate
    PROVE  /\ cur \in Tasks /\ step # "idle"
           /\ created' \in BOOLEAN /\ exists' \in BOOLEAN
           /\ outcome' \in Statuses \ {"none", "active"} /\ prs' \in Nat
           /\ UNCHANGED faults
           /\ \/ UNCHANGED taskVars /\ step' \in Steps \ {"idle", "checkout"}
              \/ \E st \in Statuses \ {"none", "active"}, pushed, made \in BOOLEAN :
                    Ends(st, pushed, made)
<1> USE DEF Typed, Statuses, Steps
<1>1. CASE Checkout
  BY <1>1 DEF Checkout, branchVars
<1>2. CASE EndsUnpushed
  BY <1>2 DEF EndsUnpushed, branchVars, runVars
<1>3. CASE Push
  BY <1>3 DEF Push, RemoteTakes
<1>12. CASE PushUnseen
  BY <1>12 DEF PushUnseen, RemoteTakes, runVars
<1>4. CASE Report
  BY <1>4 DEF Report, GateEnds, branchVars, runVars
<1>5. CASE Lost
  BY <1>5 DEF Lost, branchVars, runVars
<1>6. CASE Scan
  BY <1>6 DEF Scan, GateEnds, branchVars, runVars
<1>7. CASE ScanFails
  BY <1>7 DEF ScanFails, HostFails, GateEnds, branchVars, runVars
<1>8. CASE Delete \/ DeleteFails
  <2>1. /\ cur \in Tasks /\ step # "idle" /\ UNCHANGED <<faults, runVars>>
    BY <1>8 DEF Delete, DeleteFails
  <2>2. BranchGone \/ UNCHANGED <<branchVars, prs>>
    BY <1>8 DEF Delete, DeleteFails
  <2>3. exists' \in BOOLEAN /\ prs' \in Nat
    <3>1. CASE BranchGone
      BY <3>1 DEF BranchGone
    <3>2. CASE UNCHANGED <<branchVars, prs>>
      BY <3>2 DEF branchVars
    <3> QED BY <2>2, <3>1, <3>2
  <2>4. GateEnds("failed") \/ (UNCHANGED taskVars /\ step' \in Steps \ {"idle", "checkout"})
    BY <1>8 DEF Delete, DeleteFails
  <2> QED BY <2>1, <2>3, <2>4 DEF GateEnds, runVars
<1>9. CASE FindPr \/ OpenPr
  <2>1. /\ cur \in Tasks /\ step # "idle" /\ prs' \in Nat
        /\ UNCHANGED <<faults, runVars, branchVars>>
    BY <1>9 DEF FindPr, OpenPr
  <2>2. GateEnds("success") \/ (UNCHANGED taskVars /\ step' \in Steps \ {"idle", "checkout"})
    BY <1>9 DEF FindPr, OpenPr
  <2> QED BY <2>1, <2>2 DEF GateEnds, runVars, branchVars
<1>10. CASE PrFails
  <2>1. /\ cur \in Tasks /\ step # "idle" /\ prs' \in Nat
        /\ UNCHANGED <<faults, runVars, branchVars>>
    BY <1>10 DEF PrFails
  <2>2. GateEnds("failed") \/ (UNCHANGED taskVars /\ step' \in Steps \ {"idle", "checkout"})
    BY <1>10 DEF PrFails, HostFails
  <2> QED BY <2>1, <2>2 DEF GateEnds, runVars, branchVars
<1>11. CASE CheckPr
  BY <1>11 DEF CheckPr, HostFails, GateEnds, branchVars, runVars
<1> QED BY <1>1, <1>2, <1>3, <1>4, <1>5, <1>6, <1>7, <1>8, <1>9, <1>10, <1>11, <1>12 DEF Worker, Gate

LEMMA NextTyped == ASSUME Typed, [Next]_vars PROVE Typed'
<1>1. CASE UNCHANGED vars
  BY <1>1 DEF vars, Typed
<1>2. ASSUME NEW t \in Tasks, Develop(t) \/ Rework(t) \/ Resume(t) PROVE Typed'
  BY <1>2, BeginsTyped
<1>3. CASE Worker \/ Gate
  <2>1. CASE UNCHANGED taskVars /\ step' \in Steps \ {"idle", "checkout"}
    BY <1>3, <2>1, RunGoesOrEnds, TasksPositive DEF Typed, taskVars
  <2>2. ASSUME NEW st \in Statuses, NEW pushed \in BOOLEAN, NEW made \in BOOLEAN,
               Ends(st, pushed, made)
        PROVE  Typed'
    <3>1. /\ cur' = 0 /\ step' = "idle" /\ kind' = kind
          /\ status' \in [Tasks -> Statuses]
          /\ history' \in [Tasks -> [pushed : BOOLEAN, created : BOOLEAN]]
      BY <1>3, <2>2, EndsRow, RunGoesOrEnds, TasksPositive
    <3> QED BY <1>3, <3>1, RunGoesOrEnds DEF Typed, Steps
  <2> QED BY <1>3, <2>1, <2>2, RunGoesOrEnds
<1>4. CASE PersonDeletes \/ PersonMakes
  <2>1. /\ UNCHANGED <<taskVars, step, runVars>>
        /\ exists' \in BOOLEAN /\ prs' \in {prs, 0}
    BY <1>4 DEF PersonDeletes, PersonMakes, BranchGone
  <2> QED BY <2>1 DEF Typed, taskVars, runVars
<1> QED BY <1>1, <1>2, <1>3, <1>4 DEF Next

-----------------------------------------------------------------------------
(* One pull request. *)

LEMMA NextFoundNone == ASSUME Typed, FoundNone, [Next]_vars PROVE FoundNone'
<1> USE DEF FoundNone, Typed
<1>1. CASE UNCHANGED vars
  BY <1>1 DEF vars
<1>2. ASSUME NEW t \in Tasks, Develop(t) \/ Rework(t) \/ Resume(t) PROVE FoundNone'
  BY <1>2, BeginsTyped
<1>3. CASE Worker
  BY <1>3 DEF Worker, Checkout, EndsUnpushed, Push, PushUnseen, RemoteTakes, Report, Lost, Ends,
               GateEnds, taskVars
<1>4. CASE Scan \/ ScanFails \/ CheckPr
  BY <1>4 DEF Scan, ScanFails, CheckPr, HostFails, Ends, GateEnds, taskVars
<1>5. CASE Delete \/ DeleteFails
  BY <1>5 DEF Delete, DeleteFails, BranchGone, Ends, GateEnds
<1>6. CASE FindPr \/ OpenPr
  BY <1>6 DEF FindPr, OpenPr, Ends, GateEnds
<1>7. CASE PrFails
  BY <1>7 DEF PrFails, HostFails, Ends, GateEnds
<1>8. CASE PersonDeletes \/ PersonMakes
  BY <1>8 DEF PersonDeletes, PersonMakes, BranchGone
<1> QED BY <1>1, <1>2, <1>3, <1>4, <1>5, <1>6, <1>7, <1>8 DEF Next, Gate

LEMMA AlwaysTyped == Spec => [](Typed /\ FoundNone)
<1>1. (Typed /\ FoundNone) /\ [Next]_vars => (Typed /\ FoundNone)'
  BY NextTyped, NextFoundNone
<1> QED BY <1>1, InitTyped, PTL DEF Spec

\* The commits are of runs that were, nothing is on a branch that is gone, and
\* the branch stays while its push is being gated.
Branched ==
    /\ runs \in 0..MaxRuns /\ (cur # 0 => runs # 0) /\ again \in BOOLEAN
    /\ cloned \subseteq Runs /\ commits \subseteq Runs
    /\ secrets \subseteq Runs /\ scanned \subseteq Runs
    /\ maker \in Tasks \cup {0}
    /\ ~exists => commits = {} /\ prs = 0 /\ maker = 0
    /\ step \in {"pushed", "scan", "find", "open", "check"} => exists
    /\ faults \subseteq FaultKinds

LEMMA NextBranched == ASSUME Typed, Branched, [Next]_vars PROVE Branched'
<1> USE DEF Branched
<1>0. MaxRuns \in Nat /\ (runs # 0 => runs \in Runs)
  BY GateAssumption DEF Runs
<1>1. CASE UNCHANGED vars
  BY <1>1 DEF vars
<1>2. ASSUME NEW t \in Tasks, Develop(t) \/ Rework(t) \/ Resume(t) PROVE Branched'
  <2>1. runs < MaxRuns /\ runs' = runs + 1
    BY <1>2 DEF Develop, Rework, Resume, FirstStart, Start
  <2>2. runs' \in 0..MaxRuns /\ runs' # 0
    BY <1>0, <2>1
  <2> QED BY <1>2, <2>2, BeginsTyped DEF runVars, branchVars
<1>3. CASE Worker
  <2>1. cur \in Tasks /\ cur # 0 /\ runs \in Runs
    BY <1>0, <1>3, RunGoesOrEnds, TasksPositive
  <2>2. CASE Checkout
    BY <2>2 DEF Checkout, Ends, branchVars, taskVars
  <2>3. CASE EndsUnpushed \/ Report \/ Lost
    BY <2>3 DEF EndsUnpushed, Report, Lost, Ends, GateEnds, branchVars, runVars, taskVars
  <2>4. CASE Push
    BY <2>1, <2>4 DEF Push, RemoteTakes, taskVars
  <2>5. CASE PushUnseen
    BY <2>1, <2>5 DEF PushUnseen, RemoteTakes, Ends, runVars
  <2> QED BY <1>3, <2>2, <2>3, <2>4, <2>5 DEF Worker
<1>4. CASE Scan
  <2>1. scanned' \subseteq Runs
    BY <1>4 DEF Scan, Diff
  <2>2. UNCHANGED <<runs, prs, faults>> /\ UNCHANGED <<runVars, branchVars>>
    BY <1>4 DEF Scan, Ends, GateEnds, taskVars
  <2>3. again' \in BOOLEAN /\ (cur' # 0 => cur # 0) /\ step = "scan"
    BY <1>4 DEF Scan, Ends, GateEnds, taskVars
  <2> QED BY <2>1, <2>2, <2>3 DEF runVars, branchVars
<1>5. CASE ScanFails \/ CheckPr
  BY <1>5 DEF ScanFails, CheckPr, HostFails, Ends, GateEnds, taskVars, runVars, branchVars
<1>6. CASE Delete \/ DeleteFails
  <2>1. /\ UNCHANGED <<runs, scanned, faults>> /\ UNCHANGED runVars
        /\ again' \in BOOLEAN /\ (cur' # 0 => cur # 0) /\ step' \in {"delete", "idle"}
    BY <1>6 DEF Delete, DeleteFails, Ends, GateEnds, taskVars
  <2>2. BranchGone \/ UNCHANGED <<branchVars, prs>>
    BY <1>6 DEF Delete, DeleteFails
  <2> QED BY <2>1, <2>2 DEF BranchGone, runVars, branchVars
<1>7. CASE FindPr \/ OpenPr \/ PrFails
  <2>1. /\ UNCHANGED <<runs, scanned, faults>> /\ UNCHANGED <<runVars, branchVars>>
        /\ again' \in BOOLEAN /\ (cur' # 0 => cur # 0) /\ step \in {"find", "open"}
    BY <1>7 DEF FindPr, OpenPr, PrFails, HostFails, Ends, GateEnds, taskVars
  <2> QED BY <2>1 DEF runVars, branchVars
<1>8. CASE PersonDeletes \/ PersonMakes
  <2>1. cur = 0 /\ step = "idle" /\ UNCHANGED <<runs, cur, step, again, scanned, faults>>
        /\ UNCHANGED runVars
    BY <1>8 DEF PersonDeletes, PersonMakes, Typed, taskVars
  <2> QED BY <1>8, <2>1 DEF PersonDeletes, PersonMakes, BranchGone, runVars
<1> QED BY <1>1, <1>2, <1>3, <1>4, <1>5, <1>6, <1>7, <1>8 DEF Next, Gate

\* The rows, the run and the branch keep their types, and nothing is on a branch
\* that is not there (the remote of git.py and platforms.py).
THEOREM TypeCorrect == Spec => []TypeOK
<1>1. Init => Branched
  <2>1. 0 \in 0..MaxRuns /\ {} \subseteq Runs
    BY GateAssumption
  <2>2. Init => /\ runs = 0 /\ cur = 0 /\ again = FALSE /\ step = "idle" /\ maker = 0 /\ prs = 0
                /\ cloned = {} /\ commits = {} /\ secrets = {} /\ scanned = {}
                /\ faults \subseteq FaultKinds
    BY DEF Init
  <2> QED BY <2>1, <2>2 DEF Branched
<1>2. Typed /\ Branched => TypeOK
  BY TasksPositive, GateAssumption DEF Typed, Branched, TypeOK, Tasks, Statuses
<1> QED BY <1>1, <1>2, NextBranched, AlwaysTyped, PTL DEF Spec

\* find_or_open (platforms.py) finds before it opens, also on its retry: the
\* branch never has two open pull requests, whichever reply of the host is lost.
THEOREM OnePrOnly == Spec => []OnePr
<1>1. FoundNone => OnePr
  BY DEF FoundNone, OnePr
<1> QED BY <1>1, AlwaysTyped, PTL

-----------------------------------------------------------------------------
(* What a gate has read. *)

LEMMA FaultsStay == ASSUME Typed, [Next]_vars PROVE UNCHANGED faults
BY BeginsTyped, RunGoesOrEnds DEF Next, vars, PersonDeletes, PersonMakes

Uncut == faults \subseteq {"people"}

\* When no gate is cut short every commit that a checkout finds has been read, so
\* the diff of one run is all that is left to read.
Covered ==
    /\ Host = "git" => step \notin {"scan", "delete", "find", "open", "check"}
    /\ Host = "api" =>
        /\ step \notin {"pushed", "scan"} => commits \subseteq scanned
        /\ step \in {"session", "pushed", "scan"} => cloned \subseteq scanned

LEMMA NextCovered == ASSUME Typed, Covered, Uncut, [Next]_vars PROVE Covered'
<1> USE DEF Covered
<1>1. CASE UNCHANGED vars
  BY <1>1 DEF vars
<1>2. ASSUME NEW t \in Tasks, Develop(t) \/ Rework(t) \/ Resume(t) PROVE Covered'
  BY <1>2, BeginsTyped DEF branchVars, runVars
<1>3. CASE Checkout
  BY <1>3 DEF Checkout, Ends, branchVars
<1>4. CASE EndsUnpushed
  BY <1>4 DEF EndsUnpushed, Ends, branchVars, runVars
<1>5. CASE Push
  BY <1>5 DEF Push, RemoteTakes
<1>6. CASE Report
  BY <1>6, GateAssumption DEF Report, GateEnds, Ends, branchVars, runVars
<1>7. CASE Lost \/ PushUnseen \/ ScanFails \/ PrFails
  BY <1>7 DEF Lost, PushUnseen, ScanFails, PrFails, HostFails, Uncut
<1>8. CASE Scan
  <2>1. /\ step = "scan" /\ scanned' = scanned \cup (commits \ cloned)
        /\ UNCHANGED <<commits, cloned>>
        /\ step' \in {"idle", "delete", "find", "check"}
    BY <1>8 DEF Scan, Diff, GateEnds, Ends, branchVars, runVars
  <2>2. Host = "api" => commits \subseteq scanned'
    BY <2>1
  <2> QED BY <2>1, <2>2, GateAssumption
<1>9. CASE Delete \/ DeleteFails
  <2>1. /\ step = "delete" /\ step' \in {"idle", "delete"} /\ UNCHANGED scanned
        /\ commits' \in {{}, commits}
    BY <1>9 DEF Delete, DeleteFails, BranchGone, GateEnds, Ends, branchVars
  <2> QED BY <2>1
<1>10. CASE FindPr \/ OpenPr \/ CheckPr
  <2>1. /\ step \in {"find", "open", "check"} /\ step' \in {"idle", "open"}
        /\ UNCHANGED <<scanned, commits>>
    BY <1>10 DEF FindPr, OpenPr, CheckPr, HostFails, Uncut, GateEnds, Ends, branchVars
  <2> QED BY <2>1
<1>11. CASE PersonDeletes \/ PersonMakes
  <2>1. UNCHANGED <<step, scanned, cloned>> /\ commits' \in {{}, commits}
    BY <1>11 DEF PersonDeletes, PersonMakes, BranchGone, runVars
  <2>2. step = "idle"
    BY <1>11 DEF PersonDeletes, PersonMakes, Typed
  <2> QED BY <2>1, <2>2
<1> QED BY <1>1, <1>2, <1>3, <1>4, <1>5, <1>6, <1>7, <1>8, <1>9, <1>10, <1>11 DEF Next, Worker, Gate

\* No step but the open of a gate makes a pull request.
LEMMA OnlyOpens == ASSUME Typed, Uncut, [Next]_vars, prs' > prs PROVE step = "open"
<1> USE DEF Typed
<1>1. UNCHANGED prs \/ prs' = 0 \/ step = "open"
  <2>1. ASSUME NEW t \in Tasks, Develop(t) \/ Rework(t) \/ Resume(t) PROVE UNCHANGED prs
    BY <2>1, BeginsTyped
  <2>2. ~PrFails
    BY DEF PrFails, HostFails, Uncut
  <2> QED BY <2>1, <2>2 DEF Next, Worker, Gate, vars, Checkout, EndsUnpushed, Push, PushUnseen, Report, Lost,
        Scan, ScanFails, Delete, DeleteFails, BranchGone, FindPr, OpenPr, CheckPr,
        PersonDeletes, PersonMakes
<1> QED BY <1>1

\* Unless a push or a gate was cut short, a pull request is opened on a branch of which
\* scan_diff read every commit of a worker (_after_push, manager.py).
THEOREM ReadBeforeOpened == Spec => ScannedBeforePr
<1> DEFINE J == Uncut => Covered
<1>1. Init => J
  BY DEF Init, Covered
<1>2. Typed /\ J /\ [Next]_vars => J'
  BY NextCovered, FaultsStay DEF Uncut
<1>3. Typed /\ J /\ [Next]_vars
         => [faults \subseteq {"people"} /\ prs' > prs => commits \subseteq scanned]_vars
  BY OnlyOpens, GateAssumption DEF Uncut, Covered
<1> QED BY <1>1, <1>2, <1>3, AlwaysTyped, PTL DEF Spec, ScannedBeforePr

-----------------------------------------------------------------------------
(* Whose branch a gate deletes. *)

NoPeople == "people" \notin faults

\* A task that made the branch, and may go on, finds it as it left it: only its
\* own gate deletes it, and then the task is over.
MadeIt ==
    /\ \A t \in Tasks : status[t] = "none" => ~history[t].pushed /\ ~history[t].created
    /\ \A t \in Tasks : Resumable(t) /\ history[t].created => exists /\ maker = t
    /\ step \in {"checkout", "session", "pushed", "scan"} /\ history[cur].created =>
        history[cur].pushed /\ exists /\ maker = cur
    /\ step = "session" /\ created => ~exists /\ ~history[cur].pushed
    /\ step \in {"pushed", "scan"} => exists /\ (created => maker = cur)
    /\ step = "delete" /\ exists => maker = cur

LEMMA BeginsMadeIt ==
    ASSUME Typed, MadeIt, NEW t \in Tasks, Develop(t) \/ Rework(t) \/ Resume(t) PROVE MadeIt'
<1>1. /\ cur' = t /\ step' = "checkout" /\ status' = [status EXCEPT ![t] = "active"]
      /\ UNCHANGED <<history, exists, maker, created>>
      /\ status[t] = "none" \/ Resumable(t)
  BY BeginsTyped DEF branchVars, runVars
<1>2. \A u \in Tasks : status'[u] = IF u = t THEN "active" ELSE status[u]
  BY <1>1 DEF Typed
<1>3. history[t].created => history[t].pushed /\ exists /\ maker = t
  BY <1>1 DEF MadeIt, Resumable
<1> QED BY <1>1, <1>2, <1>3 DEF MadeIt, Resumable

\* A run that ends leaves the branch to its task, or to no run of it.
LEMMA EndsMadeIt ==
    ASSUME Typed, MadeIt, cur \in Tasks, NEW st \in Statuses \ {"none"}, NEW pushed \in BOOLEAN,
           NEW made \in BOOLEAN, Ends(st, pushed, made),
           st \in {"blocked", "timed_out"} /\ (history[cur].pushed \/ pushed)
               /\ (history[cur].created \/ made) => exists' /\ maker' = cur,
           \A t \in Tasks \ {cur} : exists /\ maker = t => exists' /\ maker' = t
    PROVE  MadeIt'
<1>1. cur # 0
  BY TasksPositive
<1>2. /\ step' = "idle"
      /\ status'[cur] = st
      /\ history'[cur].pushed = (history[cur].pushed \/ pushed)
      /\ history'[cur].created = (history[cur].created \/ made)
      /\ \A t \in Tasks \ {cur} : status'[t] = status[t] /\ history'[t] = history[t]
  BY <1>1, EndsRow
<1>3. \A t \in Tasks : status'[t] = "none" => ~history'[t].pushed /\ ~history'[t].created
  BY <1>2 DEF MadeIt
<1>4. ASSUME NEW t \in Tasks, Resumable(t)', history'[t].created PROVE exists' /\ maker' = t
  BY <1>2, <1>4 DEF MadeIt, Resumable
<1> QED BY <1>2, <1>3, <1>4 DEF MadeIt

LEMMA WorkerMadeIt == ASSUME Typed, MadeIt, Worker PROVE MadeIt'
<1>0. cur \in Tasks /\ \A t \in Tasks : history[t].pushed \in BOOLEAN /\ history[t].created \in BOOLEAN
  BY RunGoesOrEnds DEF Typed
<1>1. CASE Checkout
  <2>1. step = "checkout" /\ UNCHANGED <<exists, maker>>
    BY <1>1 DEF Checkout, branchVars
  <2>2. CASE Ends("failed", FALSE, FALSE)
    BY <1>0, <2>1, <2>2, EndsMadeIt DEF Statuses
  <2>3. CASE ~Ends("failed", FALSE, FALSE)
    <3>1. /\ step' = "session" /\ created' = ~exists /\ (created' => ~history[cur].pushed)
          /\ UNCHANGED <<status, history, cur>>
      BY <1>1, <2>3 DEF Checkout, taskVars, Resumed
    <3> QED BY <2>1, <3>1 DEF MadeIt, Resumable
  <2> QED BY <2>2, <2>3
<1>2. CASE EndsUnpushed
  <2>1. step = "session" /\ UNCHANGED <<exists, maker>>
    BY <1>2 DEF EndsUnpushed, branchVars
  <2>2. PICK st \in {"success", "blocked", "timed_out", "failed"} : Ends(st, FALSE, created)
    BY <1>2 DEF EndsUnpushed
  <2>3. history[cur].pushed /\ (history[cur].created \/ created) => exists' /\ maker' = cur
    BY <2>1 DEF MadeIt
  <2>4. created \in BOOLEAN /\ st \in Statuses \ {"none"}
    BY DEF Typed, Statuses
  <2> QED BY <1>0, <2>1, <2>2, <2>3, <2>4, EndsMadeIt
<1>3. CASE Push
  <2>1. /\ step = "session" /\ step' = "pushed" /\ exists' = TRUE
        /\ maker' = IF exists THEN maker ELSE cur
        /\ UNCHANGED <<status, history, cur, created>>
    BY <1>3 DEF Push, RemoteTakes, taskVars
  <2> QED BY <2>1 DEF MadeIt, Resumable
<1>6. CASE PushUnseen
  <2>1. exists' /\ (exists => maker' = maker) /\ Ends("failed", FALSE, created)
    BY <1>6 DEF PushUnseen, RemoteTakes
  <2>2. created \in BOOLEAN /\ "failed" \in Statuses \ {"none"}
    BY DEF Typed, Statuses
  <2> QED BY <1>0, <2>1, <2>2, EndsMadeIt
<1>4. CASE Report
  <2>1. step = "pushed" /\ UNCHANGED <<exists, maker, created>>
    BY <1>4 DEF Report, branchVars, runVars
  <2>2. CASE Host = "api"
    <3>1. step' = "scan" /\ UNCHANGED <<status, history, cur>>
      BY <1>4, <2>2 DEF Report, taskVars
    <3> QED BY <2>1, <3>1 DEF MadeIt, Resumable
  <2>3. CASE Host # "api"
    <3>1. Ends(outcome, TRUE, created)
      BY <1>4, <2>3 DEF Report, GateEnds
    <3>2. history[cur].created \/ created => exists' /\ maker' = cur
      BY <2>1 DEF MadeIt
    <3>3. created \in BOOLEAN /\ outcome \in Statuses \ {"none"}
      BY DEF Typed
    <3> QED BY <1>0, <2>1, <3>1, <3>2, <3>3, EndsMadeIt
  <2> QED BY <2>2, <2>3
<1>5. CASE Lost
  <2>1. UNCHANGED <<exists, maker>>
    BY <1>5 DEF Lost, branchVars
  <2>2. CASE Ends("failed", FALSE, FALSE)
    BY <1>0, <2>1, <2>2, EndsMadeIt DEF Statuses
  <2>3. CASE step \in {"session", "pushed"} /\ Ends("timed_out", FALSE, FALSE)
    <3>1. history[cur].created => exists' /\ maker' = cur
      BY <2>1, <2>3 DEF MadeIt
    <3> QED BY <1>0, <2>1, <2>3, <3>1, EndsMadeIt DEF Statuses
  <2> QED BY <1>5, <2>2, <2>3 DEF Lost
<1> QED BY <1>1, <1>2, <1>3, <1>4, <1>5, <1>6 DEF Worker

LEMMA GateMadeIt == ASSUME Typed, MadeIt, Gate PROVE MadeIt'
<1>0. /\ cur \in Tasks /\ created \in BOOLEAN
      /\ {"failed", "success"} \subseteq Statuses \ {"none", "blocked", "timed_out"}
  BY RunGoesOrEnds DEF Typed, Statuses
\* A gate that ends as a failure, or as a success, ends the task.
<1>1. ASSUME NEW st \in {"failed", "success"}, GateEnds(st),
             \A t \in Tasks \ {cur} : exists /\ maker = t => exists' /\ maker' = t
      PROVE  MadeIt'
  BY <1>0, <1>1, EndsMadeIt DEF GateEnds
<1>2. CASE Scan
  <2>1. step = "scan" /\ UNCHANGED <<exists, maker, created>>
    BY <1>2 DEF Scan, branchVars, runVars
  <2>2. CASE GateEnds("failed")
    BY <1>1, <2>1, <2>2
  <2>3. CASE GateEnds(outcome)
    <3>1. history[cur].created \/ created => exists' /\ maker' = cur
      BY <2>1 DEF MadeIt
    <3>2. outcome \in Statuses \ {"none"}
      BY DEF Typed
    <3> QED BY <1>0, <2>1, <2>3, <3>1, <3>2, EndsMadeIt DEF GateEnds
  <2>4. CASE UNCHANGED taskVars /\ step' \in {"delete", "find", "check"}
    <3>1. step' = "delete" => created \/ history[cur].created
      BY <1>2, <2>4 DEF Scan, MadeByTask, GateEnds, Ends
    <3> QED BY <2>1, <2>4, <3>1 DEF MadeIt, Resumable, taskVars
  <2> QED BY <1>2, <2>2, <2>3, <2>4 DEF Scan
<1>3. CASE ScanFails \/ PrFails \/ CheckPr
  <2>1. /\ UNCHANGED <<exists, maker, created>>
        /\ \/ GateEnds("failed") \/ GateEnds("success")
           \/ UNCHANGED taskVars /\ step \in {"scan", "find", "open", "check"}
                /\ (step' = step \/ step' \in {"find", "check"})
    BY <1>3 DEF ScanFails, PrFails, CheckPr, HostFails, branchVars, runVars
  <2>2. CASE GateEnds("failed") \/ GateEnds("success")
    BY <1>1, <2>1, <2>2
  <2>3. CASE UNCHANGED taskVars /\ step \in {"scan", "find", "open", "check"}
                /\ (step' = step \/ step' \in {"find", "check"})
    BY <2>1, <2>3 DEF MadeIt, Resumable, taskVars
  <2> QED BY <2>1, <2>2, <2>3
<1>4. CASE FindPr \/ OpenPr
  <2>1. /\ UNCHANGED <<exists, maker, created>>
        /\ GateEnds("success") \/ (UNCHANGED taskVars /\ step' = "open")
    BY <1>4 DEF FindPr, OpenPr, branchVars, runVars
  <2>2. CASE GateEnds("success")
    BY <1>1, <2>1, <2>2
  <2>3. CASE UNCHANGED taskVars /\ step' = "open"
    BY <2>1, <2>3 DEF MadeIt, Resumable, taskVars
  <2> QED BY <2>1, <2>2, <2>3
<1>5. CASE Delete \/ DeleteFails
  <2>1. /\ step = "delete" /\ created' = created
        /\ BranchGone \/ UNCHANGED <<exists, maker>>
        /\ GateEnds("failed") \/ (UNCHANGED taskVars /\ step' = step)
    BY <1>5 DEF Delete, DeleteFails, branchVars, runVars
  <2>2. \A t \in Tasks \ {cur} : exists /\ maker = t => exists' /\ maker' = t
    <3>1. exists => maker = cur
      BY <2>1 DEF MadeIt
    <3> QED BY <3>1
  <2>3. CASE GateEnds("failed")
    BY <1>1, <2>2, <2>3
  <2>4. CASE UNCHANGED taskVars /\ step' = step
    <3>1. \A t \in Tasks : Resumable(t) => t # cur
      BY <1>0, TasksPositive DEF Typed, Resumable
    <3>2. exists' => exists /\ maker' = maker
      BY <2>1 DEF BranchGone
    <3> QED BY <2>1, <2>2, <2>4, <3>1, <3>2 DEF MadeIt, Resumable, taskVars
  <2> QED BY <2>1, <2>3, <2>4
<1> QED BY <1>2, <1>3, <1>4, <1>5 DEF Gate

LEMMA NextMadeIt == ASSUME Typed, MadeIt, NoPeople, [Next]_vars PROVE MadeIt'
<1>1. CASE UNCHANGED vars
  BY <1>1 DEF vars, MadeIt, Resumable
<1>2. ~PersonDeletes /\ ~PersonMakes
  BY DEF PersonDeletes, PersonMakes, NoPeople
<1> QED BY <1>1, <1>2, BeginsMadeIt, WorkerMadeIt, GateMadeIt DEF Next

\* Unless a person deletes or makes the branch, _reject_push (manager.py) deletes
\* only a branch that a run of the same task made, also after a resume.
THEOREM DeletesOwn == Spec => DeletesOwnBranch
<1> DEFINE J == NoPeople => MadeIt
<1>1. Init => J
  BY DEF Init, MadeIt, Resumable
<1>2. Typed /\ J /\ [Next]_vars => J'
  BY NextMadeIt, FaultsStay DEF NoPeople
<1>3. Typed /\ J /\ [Next]_vars
         => ["people" \notin faults /\ step = "delete" /\ exists /\ ~exists' => maker = cur]_vars
  BY DEF NoPeople, MadeIt
<1> QED BY <1>1, <1>2, <1>3, AlwaysTyped, PTL DEF Spec, DeletesOwnBranch

=============================================================================
