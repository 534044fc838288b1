----------------------------- MODULE TaskClock -----------------------------
(***************************************************************************)
(* The two clocks of a task.  The worker has a budget of work that pauses  *)
(* while it asks (clock.py, Asker in session.py, the margin in main.py).   *)
(* The manager has the columns started_at, paused_s and asked_at, from     *)
(* which its supervisor computes the time to stop the worker (TaskClock,   *)
(* kill_time and Deadline in runtime.py, end_wait in store.py).  Nothing   *)
(* but the calls of the worker keeps the two together.                     *)
(*                                                                         *)
(* Time is a number of units.  A step of the worker or of the supervisor   *)
(* that has a time limit lets no more time pass than that limit (Tick).    *)
(* When a worker is too old is only for the supervisor to see (Check).     *)
(***************************************************************************)
EXTENDS Integers

CONSTANTS
    Timeout,     \* the persona's timeout_s
    AskWait,     \* ask_wait_s
    Margin,      \* DEADLINE_MARGIN_S of the worker
    Grace,       \* GRACE_S of the runtimes
    StartGrace,  \* WORKER_START_GRACE_S
    Delay,       \* bound: a call between the worker and the manager
    SendTime,    \* bound: the send of a question to channels
    PollTime,    \* poll_s of GET /worker/answer
    Rounding,    \* what the rounding of a wait to seconds adds or takes
    Watch,       \* poll_s of the supervisor, with the read of the container
    StopTime,    \* bound: the kill of a worker that the supervisor stops
    MaxAsks      \* bound: questions of the session

FaultKinds == {
    "unsent",    \* a question does not reach channels
    "hangs"}     \* the worker stops taking its steps

ASSUME ClockAssumption ==
    /\ {Timeout, AskWait, Margin, Grace, StartGrace, Delay, SendTime, PollTime,
        Rounding, Watch, StopTime, MaxAsks} \subseteq Nat
    /\ Margin < Timeout

Never == -1   \* a time column that is NULL

VARIABLES
    now,         \* the time since the runtime made the worker
    phase,       \* what the worker does
    since,       \* when the call or the wait it is in began
    paused,      \* Clock.paused_s of the worker
    pausedAt,    \* when the ask call under way began, or Never
    waited,      \* Asker.waited_s
    asks,
    startedAt,   \* the columns of the row
    pausedS,
    askedAt,
    answeredAt,  \* when the answer the worker waits for came, or Never
    stoppedAt,   \* when the session stopped, or Never
    checked,     \* when the supervisor last looked at the clock
    verdict,     \* what it saw: "none" while the worker may still run
    faults       \* the faults that may happen, a subset of FaultKinds

vars == <<now, phase, since, paused, pausedAt, waited, asks, startedAt, pausedS,
          askedAt, answeredAt, stoppedAt, checked, verdict, faults>>

supervisorVars == <<checked, verdict>>

\* The session runs until "finishing", the push and the report; then the task
\* is "over", or the supervisor "killed" the worker.
Phases == {"starting", "working", "posting", "sending", "waiting", "stopping", "finishing",
           "over", "killed"}

Alive == phase \notin {"over", "killed"}

-----------------------------------------------------------------------------
(* The clock of the worker. *)

\* Clock.elapsed: the process starts its clock when it asks for its brief.
Elapsed == (IF pausedAt # Never THEN pausedAt ELSE now) - startedAt - paused
Remaining == (Timeout - Margin) - Elapsed

\* Mutated: each question has ask_wait_s of its own.
WaitLeftPerAsk == AskWait

WaitLeft == AskWait - waited

\* The finally of Asker: the wait is added up, the clock runs again.
Resumes ==
    /\ paused' = paused + (now - pausedAt)
    /\ waited' = waited + (now - pausedAt)
    /\ pausedAt' = Never

\* The column side: TaskStore.end_wait closes the open wait, if there is one,
\* and counts it in whole seconds.
Counts ==
    IF askedAt = Never THEN UNCHANGED pausedS
    ELSE \E w \in 0..(now - askedAt + Rounding) :
            w >= now - askedAt - Rounding /\ pausedS' = pausedS + w
EndWait == Counts /\ askedAt' = Never

\* GET /worker/brief: mark_running.
ReadBrief ==
    /\ phase = "starting"
    /\ phase' = "working" /\ startedAt' = now
    /\ UNCHANGED <<now, since, paused, pausedAt, waited, asks, pausedS, askedAt,
                   answeredAt, stoppedAt, supervisorVars, faults>>

\* The ask tool: the clock pauses, then the question is posted.
Ask ==
    /\ phase = "working" /\ asks < MaxAsks /\ Remaining > 0 /\ WaitLeft > 0
    /\ phase' = "posting" /\ since' = now /\ pausedAt' = now
    /\ asks' = asks + 1
    /\ UNCHANGED <<now, paused, waited, startedAt, pausedS, askedAt, answeredAt, stoppedAt, supervisorVars, faults>>

\* Manager.ask up to the send: it closes a wait that was left open, and opens
\* this one.
Open ==
    /\ phase = "posting"
    /\ phase' = "sending"
    /\ Counts
    /\ askedAt' = now
    /\ answeredAt' = Never
    /\ UNCHANGED <<now, since, paused, pausedAt, waited, asks, startedAt, stoppedAt, supervisorVars, faults>>

\* The question is in the chat: the wait has what is left of the total.
Sent ==
    /\ phase = "sending"
    /\ phase' = "waiting" /\ since' = now
    /\ UNCHANGED <<now, paused, pausedAt, waited, asks, startedAt, pausedS, askedAt,
                   answeredAt, stoppedAt, supervisorVars, faults>>

\* The send failed: the manager drops the wait, and adds nothing to paused_s.
NotSent ==
    /\ "unsent" \in faults
    /\ phase = "sending"
    /\ phase' = "working"
    /\ askedAt' = Never
    /\ Resumes
    /\ UNCHANGED <<now, since, asks, startedAt, pausedS, answeredAt, stoppedAt, supervisorVars, faults>>

\* A person answers: the clock of the manager runs again.
Answer ==
    /\ phase \in {"sending", "waiting"} /\ askedAt # Never
    /\ EndWait
    /\ answeredAt' = now
    /\ UNCHANGED <<now, phase, since, paused, pausedAt, waited, asks, startedAt, stoppedAt, supervisorVars, faults>>

\* The poll of the worker returns the answer.
TakeAnswer ==
    /\ phase = "waiting" /\ answeredAt # Never
    /\ phase' = "working"
    /\ Resumes
    /\ UNCHANGED <<now, since, asks, startedAt, pausedS, askedAt, answeredAt, stoppedAt, supervisorVars, faults>>

\* The total is used: the worker resumes its clock and then stops the wait.
WaitEnds ==
    /\ phase = "waiting"
    /\ now - since >= WaitLeft
    /\ phase' = "stopping" /\ since' = now
    /\ Resumes
    /\ UNCHANGED <<now, asks, startedAt, pausedS, askedAt, answeredAt, stoppedAt, supervisorVars, faults>>
StopWait ==
    /\ phase = "stopping"
    /\ phase' = "working"
    /\ EndWait
    /\ UNCHANGED <<now, since, paused, pausedAt, waited, asks, startedAt, answeredAt, stoppedAt, supervisorVars, faults>>

\* The session ends by itself, or the watchdog finds no time left.
SessionStops ==
    /\ phase = "working"
    /\ phase' = "finishing" /\ stoppedAt' = now
    /\ UNCHANGED <<now, since, paused, pausedAt, waited, asks, startedAt, pausedS,
                   askedAt, answeredAt, supervisorVars, faults>>

\* The push and the report are done.
Finish ==
    /\ phase = "finishing"
    /\ phase' = "over"
    /\ UNCHANGED <<now, since, paused, pausedAt, waited, asks, startedAt, pausedS,
                   askedAt, answeredAt, stoppedAt, supervisorVars, faults>>

-----------------------------------------------------------------------------
(* The supervisor: Deadline.check. *)

\* Mutated: a wait counts only when it has ended.
KillTimeWithoutOpenWait == startedAt + Timeout + Grace + pausedS

KillTime ==
    startedAt + Timeout + Grace + pausedS + (IF askedAt = Never THEN 0 ELSE now - askedAt)

\* Mutated: waits move the hard cap.
HardCapMovedByWaits == startedAt + Timeout + AskWait + Grace + pausedS

HardCap == startedAt + Timeout + AskWait + Grace

NoStart == startedAt = Never /\ now >= StartGrace
DeadlinePassed == startedAt # Never /\ (now >= HardCap \/ now >= KillTime)

\* A turn of the loop of _supervise that finds the worker running.
Check ==
    /\ Alive /\ verdict = "none"
    /\ checked' = now
    /\ verdict' = IF NoStart THEN "no_start"
                  ELSE IF DeadlinePassed THEN "deadline" ELSE "none"
    /\ UNCHANGED <<now, phase, since, paused, pausedAt, waited, asks, startedAt, pausedS,
                   askedAt, answeredAt, stoppedAt, faults>>

\* The kill is done.  Until then the worker goes on.
Kill ==
    /\ Alive /\ verdict # "none"
    /\ phase' = "killed"
    /\ UNCHANGED <<now, since, paused, pausedAt, waited, asks, startedAt, pausedS,
                   askedAt, answeredAt, stoppedAt, supervisorVars, faults>>

\* The supervisor has a step that it takes before more time passes.
SupervisorIsDue == now - checked >= IF verdict = "none" THEN Watch ELSE StopTime

\* The worker has a step that it takes before more time passes.
WorkerIsDue ==
    \/ phase = "working" /\ Remaining <= 0
    \/ phase \in {"posting", "stopping"} /\ now - since >= Delay
    \/ phase = "sending" /\ now - since >= Delay + SendTime
    \/ phase = "waiting" /\ now - since >= WaitLeft + PollTime
    \/ /\ phase = "waiting" /\ answeredAt # Never
       /\ now - since >= Delay /\ now - answeredAt >= Delay

Tick ==
    /\ Alive
    /\ ~SupervisorIsDue
    /\ "hangs" \in faults \/ ~WorkerIsDue
    /\ now' = now + 1
    /\ UNCHANGED <<phase, since, paused, pausedAt, waited, asks, startedAt, pausedS,
                   askedAt, answeredAt, stoppedAt, supervisorVars, faults>>

-----------------------------------------------------------------------------
Init ==
    /\ now = 0
    /\ phase = "starting" /\ since = 0
    /\ paused = 0 /\ pausedAt = Never /\ waited = 0 /\ asks = 0
    /\ startedAt = Never /\ pausedS = 0 /\ askedAt = Never
    /\ answeredAt = Never
    /\ stoppedAt = Never
    /\ checked = 0 /\ verdict = "none"
    /\ faults \in SUBSET FaultKinds

Next ==
    \/ ReadBrief \/ Ask \/ Open \/ Sent \/ NotSent \/ Answer \/ TakeAnswer
    \/ WaitEnds \/ StopWait \/ SessionStops \/ Finish \/ Check \/ Kill \/ Tick

Spec == Init /\ [][Next]_vars

-----------------------------------------------------------------------------
(* Properties *)

Times == Nat \cup {Never}

\* The columns and the clocks have the values the code gives them; the clock
\* of the worker is paused exactly while an ask call is under way.
TypeOK ==
    /\ {now, since, paused, waited, asks, pausedS, checked} \subseteq Nat
    /\ verdict \in {"none", "no_start", "deadline"}
    /\ phase \in Phases
    /\ {pausedAt, startedAt, askedAt, answeredAt, stoppedAt} \subseteq Times
    /\ faults \subseteq FaultKinds
    /\ phase \in {"posting", "sending", "waiting"} => pausedAt # Never
    /\ phase \in {"starting", "working", "stopping", "finishing"} => pausedAt = Never

\* A worker that is stopped at its deadline had stopped its session, and had
\* DEADLINE_MARGIN_S since ("so the push and the report fit before the manager
\* kills the container"), whatever it asked, however long the waits were and
\* however late each call was, when every question reaches channels.
FinishFits ==
    faults = {} /\ phase = "killed" /\ verdict = "deadline" =>
        stoppedAt # Never /\ now - stoppedAt >= Margin

\* The waits of a task take ask_wait_s in total, over all its questions, but
\* for the last send, the last poll and the calls around it, and for what the
\* rounding of each wait adds.
WaitsWithinTotal ==
    "hangs" \notin faults =>
        pausedS + (IF Alive /\ askedAt # Never THEN now - askedAt ELSE 0)
            <= AskWait + SendTime + PollTime + 2 * Delay + asks * Rounding

\* A worker that hangs in a wait moves its kill time on for ever, and yet the
\* supervisor sees the hard cap that no wait moves, and a worker that never
\* reads its brief in WORKER_START_GRACE_S: none lives longer than that, one
\* turn of the supervisor and its kill (Deadline.check).
NeverPastCap ==
    Alive => now <= Watch + StopTime +
        (IF startedAt = Never THEN StartGrace ELSE startedAt + Timeout + AskWait + Grace)

=============================================================================
