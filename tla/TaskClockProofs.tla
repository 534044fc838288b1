--------------------------- MODULE TaskClockProofs ---------------------------
(***************************************************************************)
(* What holds of the two clocks of a task for every length of its limits   *)
(* and any number of questions.                                            *)
(*                                                                         *)
(* The argument: no step of a worker that does not hang lasts longer than  *)
(* its limit (Timely), so the waits and the work stay within their totals  *)
(* (Counted, InBudget), and each question sets the manager's clock back    *)
(* against the worker's by no more than Lag (Behind).  The looks of the    *)
(* supervisor bound what a worker that hangs can do (Looked).              *)
(***************************************************************************)
EXTENDS TaskClock, TLAPS

Asking == {"posting", "sending", "waiting"}

\* The columns and the clocks are times, in the order the steps set them.
Ordered ==
    /\ now \in Nat /\ since \in Nat /\ paused \in Nat /\ asks \in Nat /\ pausedS \in Nat
    /\ waited = paused
    /\ checked \in Nat /\ checked <= now /\ verdict \in {"none", "no_start", "deadline"}
    /\ startedAt \in Times /\ pausedAt \in Times /\ askedAt \in Times
    /\ answeredAt \in Times /\ stoppedAt \in Times
    /\ phase \in Phases
    /\ since <= now /\ pausedAt <= since /\ asks <= MaxAsks
    /\ startedAt <= now /\ askedAt <= now /\ answeredAt <= now /\ stoppedAt <= now
    /\ phase = "starting" =>
        startedAt = Never /\ paused = 0 /\ pausedS = 0 /\ askedAt = Never /\ asks = 0
    /\ Alive /\ phase # "starting" => startedAt # Never
    /\ phase \in Asking => pausedAt # Never /\ waited < AskWait /\ asks > 0
    /\ Alive /\ phase \notin Asking => pausedAt = Never
    /\ phase \in {"posting", "sending"} => since = pausedAt
    /\ phase \in {"working", "posting", "finishing"} => askedAt = Never
    /\ phase \in {"sending", "waiting"} =>
        IF askedAt = Never THEN pausedAt <= answeredAt ELSE pausedAt <= askedAt /\ answeredAt = Never
    /\ phase \in {"waiting", "stopping"} => askedAt <= since
    /\ phase = "finishing" <=> (Alive /\ stoppedAt # Never)

LEMMA InitOrdered == Init => Ordered
BY ClockAssumption DEF Init, Ordered, Times, Never, Phases, Asking, Alive

LEMMA NextOrdered == ASSUME Ordered, [Next]_vars PROVE Ordered'
<1> USE ClockAssumption DEF supervisorVars, Ordered, Times, Never, Phases, Asking, Alive
<1>1. CASE UNCHANGED vars
  BY <1>1 DEF vars
<1>2. CASE ReadBrief
  BY <1>2 DEF ReadBrief
<1>3. CASE Ask
  BY <1>3 DEF Ask, Remaining, Elapsed, WaitLeft
<1>4. CASE Open
  BY <1>4 DEF Open, Counts
<1>5. CASE Sent
  BY <1>5 DEF Sent
<1>6. CASE NotSent
  BY <1>6 DEF NotSent, Resumes
<1>7. CASE Answer
  BY <1>7 DEF Answer, EndWait, Counts
<1>8. CASE TakeAnswer
  BY <1>8 DEF TakeAnswer, Resumes
<1>9. CASE WaitEnds
  BY <1>9 DEF WaitEnds, Resumes, WaitLeft
<1>10. CASE StopWait
  BY <1>10 DEF StopWait, EndWait, Counts
<1>11. CASE SessionStops
  BY <1>11 DEF SessionStops
<1>12. CASE Finish
  BY <1>12 DEF Finish
<1>13. CASE Kill
  BY <1>13 DEF Kill, Alive
<1>15. CASE Check
  BY <1>15 DEF Check
<1>14. CASE Tick
  BY <1>14 DEF Tick, Alive
<1> QED BY <1>1, <1>2, <1>3, <1>4, <1>5, <1>6, <1>7, <1>8, <1>9, <1>10, <1>11, <1>12, <1>13, <1>14, <1>15 DEF Next

-----------------------------------------------------------------------------
(* No worker outlives the cap. *)

\* When the worker may not be older than this, and so the supervisor must stop it.
Cap == IF startedAt = Never THEN StartGrace ELSE HardCap

\* The supervisor looks again within Watch as long as it has seen the worker
\* younger than its cap, and is done within StopTime of the look that has not.
Looked ==
    Alive =>
        /\ verdict = "none" => now <= checked + Watch /\ checked <= Cap
        /\ verdict # "none" => now <= checked + StopTime /\ checked <= Cap + Watch

LEMMA InitLooked == Init => Looked
BY ClockAssumption DEF Init, Looked, Cap, HardCap, Never

LEMMA NextLooked == ASSUME Ordered, Looked, [Next]_vars PROVE Looked'
<1> USE ClockAssumption DEF supervisorVars, Ordered, Times, Never, Alive, Looked, Cap, HardCap
<1>1. CASE Tick
  BY <1>1 DEF Tick, SupervisorIsDue
<1>2. CASE ReadBrief
  BY <1>2 DEF ReadBrief, Phases
<1>3. CASE Check
  BY <1>3 DEF Check, NoStart, DeadlinePassed
<1>4. CASE ~Tick /\ ~ReadBrief /\ ~Check
  <2>1. UNCHANGED <<now, startedAt, checked, verdict>> /\ (Alive' => Alive)
    BY <1>4 DEF Next, vars, supervisorVars, Ask, Open, Sent, NotSent, Answer, TakeAnswer, WaitEnds,
                StopWait, SessionStops, Finish, Kill
  <2> QED BY <2>1
<1> QED BY <1>1, <1>2, <1>3, <1>4

LEMMA LookedCaps == ASSUME Ordered, Looked PROVE NeverPastCap
BY ClockAssumption DEF Ordered, Looked, Cap, HardCap, NeverPastCap, Times, Never

-----------------------------------------------------------------------------
(* The waits of a worker that does not hang stay within their total. *)

NoHang == "hangs" \notin faults
WaitBound == AskWait + SendTime + PollTime + Delay

\* Each step is taken within its limit, so the last wait passes the total only
\* by its send, its poll and its call.
Timely ==
    /\ phase \in {"posting", "stopping"} => now - since <= Delay
    /\ phase = "sending" =>
        now - since <= Delay + SendTime /\ (askedAt # Never => askedAt - pausedAt <= Delay)
    /\ phase = "waiting" =>
        /\ since - pausedAt <= Delay + SendTime
        /\ now - since <= WaitLeft + PollTime
        /\ IF askedAt # Never THEN askedAt - pausedAt <= Delay
           ELSE now - since <= Delay \/ now - answeredAt <= Delay
    /\ paused <= WaitBound
    /\ phase = "stopping" => paused >= AskWait

LEMMA InitTimely == Init => Timely
BY ClockAssumption DEF Init, Timely, WaitBound

LEMMA NextTimely == ASSUME Ordered, Timely, NoHang, [Next]_vars PROVE Timely'
<1> USE ClockAssumption DEF supervisorVars, Ordered, Timely, WaitLeft, WaitBound, Times, Never, Phases, Asking, Alive, NoHang
<1>1. CASE UNCHANGED vars
  BY <1>1 DEF vars
<1>2. CASE ReadBrief
  BY <1>2 DEF ReadBrief
<1>3. CASE Ask
  BY <1>3 DEF Ask, Remaining, Elapsed, WaitLeft
<1>4. CASE Open
  BY <1>4 DEF Open, Counts
<1>5. CASE Sent
  BY <1>5 DEF Sent
<1>6. CASE NotSent
  BY <1>6 DEF NotSent, Resumes
<1>7. CASE Answer
  BY <1>7 DEF Answer, EndWait, Counts
<1>8. CASE TakeAnswer
  BY <1>8 DEF TakeAnswer, Resumes
<1>9. CASE WaitEnds
  BY <1>9 DEF WaitEnds, Resumes, WaitLeft
<1>10. CASE StopWait
  BY <1>10 DEF StopWait, EndWait, Counts
<1>11. CASE SessionStops
  BY <1>11 DEF SessionStops
<1>12. CASE Finish
  BY <1>12 DEF Finish
<1>13. CASE Kill
  BY <1>13 DEF Kill, Alive
<1>15. CASE Check
  BY <1>15 DEF Check
<1>14. CASE Tick
  BY <1>14 DEF Tick, Alive, WorkerIsDue
<1> QED BY <1>1, <1>2, <1>3, <1>4, <1>5, <1>6, <1>7, <1>8, <1>9, <1>10, <1>11, <1>12, <1>13, <1>14, <1>15 DEF Next

\* What the rounding of n waits adds or takes.
Roundings(n) == n * Rounding

LEMMA RoundingsAdd ==
    \A n \in Nat : Roundings(n) \in Nat /\ Roundings(n + 1) = Roundings(n) + Rounding
<1> TAKE n \in Nat
<1>1. Rounding \in Nat
  BY ClockAssumption
<1>2. n * Rounding \in Nat /\ (n + 1) * Rounding = n * Rounding + Rounding
  BY <1>1
<1> QED BY <1>2 DEF Roundings

\* What the manager has counted of the waits is no more than what the worker has,
\* but for the rounding and until the stop of the last one.
Counted ==
    /\ phase = "posting" => pausedS + Rounding <= paused + Roundings(asks)
    /\ phase \in {"sending", "waiting"} =>
        IF askedAt # Never THEN pausedS + Rounding <= paused + Roundings(asks)
        ELSE pausedS <= paused + (answeredAt - pausedAt) + Roundings(asks)
    /\ phase = "stopping" =>
        IF askedAt # Never THEN pausedS + (since - askedAt) + Rounding <= paused + Roundings(asks)
        ELSE pausedS <= paused + Roundings(asks)
    /\ phase \in {"working", "finishing"} =>
        pausedS <= Roundings(asks) + (IF paused < AskWait THEN paused ELSE paused + Delay)
    /\ pausedS <= WaitBound + Delay + Roundings(asks)

LEMMA InitCounted == Init => Counted
BY ClockAssumption DEF Init, Counted, WaitBound, Roundings

LEMMA NextCounted == ASSUME Ordered, Timely, Counted, NoHang, [Next]_vars PROVE Counted'
<1> USE ClockAssumption DEF supervisorVars, Ordered, Timely, Counted, WaitLeft, WaitBound, Times, Never, Phases, Asking, Alive, NoHang
<1>0. Roundings(asks) \in Nat /\ Roundings(asks + 1) = Roundings(asks) + Rounding
  BY RoundingsAdd
<1>1. CASE UNCHANGED vars
  BY <1>1, <1>0 DEF vars
<1>2. CASE ReadBrief
  BY <1>2, <1>0 DEF ReadBrief
<1>3. CASE Ask
  BY <1>3, <1>0 DEF Ask, Remaining, Elapsed, WaitLeft
<1>4. CASE Open
  BY <1>4, <1>0 DEF Open, Counts
<1>5. CASE Sent
  BY <1>5, <1>0 DEF Sent
<1>6. CASE NotSent
  BY <1>6, <1>0 DEF NotSent, Resumes
<1>7. CASE Answer
  BY <1>7, <1>0 DEF Answer, EndWait, Counts
<1>8. CASE TakeAnswer
  BY <1>8, <1>0 DEF TakeAnswer, Resumes
<1>9. CASE WaitEnds
  BY <1>9, <1>0 DEF WaitEnds, Resumes, WaitLeft
<1>10. CASE StopWait
  BY <1>10, <1>0 DEF StopWait, EndWait, Counts
<1>11. CASE SessionStops
  BY <1>11, <1>0 DEF SessionStops
<1>12. CASE Finish
  BY <1>12, <1>0 DEF Finish
<1>13. CASE Kill
  BY <1>13, <1>0 DEF Kill, Alive
<1>15. CASE Check
  BY <1>15, <1>0 DEF Check
<1>14. CASE Tick
  BY <1>14, <1>0 DEF Tick, Alive, WorkerIsDue
<1> QED BY <1>1, <1>2, <1>3, <1>4, <1>5, <1>6, <1>7, <1>8, <1>9, <1>10, <1>11, <1>12, <1>13, <1>14, <1>15 DEF Next

LEMMA CountedFits == ASSUME Ordered, Timely, Counted PROVE WaitsWithinTotal
<1>1. asks \in Nat /\ Roundings(asks) \in Nat /\ Roundings(asks) = asks * Rounding
  BY RoundingsAdd DEF Ordered, Roundings
<1>2. pausedS + (IF Alive /\ askedAt # Never THEN now - askedAt ELSE 0)
        <= AskWait + SendTime + PollTime + 2 * Delay + Roundings(asks)
  BY <1>1, ClockAssumption DEF Ordered, Timely, Counted, WaitBound, WaitLeft, Times, Never,
                               Phases, Asking, Alive
<1> QED BY <1>1, <1>2 DEF WaitsWithinTotal

-----------------------------------------------------------------------------
(* The work stays within its budget. *)

Budget == Timeout - Margin

\* The stop of the last wait may end after the budget did.
Overrun == IF Delay = 0 THEN 0 ELSE Delay - 1

InBudget ==
    /\ phase = "working" => now - startedAt - paused <= Budget + Overrun
    /\ phase \in Asking => pausedAt - startedAt - paused < Budget
    /\ phase = "stopping" => since - startedAt - paused < Budget
    /\ phase = "finishing" => stoppedAt - startedAt - paused <= Budget + Overrun

LEMMA InitInBudget == Init => InBudget
BY DEF Init, InBudget, Asking

LEMMA NextInBudget == ASSUME Ordered, Timely, InBudget, NoHang, [Next]_vars PROVE InBudget'
<1> USE ClockAssumption DEF supervisorVars, Ordered, Timely, InBudget, Budget, Overrun, Times, Never, Phases, Asking, Alive, NoHang
<1>1. CASE UNCHANGED vars
  BY <1>1 DEF vars
<1>2. CASE ReadBrief
  BY <1>2 DEF ReadBrief
<1>3. CASE Ask
  BY <1>3 DEF Ask, Remaining, Elapsed, WaitLeft
<1>4. CASE Open
  BY <1>4 DEF Open, Counts
<1>5. CASE Sent
  BY <1>5 DEF Sent
<1>6. CASE NotSent
  BY <1>6 DEF NotSent, Resumes
<1>7. CASE Answer
  BY <1>7 DEF Answer, EndWait, Counts
<1>8. CASE TakeAnswer
  BY <1>8 DEF TakeAnswer, Resumes
<1>9. CASE WaitEnds
  BY <1>9 DEF WaitEnds, Resumes, WaitLeft
<1>10. CASE StopWait
  BY <1>10 DEF StopWait, EndWait, Counts
<1>11. CASE SessionStops
  BY <1>11 DEF SessionStops
<1>12. CASE Finish
  BY <1>12 DEF Finish
<1>13. CASE Kill
  BY <1>13 DEF Kill, Alive
<1>15. CASE Check
  BY <1>15 DEF Check
<1>14. CASE Tick
  BY <1>14 DEF Tick, Alive, WorkerIsDue, Remaining, Elapsed
<1> QED BY <1>1, <1>2, <1>3, <1>4, <1>5, <1>6, <1>7, <1>8, <1>9, <1>10, <1>11, <1>12, <1>13, <1>14, <1>15 DEF Next

-----------------------------------------------------------------------------
(* The clock of the manager falls behind by Lag with each question. *)

EveryQuestionSent == "unsent" \notin faults
Lag == 2 * Delay + SendTime + Rounding
Lags(n) == n * Lag

LEMMA LagsAdd ==
    /\ \A n \in Nat : Lags(n) \in Nat /\ Lags(n + 1) = Lags(n) + Lag
    /\ \A n, m \in Nat : n <= m => Lags(n) <= Lags(m)
<1>1. Lag \in Nat
  BY ClockAssumption DEF Lag
<1>2. ASSUME NEW n \in Nat PROVE Lags(n) \in Nat /\ Lags(n + 1) = Lags(n) + Lag
  <2>1. n * Lag \in Nat /\ (n + 1) * Lag = n * Lag + Lag
    BY <1>1
  <2> QED BY <2>1 DEF Lags
<1>3. ASSUME NEW n \in Nat, NEW m \in Nat, n <= m PROVE Lags(n) <= Lags(m)
  <2>1. (m - n) * Lag \in Nat /\ m * Lag = n * Lag + (m - n) * Lag
    BY <1>1, <1>3
  <2>2. n * Lag \in Nat /\ m * Lag \in Nat
    BY <1>1
  <2> QED BY <2>1, <2>2 DEF Lags
<1> QED BY <1>2, <1>3

Behind ==
    /\ phase \in {"working", "finishing"} => paused <= pausedS + Lags(asks)
    /\ phase \in Asking => paused + Lag <= pausedS + Lags(asks)
    /\ phase \in {"sending", "waiting"} /\ askedAt = Never =>
        paused + (answeredAt - pausedAt) + Lag <= pausedS + Lags(asks) + Delay + Rounding
    /\ phase = "stopping" =>
        IF askedAt = Never THEN paused <= pausedS + Lags(asks)
        ELSE paused + Rounding <= pausedS + Lags(asks) + (since - askedAt)

LEMMA InitBehind == Init => Behind
BY DEF Init, Behind, Asking

LEMMA NextBehind == ASSUME Ordered, Timely, Behind, NoHang, EveryQuestionSent, [Next]_vars PROVE Behind'
<1> USE ClockAssumption DEF supervisorVars, Ordered, Timely, Behind, Lag, Times, Never, Phases, Asking, Alive, NoHang, EveryQuestionSent
<1>0. Lags(asks) \in Nat /\ Lags(asks + 1) = Lags(asks) + Lag
  <2>1. asks \in Nat
    OBVIOUS
  <2> HIDE DEF Lag
  <2> QED BY <2>1, LagsAdd
<1>1. CASE UNCHANGED vars
  BY <1>1 DEF vars
<1>2. CASE ReadBrief
  BY <1>2, <1>0 DEF ReadBrief
<1>3. CASE Ask
  BY <1>3, <1>0 DEF Ask, Remaining, Elapsed, WaitLeft
<1>4. CASE Open
  BY <1>4, <1>0 DEF Open, Counts
<1>5. CASE Sent
  BY <1>5, <1>0 DEF Sent
<1>6. CASE NotSent
  BY <1>6, <1>0 DEF NotSent, Resumes
<1>7. CASE Answer
  BY <1>7, <1>0 DEF Answer, EndWait, Counts
<1>8. CASE TakeAnswer
  BY <1>8, <1>0 DEF TakeAnswer, Resumes
<1>9. CASE WaitEnds
  BY <1>9, <1>0 DEF WaitEnds, Resumes, WaitLeft
<1>10. CASE StopWait
  BY <1>10, <1>0 DEF StopWait, EndWait, Counts
<1>11. CASE SessionStops
  BY <1>11, <1>0 DEF SessionStops
<1>12. CASE Finish
  BY <1>12, <1>0 DEF Finish
<1>13. CASE Kill
  BY <1>13, <1>0 DEF Kill, Alive
<1>15. CASE Check
  BY <1>15, <1>0 DEF Check
<1>14. CASE Tick
  BY <1>14, <1>0 DEF Tick, Alive
<1> QED BY <1>1, <1>2, <1>3, <1>4, <1>5, <1>6, <1>7, <1>8, <1>9, <1>10, <1>11, <1>12, <1>13, <1>14, <1>15 DEF Next

-----------------------------------------------------------------------------
(* The kill leaves time for the push and the report. *)

\* GRACE_S has room for what each question takes from the clock of the manager,
\* and for the last wait where it passes the total.
GraceCovers ==
    /\ Margin > 0
    /\ Lags(MaxAsks) + Overrun <= Grace
    /\ SendTime + PollTime + Delay + Overrun <= Grace

\* The time the session has, or had, and how much of it the manager knows.
LEMMA SessionShort ==
    ASSUME Ordered, Timely, InBudget, Behind, Alive, phase # "starting"
    PROVE  LET end == IF phase = "finishing" THEN stoppedAt ELSE now
               open == IF askedAt = Never THEN 0 ELSE now - askedAt
           IN  /\ end - startedAt <= Budget + Overrun + WaitBound
               /\ end - startedAt <= Budget + Overrun + pausedS + open + Lags(asks)
<1> USE ClockAssumption DEF supervisorVars, Ordered, Timely, InBudget, Behind, Overrun, WaitBound, WaitLeft, Lag,
        Times, Never, Phases, Asking, Alive
<1>0. asks \in Nat /\ Lags(asks) \in Nat /\ Budget \in Int
  <2>1. asks \in Nat
    OBVIOUS
  <2> QED BY <2>1, LagsAdd DEF Budget
<1>1. CASE phase \in {"working", "finishing"}
  BY <1>0, <1>1
<1>2. CASE phase \in {"posting", "sending"}
  BY <1>0, <1>2
<1>3. CASE phase = "waiting"
  BY <1>0, <1>3
<1>4. CASE phase = "stopping"
  BY <1>0, <1>4
<1> QED BY <1>1, <1>2, <1>3, <1>4

LEMMA VerdictFits ==
    ASSUME Ordered, Timely, InBudget, Behind, GraceCovers, Alive, DeadlinePassed
    PROVE  stoppedAt # Never /\ now - stoppedAt >= Margin
<1> USE ClockAssumption DEF Ordered
<1>1. /\ phase \in Phases /\ phase # "starting" /\ Alive
      /\ now >= HardCap \/ now >= KillTime
  BY DEF DeadlinePassed
<1> DEFINE end == IF phase = "finishing" THEN stoppedAt ELSE now
<1>2. /\ end - startedAt <= Budget + Overrun + WaitBound
      /\ end - startedAt <= Budget + Overrun + pausedS
                                + (IF askedAt = Never THEN 0 ELSE now - askedAt) + Lags(asks)
  BY <1>1, SessionShort
<1>3. Lags(asks) <= Lags(MaxAsks) /\ Lags(asks) \in Nat /\ Lags(MaxAsks) \in Nat
  BY LagsAdd
<1>4. /\ now \in Nat /\ startedAt \in Nat /\ end \in Int /\ askedAt \in Int /\ pausedS \in Nat
      /\ stoppedAt \in Int
  BY DEF Times, Never, DeadlinePassed
<1>5. now - end >= Margin
  <2>1. CASE now >= HardCap
    BY <1>2, <1>4, <2>1 DEF HardCap, GraceCovers, Budget, Overrun, WaitBound
  <2>2. CASE now >= KillTime
    BY <1>2, <1>3, <1>4, <2>2 DEF KillTime, GraceCovers, Budget, Overrun
  <2> QED BY <1>1, <2>1, <2>2
<1>6. phase = "finishing"
  BY <1>4, <1>5 DEF GraceCovers
<1> QED BY <1>1, <1>5, <1>6 DEF Never

\* From the look of the supervisor that finds the deadline passed, on.
Decided ==
    faults = {} /\ verdict = "deadline" => stoppedAt # Never /\ now - stoppedAt >= Margin

-----------------------------------------------------------------------------
LEMMA FaultsStay == ASSUME [Next]_vars PROVE UNCHANGED faults
BY DEF Next, vars, ReadBrief, Ask, Open, Sent, NotSent, Answer, TakeAnswer, WaitEnds, StopWait,
       SessionStops, Finish, Check, Kill, Tick

InTime == NoHang => Timely /\ Counted /\ InBudget
Even == NoHang /\ EveryQuestionSent => Behind

LEMMA AlwaysInTime == Spec => [](Ordered /\ InTime /\ Even /\ Looked)
<1>1. Init => Ordered /\ InTime /\ Even /\ Looked
  BY InitOrdered, InitTimely, InitCounted, InitInBudget, InitBehind, InitLooked DEF InTime, Even
<1>2. (Ordered /\ InTime /\ Even /\ Looked) /\ [Next]_vars => (Ordered /\ InTime /\ Even /\ Looked)'
  BY NextOrdered, NextTimely, NextCounted, NextInBudget, NextBehind, NextLooked, FaultsStay
     DEF InTime, Even, NoHang, EveryQuestionSent
<1> QED BY <1>1, <1>2, PTL DEF Spec

\* The columns and the clocks are times, and a pause is open exactly while the
\* worker asks (begin_wait and end_wait of TaskStore).
THEOREM TypeCorrect == Spec => []TypeOK
<1>1. Init => faults \subseteq FaultKinds
  BY DEF Init
<1>2. faults \subseteq FaultKinds /\ [Next]_vars => (faults \subseteq FaultKinds)'
  BY FaultsStay
<1>3. Ordered /\ faults \subseteq FaultKinds => TypeOK
  BY ClockAssumption DEF Ordered, TypeOK, Asking, Alive
<1> QED BY <1>1, <1>2, <1>3, AlwaysInTime, PTL DEF Spec

\* However the worker steps or hangs, and whatever its waits do to its kill
\* time, the looks of the supervisor (_supervise of both runtimes) and the cap
\* of Deadline.check (runtime.py) end it within a turn and a kill of that cap,
\* or of WORKER_START_GRACE_S while it has no brief.
THEOREM CapHolds == Spec => []NeverPastCap
<1>1. Ordered /\ Looked => NeverPastCap
  BY LookedCaps
<1> QED BY <1>1, AlwaysInTime, PTL

\* The waits that the manager counts stay within ask_wait_s, but for the last
\* send and poll, the two calls around them and the rounding of each wait, for
\* any number of questions.
THEOREM WaitsEnd == Spec => []WaitsWithinTotal
<1>1. Ordered /\ InTime => WaitsWithinTotal
  BY CountedFits DEF InTime, NoHang, WaitsWithinTotal
<1> QED BY <1>1, AlwaysInTime, PTL

\* With a GRACE_S that covers the questions and their rounding, a worker that is
\* stopped at its deadline had stopped its session DEADLINE_MARGIN_S before: its
\* push and its report fit.
THEOREM PushFits == ASSUME GraceCovers PROVE Spec => []FinishFits
<1>1. Init => Decided
  BY DEF Init, Decided
<1>2. Ordered /\ InTime /\ Even /\ Decided /\ [Next]_vars => Decided'
  <2> SUFFICES ASSUME Ordered, InTime, Even, Decided, [Next]_vars PROVE Decided'
    OBVIOUS
  <2>1. CASE Check
    <3>1. faults = {} => NoHang /\ EveryQuestionSent
      BY DEF NoHang, EveryQuestionSent
    <3>2. UNCHANGED <<stoppedAt, now, faults>> /\ Alive /\ (verdict' = "deadline" => DeadlinePassed)
      BY <2>1 DEF Check
    <3> QED BY <3>1, <3>2, GraceCovers, VerdictFits DEF InTime, Even, Decided
  <2>2. CASE SessionStops
    <3>1. stoppedAt = Never /\ UNCHANGED <<verdict, faults>>
      BY <2>2 DEF SessionStops, supervisorVars, Ordered, Alive
    <3> QED BY <3>1 DEF Decided
  <2>3. CASE ~Check /\ ~SessionStops
    <3>1. UNCHANGED <<stoppedAt, verdict, faults>> /\ now <= now'
      BY <2>3 DEF Next, vars, supervisorVars, Ordered, ReadBrief, Ask, Open, Sent, NotSent, Answer,
                  TakeAnswer, WaitEnds, StopWait, Finish, Kill, Tick
    <3>2. now \in Int /\ now' \in Int /\ stoppedAt \in Int
      BY NextOrdered DEF Ordered, Times, Never
    <3> QED BY <3>1, <3>2, ClockAssumption DEF Decided
  <2> QED BY <2>1, <2>2, <2>3
<1>3. Decided => FinishFits
  BY DEF Decided, FinishFits
<1> QED BY <1>1, <1>2, <1>3, AlwaysInTime, PTL DEF Spec

=============================================================================
