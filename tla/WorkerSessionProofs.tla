------------------------- MODULE WorkerSessionProofs -------------------------
(***************************************************************************)
(* What holds of the session log and of the tunnel for every number of     *)
(* lines, runs, retries and requests under way.                            *)
(*                                                                         *)
(* The argument for the log: a chunk begins right after the lines the      *)
(* worker counts as sent, and those are in the log, or the log is full and *)
(* takes nothing more in this run.  So whichever request comes next, late  *)
(* or twice, what it adds joins on.                                        *)
(***************************************************************************)
EXTENDS WorkerSession, TLAPS

\* The log has the first k lines of the run, or takes no more.
Upto(k) == full \/ \A n \in 1..k : <<run, n>> \in log

Calls == [run : Nat, first : Nat, last : Nat, stage : {"sent", "read"}]

\* Counters are counters, and a request is from this run or an earlier one.
Shaped ==
    /\ run \in Nat /\ lines \in Nat /\ sent \in Nat /\ flush \in Nat
    /\ active \in BOOLEAN /\ full \in BOOLEAN
    /\ wire \in [Places -> Calls \cup {Empty}]
    /\ \A i \in Places : wire[i] # Empty => wire[i].run <= run

\* The reply the worker waits for is the one to the chunk it sends, and a
\* worker that is gone counts nothing and waits for nothing.
Waiting ==
    /\ \A i \in Places :
            waits = i /\ wire[i] # Empty => wire[i].run = run /\ wire[i].last = flush
    /\ worker = "gone" => sent = 0 /\ waits = Empty

\* What the worker counts as sent, and what comes before a chunk, is there.
Joined ==
    active =>
        /\ Upto(sent)
        /\ \A i \in Places :
                wire[i] # Empty /\ wire[i].run = run => Upto(wire[i].first - 1)

LogInv == Shaped /\ Waiting /\ Joined

\* With no late bodies a request that is read belongs to the run under way.
InTime ==
    \A i \in Places :
        wire[i] # Empty /\ wire[i].stage = "read" => active /\ wire[i].run = run

LEMMA LogInit == Init => LogInv /\ InTime /\ NoGapInRun
<1> SUFFICES ASSUME Init PROVE LogInv /\ InTime /\ NoGapInRun
  OBVIOUS
<1>1. Shaped
  BY DEF Init, Shaped
<1>2. Waiting /\ InTime /\ NoGapInRun
  BY DEF Init, Waiting, InTime, NoGapInRun
<1>3. Joined
  BY DEF Init, Joined, Upto
<1> QED BY <1>1, <1>2, <1>3 DEF LogInv

\* Nothing of the log or the task changes: what is joined stays so when the
\* requests and the count of sent lines do.
LEMMA JoinedStays ==
    ASSUME Joined, UNCHANGED <<active, run, log, full, sent>>,
           \A i \in Places : wire'[i] # Empty /\ wire'[i].run = run => Upto(wire'[i].first - 1)
    PROVE  Joined'
BY DEF Joined, Upto

-----------------------------------------------------------------------------
(* The worker's side. *)

\* A request that is posted begins after the lines that count as sent.
LEMMA PostKeeps ==
    ASSUME LogInv, NEW i \in Places, NEW last \in Nat, Posts(i, last), flush' = last,
           UNCHANGED <<active, run, log, full, sent, lines>>, worker # "gone", worker' # "gone"
    PROVE  LogInv'
<1> DEFINE q == [run |-> run, first |-> sent + 1, last |-> last, stage |-> "sent"]
<1>1. /\ wire' = [wire EXCEPT ![i] = q] /\ waits' = i
      /\ q \in Calls /\ wire \in [Places -> Calls \cup {Empty}]
  BY DEF Posts, LogInv, Shaped, Calls
<1>2. Shaped'
  BY <1>1 DEF LogInv, Shaped
<1>3. Waiting'
  BY <1>1 DEF LogInv, Waiting
<1>4. Joined'
  <2>1. active => Upto(q.first - 1)
    <3>1. q.first - 1 = sent
      BY DEF LogInv, Shaped
    <3> QED BY <3>1 DEF LogInv, Joined
  <2>2. \A k \in Places : wire'[k] # Empty /\ wire'[k].run = run /\ active => Upto(wire'[k].first - 1)
    BY <1>1, <2>1 DEF LogInv, Joined
  <2> QED BY <2>2 DEF LogInv, Joined, Upto
<1> QED BY <1>2, <1>3, <1>4 DEF LogInv

\* Whatever the worker does, what is joined stays so.
LEMMA WorkerKeeps == ASSUME LogInv, Worker PROVE LogInv'
<1> USE SessionAssumption
<1>1. CASE AddLine
  <2>1. lines' \in Nat
    BY <1>1 DEF AddLine, LogInv, Shaped
  <2> QED BY <1>1, <2>1 DEF AddLine, LogInv, Shaped, Waiting, Joined, Upto,
              taskVars, logVars, flushVars
<1>2. CASE NothingToFlush
  BY <1>2 DEF NothingToFlush, LogInv, Shaped, Waiting, Joined, Upto,
              taskVars, logVars, flushVars
<1>3. ASSUME NEW i \in Places, FlushBegins(i) PROVE LogInv'
  BY <1>3, PostKeeps DEF FlushBegins, LogInv, Shaped, taskVars, logVars
<1>4. ASSUME NEW i \in Places, GivesUp(i) PROVE LogInv'
  <2>1. worker # "gone" /\ UNCHANGED <<active, run, log, full, lines>>
    BY <1>4 DEF GivesUp, LogInv, Waiting, taskVars, logVars
  <2>2. CASE Posts(i, flush) /\ UNCHANGED <<worker, sent, flush>>
    BY <2>1, <2>2, PostKeeps DEF LogInv, Shaped
  <2>3. CASE FlushEnds /\ UNCHANGED <<sent, wire>>
    BY <2>1, <2>3 DEF FlushEnds, LogInv, Shaped, Waiting, Joined, Upto
  <2> QED BY <1>4, <2>2, <2>3 DEF GivesUp
<1>5. CASE SessionEnds
  BY <1>5 DEF SessionEnds, LogInv, Shaped, Waiting, Joined, Upto,
              taskVars, logVars
<1>6. CASE GitConnects \/ Head \/ HeadFails \/ HostAnswers \/ GitEnds
  <2>1. UNCHANGED <<taskVars, logVars, lines, flushVars, wire>>
    BY <1>6 DEF GitConnects, Head, HeadFails, HostAnswers, GitEnds
  <2>2. worker' = "gone" => worker = "gone"
    BY <1>6 DEF GitConnects, Head, HeadFails, HostAnswers, GitEnds
  <2> QED BY <2>1, <2>2 DEF LogInv, Shaped, Waiting, Joined, Upto,
              taskVars, logVars, flushVars
<1>7. CASE Report
  <2>1. /\ worker' = "gone" /\ lines' = 0 /\ sent' = 0 /\ flush' = 0 /\ waits' = Empty
        /\ run' = run /\ log' = log
        /\ active' => UNCHANGED <<active, full, wire>>
        /\ active' \in BOOLEAN /\ full' \in BOOLEAN
    BY <1>7 DEF Report, WorkerIsGone, TaskIsOver, LogInv, Shaped, taskVars, logVars
  <2>2. \/ wire' = wire
        \/ wire' = [i \in Places |-> IF wire[i] # Empty /\ wire[i].stage = "read" /\ ~LateBodies
                                     THEN Empty ELSE wire[i]]
    BY <1>7 DEF Report, TaskIsOver
  <2>3. Shaped'
    BY <2>1, <2>2 DEF LogInv, Shaped
  <2>4. Waiting' /\ Joined'
    BY <2>1 DEF LogInv, Waiting, Joined, Upto
  <2> QED BY <2>3, <2>4 DEF LogInv
<1> QED BY <1>1, <1>2, <1>3, <1>4, <1>5, <1>6, <1>7 DEF Worker

-----------------------------------------------------------------------------
(* The manager's side. *)

\* An answered request is gone; "ok" may count its lines when they are there.
LEMMA ReplyKeeps ==
    ASSUME LogInv, NEW i \in Places, NEW reply, NEW last, wire[i] # Empty, last = wire[i].last,
           wire' = [wire EXCEPT ![i] = Empty], Replied(i, reply),
           UNCHANGED <<run, active, lines>>, log \subseteq log', full => full', full' \in BOOLEAN,
           reply = "ok" /\ active /\ waits = i => Upto(last)'
    PROVE  LogInv'
<1> USE SessionAssumption
<1>1. Shaped'
  BY DEF LogInv, Shaped, Replied, FlushEnds, flushVars
<1>2. Waiting'
  <2>1. \A k \in Places : wire'[k] # Empty => wire'[k] = wire[k] /\ k # i
    BY DEF LogInv, Shaped
  <2>2. CASE UNCHANGED <<worker, flushVars>>
    BY <2>1, <2>2 DEF LogInv, Waiting, flushVars
  <2>3. CASE waits = i /\ FlushEnds
    <3>1. waits' = Empty /\ worker' # "gone"
      BY <2>3 DEF FlushEnds, LogInv, Waiting
    <3> QED BY <3>1 DEF Waiting
  <2> QED BY <2>2, <2>3 DEF Replied
<1>3. Joined'
  <2>1. active => Upto(sent)'
    <3>1. CASE sent' = sent
      BY <3>1 DEF LogInv, Joined, Upto
    <3>2. CASE reply = "ok" /\ sent' = flush /\ waits = i
      BY <3>2 DEF LogInv, Waiting, Upto
    <3> QED BY <3>1, <3>2 DEF Replied, flushVars
  <2>2. ASSUME active, NEW k \in Places, wire'[k] # Empty, wire'[k].run = run
        PROVE  Upto(wire[k].first - 1)' /\ wire'[k] = wire[k]
    <3>1. wire'[k] = wire[k]
      BY <2>2 DEF LogInv, Shaped
    <3>2. Upto(wire[k].first - 1)
      BY <2>2, <3>1 DEF LogInv, Joined
    <3> QED BY <3>1, <3>2 DEF Upto
  <2> QED BY <2>1, <2>2 DEF Joined, Upto
<1> QED BY <1>1, <1>2, <1>3 DEF LogInv

\* An authorized request is read; nothing else changes.
LEMMA ReadKeeps ==
    ASSUME LogInv, NEW i \in Places, wire[i] # Empty,
           wire' = [wire EXCEPT ![i].stage = "read"],
           UNCHANGED <<taskVars, logVars, worker, lines, flushVars>>
    PROVE  LogInv'
<1>1. /\ wire[i] \in Calls
      /\ wire' = [wire EXCEPT ![i] = [wire[i] EXCEPT !.stage = "read"]]
  BY DEF LogInv, Shaped
<1>2. \A k \in Places : wire'[k] # Empty =>
          /\ wire[k] # Empty /\ wire'[k] \in Calls
          /\ wire'[k].run = wire[k].run /\ wire'[k].first = wire[k].first
          /\ wire'[k].last = wire[k].last
  BY <1>1 DEF LogInv, Shaped, Calls
<1>3. Shaped'
  <2>1. wire' \in [Places -> Calls \cup {Empty}]
    BY <1>1 DEF LogInv, Shaped, Calls
  <2> QED BY <1>2, <2>1 DEF LogInv, Shaped, taskVars, logVars, flushVars
<1>4. Waiting' /\ Joined'
  BY <1>2 DEF LogInv, Waiting, Joined, Upto, taskVars, logVars, flushVars
<1> QED BY <1>3, <1>4 DEF LogInv

\* What a body appends joins on, and is then all there or the log is full.
LEMMA AppendJoins ==
    ASSUME LogInv, NEW q \in Calls, Append(q), run' = run
    PROVE  /\ log \subseteq log' /\ (full => full') /\ full' \in BOOLEAN
           /\ q.run = run /\ Upto(q.first - 1) => Upto(q.last)'
<1>1. /\ log \subseteq log' /\ (full => full') /\ full' \in BOOLEAN
  BY DEF Append, LogInv, Shaped
<1>2. ASSUME q.run = run, Upto(q.first - 1), ~full' PROVE Upto(q.last)'
  <2>1. ~full /\ log' = log \cup Chunk(q)
    BY <1>2 DEF Append, LogInv, Shaped
  <2>2. ASSUME NEW n \in 1..q.last PROVE <<run, n>> \in log'
    <3>1. CASE n < q.first
      BY <1>2, <2>1, <3>1 DEF Upto, Calls
    <3>2. CASE n >= q.first
      BY <1>2, <2>1, <3>2 DEF Chunk, Calls
    <3> QED BY <3>1, <3>2 DEF Calls
  <2> QED BY <2>2 DEF Upto, Calls
<1> QED BY <1>1, <1>2 DEF Upto

LEMMA ServeKeeps == ASSUME LogInv, NEW i \in Places, Serve(i) PROVE LogInv'
<1> USE SessionAssumption
<1>1. CASE Authorize(i)
  <2>1. wire[i] # Empty /\ UNCHANGED <<taskVars, logVars, lines>>
    BY <1>1 DEF Authorize
  <2>2. CASE wire' = [wire EXCEPT ![i].stage = "read"] /\ UNCHANGED <<worker, flushVars>>
    BY <2>1, <2>2, ReadKeeps
  <2>3. CASE wire' = [wire EXCEPT ![i] = Empty]
             /\ \E reply \in {"error", "ended"} : Replied(i, reply)
    <3>1. PICK reply \in {"error", "ended"} : Replied(i, reply)
      BY <2>3
    <3> QED BY <2>1, <2>3, <3>1, ReplyKeeps DEF taskVars, logVars, LogInv, Shaped
  <2> QED BY <1>1, <2>2, <2>3 DEF Authorize
<1>2. CASE TooLong(i)
  BY <1>2, ReplyKeeps DEF TooLong, taskVars, logVars, LogInv, Shaped
<1>3. CASE BodyArrives(i)
  <2> DEFINE q == wire[i]
             last == q.last
  <2>1. /\ q # Empty /\ q \in Calls /\ Append(q)
        /\ wire' = [wire EXCEPT ![i] = Empty] /\ Replied(i, "ok")
        /\ UNCHANGED <<run, active, lines>>
    BY <1>3 DEF BodyArrives, taskVars, LogInv, Shaped
  <2>2. /\ log \subseteq log' /\ (full => full') /\ full' \in BOOLEAN
        /\ q.run = run /\ Upto(q.first - 1) => (full' \/ \A n \in 1..q.last : <<run, n>> \in log')
    BY <2>1, AppendJoins DEF Upto
  <2>3. active /\ waits = i => (full' \/ \A n \in 1..q.last : <<run, n>> \in log')
    BY <2>1, <2>2 DEF LogInv, Waiting, Joined
  <2> QED BY <2>1, <2>2, <2>3, ReplyKeeps DEF Upto
<1>4. CASE Breaks(i)
  <2>1. \A k \in Places : wire'[k] # Empty => wire'[k] = wire[k]
    BY <1>4 DEF Breaks, LogInv, Shaped
  <2>2. Shaped'
    BY <1>4 DEF Breaks, LogInv, Shaped, taskVars, logVars, flushVars
  <2>3. Waiting' /\ Joined'
    BY <1>4, <2>1 DEF Breaks, LogInv, Waiting, Joined, Upto, taskVars, logVars, flushVars
  <2> QED BY <2>2, <2>3 DEF LogInv
<1> QED BY <1>1, <1>2, <1>3, <1>4 DEF Serve

-----------------------------------------------------------------------------
(* The end of a run and the next one, and the invariant as a whole. *)

LEMMA EndKeeps ==
    ASSUME LogInv, Supervised \/ Restart \/ Removed \/ Resume
    PROVE  LogInv'
<1>1. CASE Supervised
  <2>1. Shaped'
    BY <1>1 DEF Supervised, TaskIsOver, WorkerIsGone, LogInv, Shaped
  <2>2. Waiting' /\ Joined'
    <3>1. waits' = Empty /\ sent' = 0 /\ ~active'
      BY <1>1 DEF Supervised, TaskIsOver, WorkerIsGone
    <3> QED BY <3>1, SessionAssumption DEF Waiting, Joined
  <2> QED BY <2>1, <2>2 DEF LogInv
<1>2. CASE Restart
  <2>1. Shaped'
    BY <1>2 DEF Restart, LogInv, Shaped, flushVars
  <2>2. Waiting' /\ Joined'
    BY <1>2 DEF Restart, LogInv, Waiting, Joined, flushVars
  <2> QED BY <2>1, <2>2 DEF LogInv
<1>3. CASE Removed
  <2>1. ~active /\ UNCHANGED <<active, run, log, used, full, wire>> /\ WorkerIsGone
    BY <1>3 DEF Removed, taskVars, logVars
  <2>2. Shaped'
    BY <2>1 DEF WorkerIsGone, LogInv, Shaped
  <2>3. Waiting' /\ Joined'
    <3>1. waits' = Empty /\ sent' = 0
      BY <2>1 DEF WorkerIsGone
    <3>2. Waiting'
      BY <3>1, <2>1, SessionAssumption DEF WorkerIsGone, Waiting
    <3>3. Joined'
      BY <3>1, <2>1 DEF Joined
    <3> QED BY <3>2, <3>3
  <2> QED BY <2>2, <2>3 DEF LogInv
<1>4. CASE Resume
  <2>1. /\ sent = 0 /\ waits = Empty /\ run' = run + 1
        /\ UNCHANGED <<lines, sent, flush, waits, wire>>
        /\ active' \in BOOLEAN /\ full' \in BOOLEAN
    BY <1>4 DEF Resume, LogInv, Waiting, flushVars
  <2>2. \A i \in Places : wire[i] # Empty => wire[i].run \in Nat /\ wire[i].run <= run
    BY DEF LogInv, Shaped, Calls
  <2>3. Shaped'
    BY <2>1, <2>2 DEF LogInv, Shaped
  <2>4. Waiting'
    BY <2>1, SessionAssumption DEF Waiting
  <2>5. Joined'
    <3>1. run \in Nat
      BY DEF LogInv, Shaped
    <3>2. \A i \in Places : wire'[i] # Empty => wire'[i].run # run'
      BY <2>1, <2>2, <3>1
    <3>3. \A n \in 1..sent' : FALSE
      BY <2>1
    <3> QED BY <3>2, <3>3 DEF Joined, Upto
  <2> QED BY <2>3, <2>4, <2>5 DEF LogInv
<1> QED BY <1>1, <1>2, <1>3, <1>4

LEMMA LogNext == ASSUME LogInv, [Next]_vars PROVE LogInv'
<1>1. CASE UNCHANGED vars
  BY <1>1 DEF vars, LogInv, Shaped, Waiting, Joined, Upto, taskVars, logVars, flushVars
<1> QED BY <1>1, WorkerKeeps, ServeKeeps, EndKeeps DEF Next

\* Every line the worker counts as sent is in the log or the log is full, for
\* every number of lines, retries and requests under way, and with late bodies.
THEOREM SentKept == Spec => []SentIsKept
<1>1. LogInv => SentIsKept
  BY DEF LogInv, Joined, Upto, SentIsKept
<1> QED BY <1>1, LogInit, LogNext, PTL DEF Spec

-----------------------------------------------------------------------------
(* Gaps: only a body that comes after the end of its task can make one. *)

LEMMA InTimeNext ==
    ASSUME LogInv, InTime, ~LateBodies, [Next]_vars
    PROVE  InTime'
<1> USE DEF InTime
<1>1. ASSUME NEW i \in Places, NEW last, Posts(i, last), UNCHANGED taskVars PROVE InTime'
  BY <1>1 DEF Posts, LogInv, Shaped, taskVars
<1>2. ASSUME UNCHANGED <<taskVars, wire>> PROVE InTime'
  BY <1>2 DEF taskVars
<1>3. CASE Worker
  <2>1. CASE AddLine \/ NothingToFlush \/ SessionEnds \/ GitConnects \/ Head \/ HeadFails
             \/ HostAnswers \/ GitEnds
    BY <1>2, <2>1 DEF AddLine, NothingToFlush, SessionEnds, GitConnects, Head, HeadFails, HostAnswers,
           GitEnds, flushVars
  <2>2. ASSUME NEW i \in Places, FlushBegins(i) \/ GivesUp(i) PROVE InTime'
    BY <1>1, <1>2, <2>2 DEF FlushBegins, GivesUp
  <2>3. CASE Report
    BY <1>2, <2>3 DEF Report, TaskIsOver
  <2> QED BY <1>3, <2>1, <2>2, <2>3 DEF Worker
<1>4. ASSUME NEW i \in Places, Serve(i) PROVE InTime'
  <2>1. UNCHANGED taskVars
    BY <1>4 DEF Serve, Authorize, TooLong, BodyArrives, Breaks
  <2>2. CASE wire' = [wire EXCEPT ![i] = Empty]
    BY <2>1, <2>2 DEF LogInv, Shaped, taskVars
  <2>3. CASE wire' = [wire EXCEPT ![i].stage = "read"] /\ wire[i] # Empty /\ active /\ wire[i].run = run
    <3>1. \A k \in Places : k # i => wire'[k] = wire[k]
      BY <2>3 DEF LogInv, Shaped
    <3>2. wire[i] \in Calls /\ wire'[i].run = wire[i].run
      BY <2>3 DEF LogInv, Shaped, Calls
    <3> QED BY <2>1, <2>3, <3>1, <3>2 DEF taskVars
  <2> QED BY <1>4, <2>2, <2>3 DEF Serve, Authorize, TooLong, BodyArrives, Breaks
<1>5. CASE Supervised \/ Restart
  BY <1>5 DEF Supervised, TaskIsOver, Restart
<1>6. CASE Removed
  BY <1>2, <1>6 DEF Removed
<1>7. CASE Resume
  BY <1>7 DEF Resume
<1>8. CASE UNCHANGED vars
  BY <1>2, <1>8 DEF vars
<1> QED BY <1>3, <1>4, <1>5, <1>6, <1>7, <1>8 DEF Next

LEMMA GapNext ==
    ASSUME LogInv, InTime, NoGapInRun, [Next]_vars
    PROVE  NoGapInRun'
<1>1. CASE log' = log
  BY <1>1 DEF NoGapInRun
<1>2. ASSUME NEW i \in Places, BodyArrives(i), log' # log PROVE NoGapInRun'
  <2> DEFINE q == wire[i]
  <2>1. q \in Calls /\ q.run = run /\ Upto(q.first - 1)
    BY <1>2 DEF BodyArrives, InTime, LogInv, Shaped, Joined
  <2>2. ~full /\ log' = log \cup Chunk(q)
    BY <1>2 DEF BodyArrives, Append
  <2>3. ASSUME NEW r \in 1..MaxRuns, NEW n \in Lines, <<r, n>> \in log', NEW m \in 1..n
        PROVE  <<r, m>> \in log'
    <3>1. CASE <<r, n>> \in log
      BY <2>2, <2>3, <3>1 DEF NoGapInRun
    <3>2. CASE <<r, n>> \in Chunk(q)
      <4>1. r = run /\ n \in q.first..q.last /\ n \in Nat
        BY <2>1, <3>2 DEF Chunk, Calls, Lines
      <4>2. CASE m < q.first
        BY <2>1, <2>2, <4>1, <4>2 DEF Upto, Calls
      <4>3. CASE m >= q.first
        BY <2>1, <2>2, <4>1, <4>3 DEF Chunk, Calls
      <4> QED BY <2>1, <4>1, <4>2, <4>3 DEF Calls
    <3> QED BY <2>2, <2>3, <3>1, <3>2
  <2> QED BY <2>3 DEF NoGapInRun
<1>3. CASE Worker
  BY <1>1, <1>3 DEF Worker, AddLine, NothingToFlush, SessionEnds, GitConnects, Head, HeadFails,
       HostAnswers, GitEnds, FlushBegins, GivesUp, Report, TaskIsOver, logVars
<1>4. ASSUME NEW i \in Places, Serve(i) PROVE NoGapInRun'
  BY <1>1, <1>2, <1>4 DEF Serve, Authorize, TooLong, Breaks, logVars
<1>5. CASE Supervised \/ Restart \/ Removed \/ Resume \/ UNCHANGED vars
  BY <1>1, <1>5 DEF Supervised, TaskIsOver, Restart, Removed, Resume, vars, logVars
<1> QED BY <1>3, <1>4, <1>5 DEF Next

\* With no late bodies the log of a run has no gap, for every size of its
\* lines and of the log, and every loss, retry and doubling of requests.
THEOREM NoGaps == ~LateBodies => (Spec => []NoGapInRun)
<1> SUFFICES ASSUME ~LateBodies PROVE Spec => []NoGapInRun
  OBVIOUS
<1> DEFINE Whole == LogInv /\ InTime /\ NoGapInRun
<1>1. Init => Whole
  BY LogInit
<1>2. Whole /\ [Next]_vars => Whole'
  BY LogNext, InTimeNext, GapNext
<1>3. Whole => NoGapInRun
  OBVIOUS
<1> HIDE DEF Whole
<1> QED BY <1>1, <1>2, <1>3, PTL DEF Spec

-----------------------------------------------------------------------------
(* The tunnel: git is challenged once at the most while its task is active. *)

TunnelInv ==
    /\ heads \in Nat
    /\ tunnel = "bare" => heads = 0
    /\ tunnel = "refused" => ~active
    /\ worker = "gone" => tunnel = "none"

LEMMA TunnelNext == ASSUME TunnelInv, [Next]_vars PROVE TunnelInv'
<1> USE DEF TunnelInv
<1>1. CASE Head \/ HeadFails
  BY <1>1 DEF Head, HeadFails, MAX_ATTEMPTS, taskVars
<1>2. CASE GitConnects \/ HostAnswers \/ GitEnds
  BY <1>2 DEF GitConnects, HostAnswers, GitEnds, UsesGit, taskVars
<1>3. CASE AddLine \/ NothingToFlush \/ SessionEnds
  BY <1>3 DEF AddLine, NothingToFlush, SessionEnds, taskVars, tunnelVars
<1>4. ASSUME NEW i \in Places, FlushBegins(i) \/ GivesUp(i) \/ Serve(i) PROVE TunnelInv'
  <2>1. UNCHANGED <<taskVars, tunnelVars>>
    BY <1>4 DEF FlushBegins, GivesUp, Serve, Authorize, TooLong, BodyArrives, Breaks
  <2>2. worker' = "gone" => worker = "gone"
    BY <1>4 DEF FlushBegins, GivesUp, FlushEnds, Serve, Authorize, TooLong, BodyArrives, Breaks,
           Replied
  <2> QED BY <2>1, <2>2 DEF taskVars, tunnelVars
<1>5. CASE Report \/ Supervised \/ Restart \/ Removed
  BY <1>5 DEF Report, Supervised, Restart, Removed, TaskIsOver, WorkerIsGone, taskVars
<1>6. CASE Resume
  BY <1>6 DEF Resume, tunnelVars
<1>7. CASE UNCHANGED vars
  BY <1>7 DEF vars, taskVars, tunnelVars
<1> QED BY <1>1, <1>2, <1>3, <1>4, <1>5, <1>6, <1>7 DEF Next, Worker

\* The tunnel refuses git only when its task has ended.
THEOREM ActiveServed == Spec => []ActiveIsServed
<1>1. Init => TunnelInv
  BY DEF Init, TunnelInv
<1>2. TunnelInv => ActiveIsServed
  BY DEF TunnelInv, ActiveIsServed
<1> QED BY <1>1, <1>2, TunnelNext, PTL DEF Spec

-----------------------------------------------------------------------------
(* Types. *)

\* A call of the worker is of lines that are there and not sent, and a
\* connection that may send another head has one left.
TypeInv ==
    /\ TypeOK
    /\ waits # Empty => sent < flush
    /\ \A i \in Places : wire[i] # Empty => wire[i].first <= wire[i].last
    /\ tunnel \in {"bare", "token"} => heads < MAX_ATTEMPTS

LEMMA PostTyped ==
    ASSUME TypeInv, NEW i \in Places, NEW last \in 0..MaxLines, sent < last, Posts(i, last)
    PROVE  /\ wire' \in [Places -> Requests \cup {Empty}] /\ waits' \in Places
           /\ \A k \in Places : wire'[k] # Empty => wire'[k].first <= wire'[k].last
<1> DEFINE q == [run |-> run, first |-> sent + 1, last |-> last, stage |-> "sent"]
<1>1. sent \in Nat /\ MaxLines \in Nat
  BY SessionAssumption DEF TypeInv, TypeOK
<1>2. sent + 1 \in Lines /\ last \in Lines /\ sent + 1 <= last
  BY <1>1 DEF Lines
<1>3. q \in Requests /\ q.first <= q.last
  BY <1>2 DEF TypeInv, TypeOK, Requests
<1>4. wire' = [wire EXCEPT ![i] = q] /\ waits' = i
  BY DEF Posts
<1> HIDE DEF q
<1> QED BY <1>3, <1>4 DEF TypeInv, TypeOK

\* A worker that is gone counts nothing; a request stays or is dropped.
LEMMA GoneTyped ==
    ASSUME TypeInv, WorkerIsGone, UNCHANGED <<run, log, used>>,
           active' \in BOOLEAN, full' \in BOOLEAN,
           \/ wire' = wire
           \/ wire' = [i \in Places |-> IF wire[i] # Empty /\ wire[i].stage = "read" /\ ~LateBodies
                                        THEN Empty ELSE wire[i]]
    PROVE  TypeInv'
<1>1. /\ worker' = "gone" /\ lines' = 0 /\ sent' = 0 /\ closed' = FALSE /\ flush' = 0
      /\ attempt' = 0 /\ waits' = Empty /\ tunnel' = "none" /\ heads' = 0
  BY DEF WorkerIsGone
<1>2. MaxLines \in Nat /\ RETRIES \in Nat
  BY SessionAssumption
<1>3. /\ wire' \in [Places -> Requests \cup {Empty}]
      /\ \A i \in Places : wire'[i] # Empty => wire'[i].first <= wire'[i].last
  BY DEF TypeInv, TypeOK
<1>4. /\ lines' \in 0..MaxLines /\ sent' \in 0..lines' /\ flush' \in 0..lines'
      /\ attempt' \in 0..RETRIES /\ heads' \in 0..MAX_ATTEMPTS
  BY <1>1, <1>2 DEF MAX_ATTEMPTS
<1>5. run' \in 1..MaxRuns /\ log' \subseteq (1..MaxRuns) \X Lines /\ used' \in Nat
  BY DEF TypeInv, TypeOK
<1>6. TypeOK'
  BY <1>1, <1>3, <1>4, <1>5 DEF TypeOK
<1> QED BY <1>1, <1>3, <1>6 DEF TypeInv

LEMMA WorkerTyped == ASSUME TypeInv, Worker PROVE TypeInv'
<1> USE SessionAssumption
<1>0. /\ lines \in Nat /\ lines <= MaxLines /\ sent \in Nat /\ flush \in Nat
      /\ sent <= lines /\ flush <= lines /\ attempt \in Nat
  BY DEF TypeInv, TypeOK
<1>1. CASE AddLine
  BY <1>0, <1>1 DEF AddLine, TypeInv, TypeOK, taskVars, logVars, flushVars, tunnelVars
<1>2. CASE NothingToFlush
  BY <1>2 DEF NothingToFlush, TypeInv, TypeOK, taskVars, logVars, flushVars, tunnelVars
<1>3. ASSUME NEW i \in Places, FlushBegins(i) PROVE TypeInv'
  <2>1. /\ sent < lines /\ Posts(i, lines) /\ flush' = lines /\ attempt' = 0
        /\ UNCHANGED <<taskVars, logVars, lines, sent, closed, tunnelVars>>
        /\ worker' = worker \/ worker' = "last"
    BY <1>3 DEF FlushBegins
  <2>2. /\ wire' \in [Places -> Requests \cup {Empty}] /\ waits' \in Places
        /\ \A k \in Places : wire'[k] # Empty => wire'[k].first <= wire'[k].last
    BY <1>0, <2>1, PostTyped
  <2> QED BY <1>0, <2>1, <2>2 DEF TypeInv, TypeOK, taskVars, logVars, tunnelVars
<1>4. ASSUME NEW i \in Places, GivesUp(i) PROVE TypeInv'
  <2>1. waits # Empty /\ UNCHANGED <<taskVars, logVars, lines, tunnelVars>>
    BY <1>4 DEF GivesUp
  <2>2. CASE attempt < RETRIES /\ attempt' = attempt + 1 /\ Posts(i, flush)
             /\ UNCHANGED <<worker, sent, closed, flush>>
    <3>1. sent < flush
      BY <2>1 DEF TypeInv
    <3>2. /\ wire' \in [Places -> Requests \cup {Empty}] /\ waits' \in Places
          /\ \A k \in Places : wire'[k] # Empty => wire'[k].first <= wire'[k].last
      BY <1>0, <2>2, <3>1, PostTyped
    <3> QED BY <1>0, <2>1, <2>2, <3>1, <3>2 DEF TypeInv, TypeOK, taskVars, logVars, tunnelVars
  <2>3. CASE FlushEnds /\ UNCHANGED <<sent, closed, wire>>
    BY <1>0, <2>1, <2>3 DEF FlushEnds, TypeInv, TypeOK, taskVars, logVars, tunnelVars
  <2> QED BY <1>4, <2>2, <2>3 DEF GivesUp
<1>5. CASE SessionEnds
  BY <1>0, <1>5 DEF SessionEnds, TypeInv, TypeOK, taskVars, logVars, tunnelVars
<1>6. CASE GitConnects \/ Head \/ HeadFails \/ HostAnswers \/ GitEnds
  <2>1. /\ UNCHANGED <<taskVars, logVars, lines, flushVars, wire>>
        /\ worker' = worker \/ worker' \in {"session", "report"}
    BY <1>6 DEF GitConnects, Head, HeadFails, HostAnswers, GitEnds
  <2>2. /\ tunnel' \in {"none", "bare", "token", "connecting", "open", "down", "refused"}
        /\ heads' \in 0..MAX_ATTEMPTS
        /\ tunnel' \in {"bare", "token"} => heads' < MAX_ATTEMPTS
    BY <1>6 DEF GitConnects, Head, HeadFails, HostAnswers, GitEnds, TypeInv, TypeOK, MAX_ATTEMPTS
  <2> QED BY <1>0, <2>1, <2>2 DEF TypeInv, TypeOK, taskVars, logVars, flushVars
<1>7. CASE Report
  <2>1. WorkerIsGone /\ UNCHANGED <<run, log, used>>
    BY <1>7 DEF Report, TaskIsOver, taskVars, logVars
  <2>2. active' \in BOOLEAN /\ full' \in BOOLEAN
    BY <1>7 DEF Report, TaskIsOver, taskVars, logVars, TypeInv, TypeOK
  <2>3. \/ wire' = wire
        \/ wire' = [i \in Places |-> IF wire[i] # Empty /\ wire[i].stage = "read" /\ ~LateBodies
                                     THEN Empty ELSE wire[i]]
    BY <1>7 DEF Report, TaskIsOver
  <2> QED BY <2>1, <2>2, <2>3, GoneTyped
<1> QED BY <1>1, <1>2, <1>3, <1>4, <1>5, <1>6, <1>7 DEF Worker

\* An answer ends the flush that waits for it, or finds that nobody waits.
LEMMA ReplyTyped ==
    ASSUME TypeInv, NEW i \in Places, NEW reply, Replied(i, reply), UNCHANGED lines
    PROVE  /\ worker' \in {"clone", "session", "closing", "last", "push", "report", "gone"}
           /\ sent' \in 0..lines' /\ flush' \in 0..lines'
           /\ closed' \in BOOLEAN /\ attempt' \in 0..RETRIES /\ waits' \in Places \cup {Empty}
           /\ waits' # Empty => sent' < flush'
<1>1. CASE UNCHANGED <<worker, flushVars>>
  BY <1>1 DEF TypeInv, TypeOK, flushVars
<1>2. CASE /\ waits = i /\ FlushEnds
           /\ sent' = IF reply = "ok" THEN flush ELSE sent
           /\ closed' = (closed \/ reply = "ended")
  <2>1. closed' \in BOOLEAN
    BY <1>2 DEF TypeInv, TypeOK
  <2> QED BY <1>2, <2>1, SessionAssumption DEF FlushEnds, TypeInv, TypeOK
<1> QED BY <1>1, <1>2 DEF Replied

\* The bytes of a request are a count.
LEMMA BytesTyped ==
    ASSUME NEW q \in Requests, q.first <= q.last
    PROVE  Bytes(q) \in Nat
<1>1. q.first \in Lines /\ q.last \in Lines
  BY DEF Requests
<1>2. q.first - 1 \in 0..MaxLines /\ q.last \in 0..MaxLines /\ q.first - 1 <= q.last
  BY <1>1, SessionAssumption DEF Lines
<1>3. SizeUpto[q.first - 1] \in Nat /\ SizeUpto[q.last] \in Nat
  BY <1>2, SessionAssumption
<1>4. SizeUpto[q.first - 1] <= SizeUpto[q.last]
  BY <1>2, SessionAssumption
<1> QED BY <1>3, <1>4 DEF Bytes

LEMMA AppendTyped ==
    ASSUME TypeInv, NEW q \in Requests, q.first <= q.last, Append(q)
    PROVE  log' \subseteq (1..MaxRuns) \X Lines /\ used' \in Nat /\ full' \in BOOLEAN
<1>1. log \subseteq (1..MaxRuns) \X Lines /\ used \in Nat /\ full \in BOOLEAN
  BY DEF TypeInv, TypeOK
<1>2. Chunk(q) \subseteq (1..MaxRuns) \X Lines
  <2>1. q.run \in 1..MaxRuns /\ q.first \in Lines /\ q.last \in Lines
    BY DEF Requests
  <2>2. q.first..q.last \subseteq Lines
    BY <2>1, SessionAssumption DEF Lines
  <2> QED BY <2>1, <2>2 DEF Chunk
<1>3. used + Bytes(q) \in Nat
  BY <1>1, BytesTyped
<1> QED BY <1>1, <1>2, <1>3 DEF Append

LEMMA ServeTyped == ASSUME TypeInv, NEW i \in Places, Serve(i) PROVE TypeInv'
<1>0. wire \in [Places -> Requests \cup {Empty}] /\ Empty \notin Requests
  BY SessionAssumption DEF TypeInv, TypeOK
<1>1. /\ UNCHANGED <<taskVars, lines, tunnelVars>>
      /\ \/ UNCHANGED <<worker, flushVars>>
         \/ \E reply \in {"ok", "ended", "error"} : Replied(i, reply)
  BY DEF Serve, Authorize, TooLong, BodyArrives, Breaks
<1>2. /\ worker' \in {"clone", "session", "closing", "last", "push", "report", "gone"}
      /\ sent' \in 0..lines' /\ flush' \in 0..lines'
      /\ closed' \in BOOLEAN /\ attempt' \in 0..RETRIES /\ waits' \in Places \cup {Empty}
      /\ waits' # Empty => sent' < flush'
  <2>1. Replied(i, "ok") \/ Replied(i, "ended") \/ Replied(i, "error")
    BY <1>1 DEF Replied
  <2> QED BY <1>1, <2>1, ReplyTyped
<1>3. /\ wire' \in [Places -> Requests \cup {Empty}]
      /\ \A k \in Places : wire'[k] # Empty => wire'[k].first <= wire'[k].last
  <2>1. CASE wire' = [wire EXCEPT ![i] = Empty]
    BY <1>0, <2>1 DEF TypeInv
  <2>2. CASE wire[i] # Empty /\ wire' = [wire EXCEPT ![i].stage = "read"]
    <3> DEFINE q == [wire[i] EXCEPT !.stage = "read"]
    <3>1. wire[i] \in Requests
      BY <1>0, <2>2
    <3>2. q \in Requests /\ q.first = wire[i].first /\ q.last = wire[i].last
      BY <3>1 DEF Requests
    <3>3. wire' = [wire EXCEPT ![i] = q]
      BY <1>0, <2>2
    <3> HIDE DEF q
    <3> QED BY <1>0, <2>2, <3>2, <3>3 DEF TypeInv
  <2> QED BY <2>1, <2>2 DEF Serve, Authorize, TooLong, BodyArrives, Breaks
<1>4. log' \subseteq (1..MaxRuns) \X Lines /\ used' \in Nat /\ full' \in BOOLEAN
  <2>1. CASE UNCHANGED logVars
    BY <2>1 DEF TypeInv, TypeOK, logVars
  <2>2. CASE wire[i] # Empty /\ Append(wire[i])
    <3>1. wire[i] \in Requests /\ wire[i].first <= wire[i].last
      BY <1>0, <2>2 DEF TypeInv
    <3> QED BY <2>2, <3>1, AppendTyped
  <2> QED BY <2>1, <2>2 DEF Serve, Authorize, TooLong, BodyArrives, Breaks
<1> QED BY <1>1, <1>2, <1>3, <1>4 DEF TypeInv, TypeOK, taskVars, tunnelVars

LEMMA EndTyped == ASSUME TypeInv, Supervised \/ Restart \/ Removed \/ Resume PROVE TypeInv'
<1> USE SessionAssumption
<1>1. CASE Supervised
  <2>1. /\ active' = FALSE /\ full' = FALSE /\ UNCHANGED <<run, log, used>> /\ WorkerIsGone
        /\ wire' = [i \in Places |-> IF wire[i] # Empty /\ wire[i].stage = "read" /\ ~LateBodies
                                    THEN Empty ELSE wire[i]]
    BY <1>1 DEF Supervised, TaskIsOver
  <2> QED BY <2>1, GoneTyped
<1>2. CASE Restart
  <2>1. tunnel' \in {"none", "down"} /\ wire' = [i \in Places |-> Empty]
    BY <1>2 DEF Restart
  <2> QED BY <1>2, <2>1 DEF Restart, TypeInv, TypeOK, flushVars
<1>3. CASE Removed
  BY <1>3, GoneTyped DEF Removed, TypeInv, TypeOK, taskVars, logVars
<1>4. CASE Resume
  <2>1. /\ active' = TRUE /\ run' = run + 1 /\ full' = FALSE /\ worker' = "clone"
        /\ run < MaxRuns /\ UNCHANGED <<log, used, lines, flushVars, wire, tunnelVars>>
    BY <1>4 DEF Resume
  <2>2. run' \in 1..MaxRuns
    BY <2>1 DEF TypeInv, TypeOK
  <2>3. TypeOK'
    BY <2>1, <2>2 DEF TypeInv, TypeOK, flushVars, tunnelVars
  <2> QED BY <2>1, <2>3 DEF TypeInv, flushVars, tunnelVars
<1> QED BY <1>1, <1>2, <1>3, <1>4

\* The types of the session log and of the tunnel: the worker counts no line as
\* sent that it does not have, and no connection sends more than MAX_ATTEMPTS
\* heads (session.py, git_proxy.py).
THEOREM TypeCorrect == Spec => []TypeOK
<1>1. Init => TypeInv
  <2> SUFFICES ASSUME Init PROVE TypeInv
    OBVIOUS
  <2>1. lines \in 0..MaxLines /\ sent \in 0..lines /\ flush \in 0..lines /\ attempt \in 0..RETRIES
    BY SessionAssumption DEF Init
  <2>2. run \in 1..MaxRuns /\ heads \in 0..MAX_ATTEMPTS
    BY SessionAssumption DEF Init, MAX_ATTEMPTS
  <2>3. wire \in [Places -> Requests \cup {Empty}] /\ \A i \in Places : wire[i] = Empty
    BY DEF Init
  <2> QED BY <2>1, <2>2, <2>3 DEF Init, TypeInv, TypeOK
<1>2. TypeInv /\ [Next]_vars => TypeInv'
  <2> SUFFICES ASSUME TypeInv, [Next]_vars PROVE TypeInv'
    OBVIOUS
  <2>1. CASE UNCHANGED vars
    BY <2>1 DEF vars, taskVars, logVars, flushVars, tunnelVars, TypeInv, TypeOK
  <2> QED BY <2>1, WorkerTyped, ServeTyped, EndTyped DEF Next
<1>3. TypeInv => TypeOK
  BY DEF TypeInv
<1> QED BY <1>1, <1>2, <1>3, PTL DEF Spec

=============================================================================
