---------------------------- MODULE WorkerSession ----------------------------
(***************************************************************************)
(* The connections of a worker: the session log it sends in chunks while   *)
(* the session goes on (session.py, manager_client.py, worker_api.py,      *)
(* store.py) and the tunnel to the git host of its task (git_proxy.py).    *)
(*                                                                         *)
(* A line of the log is its number in its run.  A call of the worker is a  *)
(* request that stays on its way after the worker gave it up; the manager  *)
(* checks the token first and appends when the body is there.  What ends   *)
(* a task otherwise is in TaskManager: here it ends by its report, by its  *)
(* supervisor or by a restart of the manager.                              *)
(***************************************************************************)
EXTENDS Integers

CONSTANTS
    MaxLines,     \* bound: lines of one run
    MaxRuns,      \* bound: runs of the task
    Places,       \* bound: requests under way at one time, one to a place
    RETRIES,      \* manager_client.RETRIES
    SizeUpto,     \* the bytes of the first n lines of a run, by n
    MAX_LOG_CALL, \* worker_api.MAX_LOG_CALL
    MAX_SESSION_LOG_BYTES,
    Empty,        \* a place with no request
    LateBodies    \* a body may arrive after its task ended

Lines == 1..MaxLines
Requests == [run : 1..MaxRuns, first : Lines, last : Lines, stage : {"sent", "read"}]

ASSUME SessionAssumption ==
    /\ MaxLines \in Nat /\ MaxRuns \in Nat \ {0} /\ RETRIES \in Nat
    /\ SizeUpto \in [0..MaxLines -> Nat]
    /\ \A m, n \in 0..MaxLines : m <= n => SizeUpto[m] <= SizeUpto[n]
    /\ MAX_LOG_CALL \in Nat /\ MAX_SESSION_LOG_BYTES \in Nat
    /\ LateBodies \in BOOLEAN
    /\ Empty \notin Requests \cup Places

VARIABLES
    active,   \* the status of the task is one of ACTIVE_STATUSES
    run,      \* which run it is in: each has its own token
    log,      \* session_log: the lines it has, by run and number
    used,     \* its bytes
    full,     \* the task is in Manager._log_full
    worker,   \* where the worker is
    lines,    \* SessionLog.lines: how many
    sent,     \* SessionLog._sent
    closed,   \* SessionLog._closed
    flush,    \* the end of the chunk being sent, 0 when there is none
    attempt,  \* _call: retries of this chunk so far
    waits,    \* the place of the request the worker waits for, or Empty
    wire,     \* the requests under way
    tunnel,   \* the connection of git to the tunnel
    heads     \* the heads it has sent

taskVars == <<active, run>>
logVars == <<log, used, full>>
flushVars == <<sent, closed, flush, attempt, waits>>
tunnelVars == <<tunnel, heads>>
vars == <<taskVars, logVars, worker, lines, flushVars, wire, tunnelVars>>

\* Mutated: the connection is closed after the first challenge.
OneAttempt == 1

MAX_ATTEMPTS == 3

Chunk(q) == {<<q.run, n>> : n \in q.first..q.last}
Bytes(q) == SizeUpto[q.last] - SizeUpto[q.first - 1]

-----------------------------------------------------------------------------
(* SessionLog.flush and ManagerClient._call. *)

\* The worker puts a request for the lines after _sent in a free place.
Posts(i, last) ==
    /\ wire[i] = Empty
    /\ wire' = [wire EXCEPT ![i] =
            [run |-> run, first |-> sent + 1, last |-> last, stage |-> "sent"]]
    /\ waits' = i

AddLine ==
    /\ worker = "session" /\ lines < MaxLines
    /\ lines' = lines + 1
    /\ UNCHANGED <<taskVars, logVars, worker, flushVars, wire, tunnelVars>>

\* _flush_every in the session, or the last flush in the finally of run.
FlushBegins(i) ==
    /\ flush = 0 /\ ~closed /\ sent < lines
    /\ \/ worker = "session" /\ UNCHANGED worker
       \/ worker = "closing" /\ worker' = "last"
    /\ flush' = lines /\ attempt' = 0
    /\ Posts(i, lines)
    /\ UNCHANGED <<taskVars, logVars, lines, sent, closed, tunnelVars>>

NothingToFlush ==
    /\ worker = "closing" /\ (closed \/ sent >= lines)
    /\ worker' = "push"
    /\ UNCHANGED <<taskVars, logVars, lines, flushVars, wire, tunnelVars>>

\* The flush is over.
FlushEnds ==
    /\ flush' = 0 /\ attempt' = 0 /\ waits' = Empty
    /\ worker' = IF worker = "last" THEN "push" ELSE worker

\* Mutated: every retry is the first.
RetriesForEver(i) ==
    /\ waits # Empty
    /\ Posts(i, flush) /\ UNCHANGED <<worker, sent, closed, flush, attempt>>
    /\ UNCHANGED <<taskVars, logVars, lines, tunnelVars>>

\* A transport error: the same chunk goes out again, or waits for a later flush.
GivesUp(i) ==
    /\ waits # Empty
    /\ \/ /\ attempt < RETRIES
          /\ attempt' = attempt + 1
          /\ Posts(i, flush) /\ UNCHANGED <<worker, sent, closed, flush>>
       \/ /\ attempt = RETRIES
          /\ FlushEnds /\ UNCHANGED <<sent, closed, wire>>
    /\ UNCHANGED <<taskVars, logVars, lines, tunnelVars>>

\* The session is over: the flusher is cancelled, also in the middle of a call.
SessionEnds ==
    /\ worker = "session"
    /\ worker' = "closing"
    /\ flush' = 0 /\ attempt' = 0 /\ waits' = Empty
    /\ UNCHANGED <<taskVars, logVars, lines, sent, closed, wire, tunnelVars>>

-----------------------------------------------------------------------------
(* The log route of the worker API, Manager.append_log and                 *)
(* TaskStore.append_session_log.                                           *)

\* Mutated: _sent is set to the lines there are when the reply comes.
SendsAllLines(i, reply) ==
    \/ UNCHANGED <<worker, flushVars>>
    \/ /\ waits = i
       /\ FlushEnds
       /\ sent' = IF reply = "ok" THEN lines ELSE sent
       /\ closed' = (closed \/ reply = "ended")

\* The request in the place is answered; the reply may be lost on its way.
Replied(i, reply) ==
    \/ UNCHANGED <<worker, flushVars>>
    \/ /\ waits = i
       /\ FlushEnds
       /\ sent' = IF reply = "ok" THEN flush ELSE sent
       /\ closed' = (closed \/ reply = "ended")

\* authorize: the token of an earlier run names no task, and one of a task
\* that ended gets 409, or 401 when a restart removed it.
Authorize(i) ==
    /\ wire[i] # Empty /\ wire[i].stage = "sent"
    /\ \/ /\ wire[i].run = run /\ active
          /\ wire' = [wire EXCEPT ![i].stage = "read"]
          /\ UNCHANGED <<worker, flushVars>>
       \/ /\ wire[i].run # run
          /\ wire' = [wire EXCEPT ![i] = Empty] /\ Replied(i, "error")
       \/ /\ wire[i].run = run /\ ~active
          /\ wire' = [wire EXCEPT ![i] = Empty]
          /\ Replied(i, "ended") \/ Replied(i, "error")
    /\ UNCHANGED <<taskVars, logVars, lines, tunnelVars>>

TooLong(i) ==
    /\ wire[i] # Empty /\ wire[i].stage = "read"
    /\ Bytes(wire[i]) > MAX_LOG_CALL
    /\ wire' = [wire EXCEPT ![i] = Empty] /\ Replied(i, "error")
    /\ UNCHANGED <<taskVars, logVars, lines, tunnelVars>>

\* Mutated: a text that does not fit is dropped, and a later one is not.
DropsOnlyThis(q) ==
    IF used + Bytes(q) <= MAX_SESSION_LOG_BYTES
    THEN /\ log' = log \cup Chunk(q)
         /\ used' = used + Bytes(q)
         /\ UNCHANGED full
    ELSE full' = TRUE /\ UNCHANGED <<log, used>>

\* append_log: after the first text that does not fit every other is dropped.
Append(q) ==
    IF ~full /\ used + Bytes(q) <= MAX_SESSION_LOG_BYTES
    THEN /\ log' = log \cup Chunk(q)
         /\ used' = used + Bytes(q)
         /\ UNCHANGED full
    ELSE full' = TRUE /\ UNCHANGED <<log, used>>

\* Nothing asks again whether the task is active.
BodyArrives(i) ==
    /\ wire[i] # Empty /\ wire[i].stage = "read"
    /\ Bytes(wire[i]) <= MAX_LOG_CALL
    /\ Append(wire[i])
    /\ wire' = [wire EXCEPT ![i] = Empty] /\ Replied(i, "ok")
    /\ UNCHANGED <<taskVars, lines, tunnelVars>>

\* The connection breaks.
Breaks(i) ==
    /\ wire[i] # Empty
    /\ wire' = [wire EXCEPT ![i] = Empty]
    /\ UNCHANGED <<taskVars, logVars, worker, lines, flushVars, tunnelVars>>

-----------------------------------------------------------------------------
(* GitProxy._serve, for the clone before the session and the push after it. *)

UsesGit == worker \in {"clone", "push"}

GitConnects ==
    /\ UsesGit /\ tunnel = "none"
    /\ tunnel' \in {"bare", "token"} /\ heads' = 0
    /\ UNCHANGED <<taskVars, logVars, worker, lines, flushVars, wire>>

\* libcurl sends its credential at once or after a challenge; the challenge
\* leaves the connection open for MAX_ATTEMPTS heads.
Head ==
    /\ tunnel \in {"bare", "token"}
    /\ IF tunnel = "token" /\ active
       THEN tunnel' = "connecting" /\ UNCHANGED heads
       ELSE /\ heads' = heads + 1
            /\ tunnel' = IF heads + 1 < MAX_ATTEMPTS THEN "token" ELSE "refused"
    /\ UNCHANGED <<taskVars, logVars, worker, lines, flushVars, wire>>

\* A head that is late or too long, or asks for something else than a tunnel to
\* the host of the task, ends the connection.
HeadFails ==
    /\ tunnel \in {"bare", "token"}
    /\ tunnel' = "down"
    /\ UNCHANGED <<taskVars, logVars, worker, lines, flushVars, wire, heads>>

HostAnswers ==
    /\ tunnel = "connecting"
    /\ tunnel' \in {"open", "down"}
    /\ UNCHANGED <<taskVars, logVars, worker, lines, flushVars, wire, heads>>

\* git ends: after a clone that worked the session begins.
GitEnds ==
    /\ UsesGit /\ tunnel \in {"open", "down", "refused"}
    /\ worker' = IF worker = "clone" /\ tunnel = "open" THEN "session" ELSE "report"
    /\ tunnel' = "none" /\ heads' = 0
    /\ UNCHANGED <<taskVars, logVars, lines, flushVars, wire>>

-----------------------------------------------------------------------------
(* The end of a run, and the next one. *)

\* record_report; a request that is read by then is dropped, unless late.
TaskIsOver ==
    /\ active' = FALSE /\ full' = FALSE
    /\ wire' = [i \in Places |->
            IF wire[i] # Empty /\ wire[i].stage = "read" /\ ~LateBodies THEN Empty ELSE wire[i]]
    /\ UNCHANGED <<run, log, used>>

\* The worker is gone with all it keeps.
WorkerIsGone ==
    /\ worker' = "gone" /\ lines' = 0
    /\ sent' = 0 /\ closed' = FALSE /\ flush' = 0 /\ attempt' = 0 /\ waits' = Empty
    /\ tunnel' = "none" /\ heads' = 0

\* _send: the report ends the task, or it has ended before or gets lost.
Report ==
    /\ worker = "report"
    /\ WorkerIsGone
    /\ \/ active /\ TaskIsOver
       \/ UNCHANGED <<taskVars, logVars, wire>>

\* The supervisor ends the run of a worker it stopped or found gone.
Supervised ==
    /\ active
    /\ TaskIsOver /\ WorkerIsGone

\* recover: the task failed, every connection is lost, the worker runs on
\* until it is removed.
Restart ==
    /\ active
    /\ active' = FALSE /\ full' = FALSE
    /\ wire' = [i \in Places |-> Empty]
    /\ tunnel' = IF tunnel = "none" THEN "none" ELSE "down"
    /\ UNCHANGED <<run, log, used, worker, lines, flushVars, heads>>

Removed ==
    /\ ~active /\ worker # "gone"
    /\ WorkerIsGone
    /\ UNCHANGED <<taskVars, logVars, wire>>

\* _resume: the log goes on, and is no longer full.
Resume ==
    /\ ~active /\ worker = "gone" /\ run < MaxRuns
    /\ active' = TRUE /\ run' = run + 1 /\ full' = FALSE
    /\ worker' = "clone"
    /\ UNCHANGED <<log, used, lines, flushVars, wire, tunnelVars>>

Init ==
    /\ active = TRUE /\ run = 1
    /\ log = {} /\ used = 0 /\ full = FALSE
    /\ worker = "clone" /\ lines = 0
    /\ sent = 0 /\ closed = FALSE /\ flush = 0 /\ attempt = 0 /\ waits = Empty
    /\ wire = [i \in Places |-> Empty]
    /\ tunnel = "none" /\ heads = 0

\* What the manager or the network does with the request in a place.
Serve(i) == Authorize(i) \/ TooLong(i) \/ BodyArrives(i) \/ Breaks(i)

Worker ==
    \/ AddLine \/ NothingToFlush \/ SessionEnds \/ Report
    \/ \E i \in Places : FlushBegins(i) \/ GivesUp(i)
    \/ GitConnects \/ Head \/ HeadFails \/ HostAnswers \/ GitEnds

Next ==
    \/ Worker \/ \E i \in Places : Serve(i)
    \/ Supervised \/ Restart \/ Removed \/ Resume

Spec == Init /\ [][Next]_vars

\* The worker runs on, each of its calls is answered or fails, and a request
\* under way is handled or breaks.
FairSpec == Spec /\ WF_vars(Worker) /\ \A i \in Places : WF_vars(Serve(i))

-----------------------------------------------------------------------------
\* Type invariant.
TypeOK ==
    /\ active \in BOOLEAN /\ run \in 1..MaxRuns
    /\ log \subseteq (1..MaxRuns) \X Lines
    /\ used \in Nat /\ full \in BOOLEAN
    /\ worker \in {"clone", "session", "closing", "last", "push", "report", "gone"}
    /\ lines \in 0..MaxLines /\ sent \in 0..lines /\ flush \in 0..lines
    /\ closed \in BOOLEAN /\ attempt \in 0..RETRIES /\ waits \in Places \cup {Empty}
    /\ wire \in [Places -> Requests \cup {Empty}]
    /\ tunnel \in {"none", "bare", "token", "connecting", "open", "down", "refused"}
    /\ heads \in 0..MAX_ATTEMPTS

\* The log of a run has no gap: a line is in it only when every line before it
\* is, whatever was retried, given up, dropped or sent twice ("every later text
\* is dropped too, so the log has no gaps"; manager.py, append_log).
NoGapInRun ==
    \A r \in 1..MaxRuns, n \in Lines :
        <<r, n>> \in log => \A m \in 1..n : <<r, m>> \in log

\* Every line the worker counts as sent is in the log, or the log is full
\* (session.py, SessionLog.flush).
SentIsKept ==
    active => \A n \in 1..sent : <<run, n>> \in log \/ full

\* git of a worker whose task is active is never refused for its credential, also
\* when it sends one only after a challenge (git_proxy.py, GitProxy._serve).
ActiveIsServed == tunnel = "refused" => ~active

\* The last flush comes to its end, with a manager that answers or not
\* (session.py, run; manager_client.py, _call).
LastFlushEnds == worker \in {"closing", "last"} ~> worker \notin {"closing", "last"}

=============================================================================
