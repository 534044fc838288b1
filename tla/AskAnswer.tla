----------------------------- MODULE AskAnswer -----------------------------
(***************************************************************************)
(* A question of a running worker and its answer: the Asker of the session *)
(* (session.py), the client that posts, polls and tries again              *)
(* (manager_client.py), the routes ask, answer and stop of the worker API  *)
(* (worker_api.py), Manager.ask, Manager.answer and Manager.stop_wait      *)
(* (manager.py), and the person in the chat.                               *)
(*                                                                         *)
(* A handler of the manager is cut at its awaits.  Its work goes on when   *)
(* the client no longer waits for it, so two handlers of one question may  *)
(* run side by side: a read times out after 30 s, while the manager may    *)
(* take 105 s to hand a question to the chat.  Questions are numbered; an  *)
(* answer is the number of the question it was written for.                *)
(***************************************************************************)
EXTENDS Integers

CONSTANTS
    MaxAsks,    \* bound: ask calls of the session
    MaxPosts    \* RETRIES + 1: how often the client sends one question

FaultKinds == {
    "slow_reply",  \* the client gives up on a reply of the manager
    "channels"}    \* channels refuses a question, or answers too late

ASSUME AskAssumption ==
    /\ MaxAsks \in Nat \ {0}
    /\ MaxPosts \in Nat \ {0}

Asks == 1..MaxAsks
Posts == Asks \X (1..MaxPosts)

VARIABLES
    ended,       \* the task has a final status
    question,    \* the column open_question, 0 when it is NULL
    answer,      \* the column answer, 0 when it is NULL
    waiting,     \* the column asked_at is not NULL: the clock is paused
    event,       \* the number of the event in Manager._answer_events
    fired,       \* the events that are set
    post,        \* where the handler of each POST /worker/ask is
    poll,        \* the event that GET /worker/answer waits for, 0 when none
    session,     \* what the session does
    asked,       \* how many questions the session asked
    posts,       \* how often the client sent the last one
    late,        \* the wait of this question has passed its limit
    spent,       \* the waits have used ask_wait_s
    seen,        \* the questions that reached the chat
    accepted,    \* the questions whose answer the manager took
    again,       \* history: it took a second answer to one of these
    got,         \* what each ask call of the session returned, 0 for no answer
    faults       \* the faults that may happen, a subset of FaultKinds

vars == <<ended, question, answer, waiting, event, fired, post, poll, session,
          asked, posts, late, spent, seen, accepted, again, got, faults>>

rowVars == <<ended, question, answer, waiting, event, fired>>
sessionVars == <<session, asked, posts, late, spent, got>>

-----------------------------------------------------------------------------
(* The ask call of the session. *)

\* The wait of the call is over: a wait that passed its limit used the total.
LeavesAsk ==
    /\ spent' \in {b \in BOOLEAN : spent \/ late => b}
    /\ late' = FALSE

\* Mutated: a question is sent when no wait time is left.
AskUnlimited ==
    /\ session = "working" /\ asked < MaxAsks
    /\ asked' = asked + 1 /\ posts' = 1
    /\ session' = "posting"
    /\ post' = [post EXCEPT ![<<asked + 1, 1>>] = "posted"]
    /\ UNCHANGED <<rowVars, poll, late, spent, seen, accepted, again, got, faults>>

\* POST /worker/ask, for the first time.
Ask ==
    /\ session = "working" /\ asked < MaxAsks
    /\ ~spent
    /\ asked' = asked + 1 /\ posts' = 1
    /\ session' = "posting"
    /\ post' = [post EXCEPT ![<<asked + 1, 1>>] = "posted"]
    /\ UNCHANGED <<rowVars, poll, late, spent, seen, accepted, again, got, faults>>

\* No wait time is left: the question is not sent, the wait is stopped.
AskSpent ==
    /\ session = "working" /\ asked < MaxAsks
    /\ spent
    /\ asked' = asked + 1
    /\ session' = "stopping"
    /\ UNCHANGED <<rowVars, post, poll, posts, late, spent, seen, accepted, again, got, faults>>

\* The reply to the POST the client waits for.
Replied ==
    /\ session = "posting"
    /\ \/ /\ post[<<asked, posts>>] = "sent"
          /\ session' = "polling"
          /\ UNCHANGED <<late, spent>>
       \/ /\ post[<<asked, posts>>] \in {"failed", "nobody"}
          /\ session' = "working"
          /\ LeavesAsk
    /\ UNCHANGED <<rowVars, post, poll, asked, posts, seen, accepted, again, got, faults>>

\* The reply does not come in time: another POST, or the call fails.
GivesUpOnReply ==
    /\ "slow_reply" \in faults
    /\ session = "posting"
    /\ \/ /\ posts < MaxPosts
          /\ posts' = posts + 1
          /\ post' = [post EXCEPT ![<<asked, posts + 1>>] = "posted"]
          /\ UNCHANGED <<session, late, spent>>
       \/ /\ posts = MaxPosts
          /\ session' = "working"
          /\ LeavesAsk
          /\ UNCHANGED <<post, posts>>
    /\ UNCHANGED <<rowVars, poll, asked, seen, accepted, again, got, faults>>

\* The monotonic clock passes the limit of this wait.
LimitPasses ==
    /\ session = "polling" /\ ~late
    /\ late' = TRUE
    /\ UNCHANGED <<rowVars, post, poll, session, asked, posts, spent, seen, accepted, again, got, faults>>

\* The loop of ManagerClient.ask sees the limit between two polls.
StopsWaiting ==
    /\ session = "polling" /\ poll = 0 /\ late
    /\ session' = "stopping"
    /\ LeavesAsk
    /\ UNCHANGED <<rowVars, post, poll, asked, posts, seen, accepted, again, got, faults>>

\* The polls fail: the call returns an error, and nobody stops the wait.
PollFails ==
    /\ "slow_reply" \in faults
    /\ session = "polling"
    /\ session' = "working"
    /\ poll' = 0
    /\ LeavesAsk
    /\ UNCHANGED <<rowVars, post, asked, posts, seen, accepted, again, got, faults>>

-----------------------------------------------------------------------------
(* The manager. *)

\* TaskStore.end_wait.
EndWait == waiting' = FALSE

\* Mutated: the event that is replaced is not set.
OpenForgetsOld(p, known) ==
    /\ ~ended
    /\ post[p] = "posted"
    /\ question' = p[1]
    /\ answer' = 0
    /\ event' = event + 1
    /\ waiting' = known
    /\ post' = [post EXCEPT ![p] = IF known THEN "sending" ELSE "nobody"]
    /\ UNCHANGED <<ended, fired, poll, sessionVars, seen, accepted, again, faults>>

\* Manager.ask up to its await: the question replaces the one before it.
Open(p, known) ==
    /\ ~ended
    /\ post[p] = "posted"
    /\ question' = p[1]
    /\ answer' = 0
    /\ event' = event + 1
    /\ fired' = fired \cup {event}
    /\ waiting' = known   \* known: the task or the person has a chat
    /\ post' = [post EXCEPT ![p] = IF known THEN "sending" ELSE "nobody"]
    /\ UNCHANGED <<ended, poll, sessionVars, seen, accepted, again, faults>>

\* Channels puts the question in the chat.
Delivered(p) ==
    /\ post[p] = "sending"
    /\ post' = [post EXCEPT ![p] = "delivered"]
    /\ seen' = seen \cup {p[1]}
    /\ UNCHANGED <<rowVars, poll, sessionVars, accepted, again, faults>>

\* The end of Manager.ask: notify.send_question returned.
SendReturns(p) ==
    /\ \/ /\ post[p] = "delivered"
          /\ post' = [post EXCEPT ![p] = "sent"]
          /\ UNCHANGED waiting
       \/ /\ "channels" \in faults
          /\ post[p] \in {"sending", "delivered"}
          /\ post' = [post EXCEPT ![p] = "failed"]
          /\ waiting' = FALSE
    /\ UNCHANGED <<ended, question, answer, event, fired, poll, sessionVars, seen, accepted, again, faults>>

\* Manager.answer of a running task, for the question the person has in mind: a
\* person may also write once more to one that has its answer.
Answer(q) ==
    /\ ~ended /\ q \in seen
    /\ question # 0 /\ answer = 0 /\ waiting
    /\ EndWait
    /\ answer' = q
    /\ fired' = fired \cup {event}
    /\ accepted' = accepted \cup {q}
    /\ again' = (again \/ q \in accepted)
    /\ UNCHANGED <<ended, question, event, post, poll, sessionVars, seen, faults>>

\* The session gets the answer in the row as the result of its ask call.
TakesAnswer ==
    /\ answer # 0
    /\ got' = [got EXCEPT ![asked] = answer]
    /\ session' = "working"
    /\ poll' = 0
    /\ LeavesAsk

\* GET /worker/answer: the answer, or a wait for the event of the question.
PollBegins ==
    /\ ~ended
    /\ session = "polling" /\ poll = 0 /\ ~late
    /\ \/ TakesAnswer
       \/ answer = 0 /\ poll' = event /\ UNCHANGED <<got, session, late, spent>>
    /\ UNCHANGED <<rowVars, post, asked, posts, seen, accepted, again, faults>>

\* Mutated: the poll has no timeout.
PollEndsOnEvent ==
    /\ ~ended
    /\ session = "polling" /\ poll # 0
    /\ poll \in fired
    /\ \/ TakesAnswer
       \/ answer = 0 /\ poll' = 0 /\ UNCHANGED <<got, session, late, spent>>
    /\ UNCHANGED <<rowVars, post, asked, posts, seen, accepted, again, faults>>

\* The event is set or poll_s passed: the handler reads the row again.
PollEnds ==
    /\ ~ended
    /\ session = "polling" /\ poll # 0
    /\ \/ TakesAnswer
       \/ answer = 0 /\ poll' = 0 /\ UNCHANGED <<got, session, late, spent>>
    /\ UNCHANGED <<rowVars, post, asked, posts, seen, accepted, again, faults>>

\* Mutated: the stop leaves asked_at as it is.
StopKeepsWait ==
    /\ session = "stopping"
    /\ session' = "working"
    /\ UNCHANGED <<rowVars, post, poll, asked, posts, late, spent, seen, accepted, again, got, faults>>

\* Mutated: the stop clears the answer with the wait.
StopClearsAnswer ==
    /\ session = "stopping"
    /\ session' = "working"
    /\ EndWait
    /\ answer' = 0
    /\ UNCHANGED <<ended, question, event, fired, post, poll, asked, posts,
                   late, spent, seen, accepted, again, got, faults>>

\* POST /worker/ask/stop: stop_wait.  An error of the call is suppressed.
Stop ==
    /\ session = "stopping"
    /\ session' = "working"
    /\ EndWait \/ ("slow_reply" \in faults /\ UNCHANGED waiting)
    /\ UNCHANGED <<ended, question, answer, event, fired, post, poll, asked, posts,
                   late, spent, seen, accepted, again, got, faults>>

\* record_report: the worker reports, or its supervisor killed it.
TaskEnds ==
    /\ ~ended
    /\ ended' = TRUE
    /\ session' = "over"
    /\ EndWait
    /\ fired' = fired \cup {event}
    /\ UNCHANGED <<question, answer, event, post, poll, asked, posts, late, spent,
                   seen, accepted, again, got, faults>>

-----------------------------------------------------------------------------
Init ==
    /\ ended = FALSE
    /\ question = 0 /\ answer = 0 /\ waiting = FALSE
    /\ event = 0 /\ fired = {}
    /\ post = [p \in Posts |-> "none"]
    /\ poll = 0
    /\ session = "working" /\ asked = 0 /\ posts = 0
    /\ late = FALSE /\ spent = FALSE
    /\ seen = {} /\ accepted = {} /\ again = FALSE
    /\ got = [q \in Asks |-> 0]
    /\ faults \in SUBSET FaultKinds

SessionStep ==
    \/ Ask \/ AskSpent \/ Replied \/ GivesUpOnReply
    \/ LimitPasses \/ StopsWaiting \/ PollFails
    \/ PollBegins \/ PollEnds \/ Stop

PostStep(p) ==
    \/ \E known \in BOOLEAN : Open(p, known)
    \/ Delivered(p) \/ SendReturns(p)

Next ==
    \/ SessionStep
    \/ \E p \in Posts : PostStep(p)
    \/ \E q \in Asks : Answer(q)
    \/ TaskEnds

Spec == Init /\ [][Next]_vars

\* A handler comes to its end, a send returns, a poll ends after poll_s, and
\* time passes.  No answer need ever come, and no task need ever end.
Fairness ==
    /\ \A p \in Posts :
        /\ WF_vars(\E known \in BOOLEAN : Open(p, known))
        /\ WF_vars(Delivered(p) \/ SendReturns(p))
    /\ WF_vars(Replied)
    /\ WF_vars(LimitPasses)
    /\ WF_vars(PollBegins \/ PollEnds \/ StopsWaiting)
    /\ WF_vars(Stop)

FairSpec == Spec /\ Fairness

-----------------------------------------------------------------------------
(* Properties *)

PostStates == {"none", "posted", "sending", "delivered", "sent", "failed", "nobody"}

\* The row, the handlers and the session have the values the code gives them,
\* and a poll waits for an event that exists.
TypeOK ==
    /\ ended \in BOOLEAN /\ waiting \in BOOLEAN
    /\ late \in BOOLEAN /\ spent \in BOOLEAN
    /\ question \in 0..MaxAsks /\ answer \in 0..MaxAsks
    /\ event \in Nat
    /\ fired \subseteq 0..event
    /\ post \in [Posts -> PostStates]
    /\ poll \in 0..event
    /\ session \in {"working", "posting", "polling", "stopping", "over"}
    /\ asked \in 0..MaxAsks /\ posts \in 0..MaxPosts
    /\ seen \subseteq Asks /\ accepted \subseteq seen /\ again \in BOOLEAN
    /\ got \in [Asks -> 0..MaxAsks]
    /\ faults \subseteq FaultKinds

\* The client never gives up on a reply, so it sends each question once and no
\* two handlers of one question overlap.
EveryReplyInTime == "slow_reply" \notin faults

\* Without faults, an ask call never returns an answer that a person wrote for
\* another question, until one writes again to a question that has its answer: the
\* answer carries no question (Manager.answer), and only the wait and its total
\* keep the first answers apart.
AnswersItsQuestion == faults = {} /\ ~again => \A q \in Asks : got[q] \in {0, q}

\* A poll that could return an answer is never left to sit out its poll_s: the
\* event it waits for is set, also when a new question replaced the event.
NoLostWakeup == poll # 0 /\ answer # 0 /\ session = "polling" => poll \in fired

\* The row and the session agree on the wait.  While the session waits for an
\* answer the clock is paused and an answer is taken ("A question that was sent
\* pauses the task clock until the answer comes or the worker stops waiting");
\* and the manager's clock is paused only while the worker's is, or until the
\* worker's stop has come: no wait is left open behind it.
WaitFollowsAsk ==
    EveryReplyInTime =>
        /\ session = "polling" /\ ~ended /\ answer = 0 => waiting
        /\ waiting => session \in {"posting", "polling", "stopping"}

\* An answer that was taken is cleared only by another question ("The question
\* replaces an earlier one, and clears its answer").
AnswerIsKept ==
    [][EveryReplyInTime /\ answer # 0 /\ answer' = 0 => question' # question]_vars

\* Every ask call returns to the session, or the task ends.
EveryAskReturns ==
    session \in {"posting", "polling", "stopping"} ~> session \in {"working", "over"}

=============================================================================
