--------------------------- MODULE AskAnswerProofs ---------------------------
(***************************************************************************)
(* What holds of a question and its answer for any number of questions and *)
(* posts.                                                                  *)
(*                                                                         *)
(* The argument: with no slow reply each question is sent once, so its one *)
(* handler and the session move together (Pace), and the wait is open      *)
(* from the one's await to the other's stop.  With no fault at all, a      *)
(* question that is not answered uses the whole wait total, so the person  *)
(* has at most one question to answer while a wait is open (Alone), until  *)
(* one is answered again.                                                  *)
(***************************************************************************)
EXTENDS AskAnswer, TLAPS

Typed ==
    /\ ended \in BOOLEAN /\ waiting \in BOOLEAN /\ late \in BOOLEAN /\ spent \in BOOLEAN
    /\ asked \in 0..MaxAsks /\ question \in 0..asked /\ answer \in 0..MaxAsks
    /\ event \in Nat /\ poll \in Nat /\ posts \in Nat
    /\ post \in [Posts -> PostStates]
    /\ session \in {"working", "posting", "polling", "stopping", "over"}
    /\ got \in [Asks -> 0..MaxAsks]
    /\ again \in BOOLEAN /\ accepted \subseteq seen /\ seen \subseteq Asks
    /\ \A p \in Posts : post[p] # "none" => p[1] <= asked

\* The event that a poll waits for is the current one or is set.
Wakes ==
    /\ poll # 0 => poll = event \/ poll \in fired
    /\ answer # 0 => event \in fired

LEMMA TypedInit == Init => Typed
<1> SUFFICES ASSUME Init PROVE Typed
  OBVIOUS
<1>1. MaxAsks \in Nat
  BY AskAssumption
<1>2. /\ post \in [Posts -> PostStates] /\ got \in [Asks -> 0..MaxAsks]
      /\ \A p \in Posts : post[p] = "none"
  BY <1>1 DEF Init, PostStates
<1>3. /\ ended \in BOOLEAN /\ waiting \in BOOLEAN /\ late \in BOOLEAN /\ spent \in BOOLEAN
      /\ again \in BOOLEAN
  BY DEF Init
<1> QED BY <1>1, <1>2, <1>3 DEF Init, Typed

\* A step of the session that sends a question puts it at the end.
LEMMA PostedTyped ==
    ASSUME Typed, NEW p \in Posts, NEW s \in PostStates, NEW m \in Nat, asked <= m,
           p[1] <= m, post' = [post EXCEPT ![p] = s], asked' = m
    PROVE  /\ post' \in [Posts -> PostStates]
           /\ \A q \in Posts : post'[q] # "none" => q[1] <= asked'
<1>1. \A q \in Posts : q[1] \in Nat
  BY DEF Posts, Asks
<1>2. asked \in Nat
  BY AskAssumption DEF Typed
<1> QED BY <1>1, <1>2 DEF Typed

LEMMA AskTyped == ASSUME Typed, Ask \/ AskSpent PROVE Typed'
<1>1. asked + 1 \in 1..MaxAsks /\ asked + 1 \in Nat /\ asked \in Nat /\ 0..asked \subseteq 0..(asked + 1)
  BY AskAssumption DEF Ask, AskSpent, Typed
<1>2. CASE Ask
  <2> DEFINE p == <<asked + 1, 1>>
  <2>1. p \in Posts /\ p[1] = asked + 1 /\ "posted" \in PostStates
    BY <1>1, AskAssumption DEF Posts, Asks, PostStates
  <2>2. post' = [post EXCEPT ![p] = "posted"] /\ asked' = asked + 1 /\ posts' = 1 /\ session' = "posting"
        /\ UNCHANGED <<rowVars, poll, late, spent, seen, accepted, again, got>>
    BY <1>2 DEF Ask
  <2> HIDE DEF p
  <2>3. /\ post' \in [Posts -> PostStates]
        /\ \A q \in Posts : post'[q] # "none" => q[1] <= asked'
    <3>1. asked <= asked + 1 /\ p[1] <= asked + 1
      BY <1>1, <2>1
    <3> QED BY <1>1, <2>1, <2>2, <3>1, PostedTyped
  <2> QED BY <1>1, <2>2, <2>3 DEF Typed, rowVars
<1>3. CASE AskSpent
  <2>1. \A q \in Posts : q[1] \in Nat
    BY DEF Posts, Asks
  <2>2. asked' = asked + 1 /\ session' = "stopping"
        /\ UNCHANGED <<rowVars, post, poll, posts, late, spent, seen, accepted, again, got>>
    BY <1>3 DEF AskSpent
  <2>3. \A q \in Posts : post'[q] # "none" => q[1] <= asked'
    BY <1>1, <2>1, <2>2 DEF Typed
  <2> QED BY <1>1, <2>2, <2>3 DEF Typed, rowVars
<1> QED BY <1>2, <1>3

LEMMA LeavesTyped == ASSUME Typed, LeavesAsk PROVE late' \in BOOLEAN /\ spent' \in BOOLEAN
BY DEF LeavesAsk

LEMMA SessionTyped ==
    ASSUME Typed, Replied \/ LimitPasses \/ StopsWaiting \/ PollFails \/ PollBegins \/ PollEnds \/ Stop
    PROVE  Typed'
<1>1. CASE Replied \/ StopsWaiting \/ PollFails
  <2>1. /\ UNCHANGED <<rowVars, post, asked, posts, seen, accepted, again, got>>
        /\ poll' = poll \/ poll' = 0
        /\ session' \in {"working", "polling", "stopping"}
        /\ LeavesAsk \/ UNCHANGED <<late, spent>>
    BY <1>1 DEF Replied, StopsWaiting, PollFails
  <2>2. late' \in BOOLEAN /\ spent' \in BOOLEAN
    BY <2>1, LeavesTyped DEF Typed
  <2> QED BY <2>1, <2>2 DEF Typed, rowVars
<1>2. CASE PollBegins \/ PollEnds
  <2>1. /\ UNCHANGED <<rowVars, post, asked, posts, seen, accepted, again>> /\ session = "polling"
        /\ \/ TakesAnswer
           \/ (poll' = event \/ poll' = 0) /\ UNCHANGED <<got, session, late, spent>>
    BY <1>2 DEF PollBegins, PollEnds
  <2>2. CASE TakesAnswer
    <3>1. got' \in [Asks -> 0..MaxAsks]
      BY <2>2 DEF TakesAnswer, Typed
    <3>2. late' \in BOOLEAN /\ spent' \in BOOLEAN /\ poll' = 0 /\ session' = "working"
      BY <2>2, LeavesTyped DEF TakesAnswer
    <3> QED BY <2>1, <3>1, <3>2 DEF Typed, rowVars
  <2>3. CASE (poll' = event \/ poll' = 0) /\ UNCHANGED <<got, session, late, spent>>
    BY <2>1, <2>3 DEF Typed, rowVars
  <2> QED BY <2>1, <2>2, <2>3
<1>3. CASE LimitPasses
  BY <1>3 DEF LimitPasses, Typed, rowVars
<1>4. CASE Stop
  <2>1. waiting' \in BOOLEAN
    BY <1>4 DEF Stop, EndWait, Typed
  <2> QED BY <1>4, <2>1 DEF Stop, Typed
<1> QED BY <1>1, <1>2, <1>3, <1>4

LEMMA GivesUpTyped == ASSUME Typed, GivesUpOnReply PROVE Typed'
<1>1. CASE posts < MaxPosts
  <2>1. /\ post' = [post EXCEPT ![<<asked, posts + 1>>] = "posted"] /\ posts' = posts + 1
        /\ UNCHANGED <<rowVars, session, late, spent, poll, asked, seen, accepted, again, got>>
    BY <1>1, AskAssumption DEF GivesUpOnReply, Typed
  <2>2. posts + 1 \in Nat /\ asked \in Nat /\ \A q \in Posts : q = <<q[1], q[2]>>
    BY AskAssumption DEF Typed, Posts
  <2>3. post' \in [Posts -> PostStates]
    BY <2>1 DEF Typed, PostStates
  <2>4. \A q \in Posts : post'[q] # "none" => q[1] <= asked
    <3> SUFFICES ASSUME NEW q \in Posts, post'[q] # "none" PROVE q[1] <= asked
      OBVIOUS
    <3>1. CASE q = <<asked, posts + 1>>
      BY <2>2, <3>1
    <3>2. CASE q # <<asked, posts + 1>>
      BY <2>1, <3>2 DEF Typed
    <3> QED BY <3>1, <3>2
  <2> QED BY <2>1, <2>2, <2>3, <2>4 DEF Typed, rowVars
<1>2. CASE posts = MaxPosts
  <2>1. /\ session' = "working" /\ LeavesAsk
        /\ UNCHANGED <<rowVars, post, posts, poll, asked, seen, accepted, again, got>>
    BY <1>2, AskAssumption DEF GivesUpOnReply
  <2>2. late' \in BOOLEAN /\ spent' \in BOOLEAN
    BY <2>1, LeavesTyped
  <2> QED BY <2>1, <2>2 DEF Typed, rowVars
<1> QED BY <1>1, <1>2 DEF GivesUpOnReply

LEMMA PostTyped == ASSUME Typed, NEW p \in Posts, PostStep(p) PROVE Typed'
<1>0. /\ \A q \in Posts : q[1] \in Asks /\ q[1] \in Nat
      /\ asked \in Nat /\ post[p] \in PostStates
  BY AskAssumption DEF Posts, Asks, Typed
<1>1. post[p] # "none" /\ p[1] <= asked
  BY DEF PostStep, Open, Delivered, SendReturns, Typed
<1>2. PICK s \in PostStates : post' = [post EXCEPT ![p] = s]
  BY DEF PostStep, Open, Delivered, SendReturns, PostStates
<1>3. UNCHANGED <<ended, poll, sessionVars, accepted, again>>
  BY DEF PostStep, Open, Delivered, SendReturns, rowVars
<1>4. /\ post' \in [Posts -> PostStates]
      /\ \A q \in Posts : post'[q] # "none" => q[1] <= asked'
  <2>1. asked' = asked /\ asked <= asked
    BY <1>0, <1>3 DEF sessionVars
  <2> QED BY <1>0, <1>1, <1>2, <2>1, PostedTyped
<1>5. CASE \E known \in BOOLEAN : Open(p, known)
  <2>1. /\ question' = p[1] /\ answer' = 0 /\ event' = event + 1
        /\ waiting' \in BOOLEAN /\ seen' = seen
    BY <1>5 DEF Open
  <2>2. question' \in 0..asked /\ answer' \in 0..MaxAsks /\ event' \in Nat
    BY <1>0, <1>1, <2>1, AskAssumption DEF Typed
  <2> QED BY <1>3, <1>4, <2>1, <2>2 DEF Typed, sessionVars
<1>6. CASE Delivered(p) \/ SendReturns(p)
  <2>1. UNCHANGED <<question, answer, event>> /\ waiting' \in {waiting, FALSE}
    BY <1>6 DEF Delivered, SendReturns, rowVars
  <2>2. seen' \subseteq Asks /\ accepted \subseteq seen'
    BY <1>0, <1>6 DEF Delivered, SendReturns, Typed
  <2> QED BY <1>3, <1>4, <2>1, <2>2 DEF Typed, sessionVars
<1> QED BY <1>5, <1>6 DEF PostStep

LEMMA AnswerTyped == ASSUME Typed, NEW q \in Asks, Answer(q) PROVE Typed'
<1>1. q \in 0..MaxAsks
  BY AskAssumption DEF Asks
<1> QED BY <1>1 DEF Answer, EndWait, Typed, sessionVars

LEMMA EndTyped == ASSUME Typed, TaskEnds PROVE Typed'
BY DEF TaskEnds, EndWait, Typed

LEMMA NextTyped == ASSUME Typed, [Next]_vars PROVE Typed'
<1>1. CASE UNCHANGED vars
  BY <1>1 DEF vars, Typed
<1> QED BY <1>1, AskTyped, SessionTyped, GivesUpTyped, PostTyped, AnswerTyped, EndTyped
        DEF Next, SessionStep

-----------------------------------------------------------------------------
(* A poll is woken. *)

LEMMA NextWakes == ASSUME Typed, Wakes, [Next]_vars PROVE Wakes'
<1>1. CASE UNCHANGED vars
  BY <1>1 DEF vars, Wakes
<1>2. CASE SessionStep
  <2>1. UNCHANGED <<event, fired, answer>> /\ poll' \in {poll, 0, event}
    BY <1>2 DEF SessionStep, Ask, AskSpent, Replied, GivesUpOnReply, LimitPasses, StopsWaiting,
                PollFails, PollBegins, PollEnds, TakesAnswer, Stop, rowVars
  <2> QED BY <2>1 DEF Wakes
<1>3. ASSUME NEW p \in Posts, PostStep(p) PROVE Wakes'
  <2>1. poll' = poll
    BY <1>3 DEF PostStep, Open, Delivered, SendReturns
  <2>2. \/ UNCHANGED <<event, fired, answer>>
        \/ fired' = fired \cup {event} /\ answer' = 0
    BY <1>3 DEF PostStep, Open, Delivered, SendReturns, rowVars
  <2> QED BY <2>1, <2>2 DEF Wakes
<1>4. ASSUME NEW q \in Asks, Answer(q) PROVE Wakes'
  BY <1>4 DEF Answer, Wakes
<1>5. CASE TaskEnds
  BY <1>5 DEF TaskEnds, Wakes
<1> QED BY <1>1, <1>2, <1>3, <1>4, <1>5 DEF Next

LEMMA AlwaysTyped == Spec => [](Typed /\ Wakes)
<1>1. Init => Typed /\ Wakes
  BY TypedInit DEF Init, Wakes
<1>2. (Typed /\ Wakes) /\ [Next]_vars => (Typed /\ Wakes)'
  BY NextTyped, NextWakes
<1> QED BY <1>1, <1>2, PTL DEF Spec

\* The events of a task are numbered as they are made, none of them is set or
\* waited for before, and the client sends a question MaxPosts times at most.
Numbered ==
    /\ fired \subseteq 0..event /\ poll \in 0..event
    /\ posts \in 0..MaxPosts /\ faults \subseteq FaultKinds

LEMMA NextNumbered == ASSUME Typed, Numbered, [Next]_vars PROVE Numbered'
<1>0. event \in Nat /\ 0..event \subseteq 0..(event + 1) /\ event \in 0..(event + 1)
  BY DEF Typed
<1>1. CASE UNCHANGED vars
  BY <1>1 DEF vars, Numbered
<1>2. CASE SessionStep
  <2>1. /\ UNCHANGED <<event, fired, faults>> /\ poll' \in {poll, 0, event}
        /\ posts' \in {posts, 1} \/ (posts < MaxPosts /\ posts' = posts + 1)
    BY <1>2 DEF SessionStep, Ask, AskSpent, Replied, GivesUpOnReply, LimitPasses, StopsWaiting,
                PollFails, PollBegins, PollEnds, TakesAnswer, Stop, rowVars
  <2> QED BY <1>0, <2>1, AskAssumption DEF Numbered
<1>3. ASSUME NEW p \in Posts, PostStep(p) PROVE Numbered'
  <2>1. UNCHANGED <<poll, posts, faults>>
    BY <1>3 DEF PostStep, Open, Delivered, SendReturns, sessionVars
  <2>2. \/ UNCHANGED <<event, fired>>
        \/ fired' = fired \cup {event} /\ event' = event + 1
    BY <1>3 DEF PostStep, Open, Delivered, SendReturns, rowVars
  <2> QED BY <1>0, <2>1, <2>2 DEF Numbered
<1>4. ASSUME NEW q \in Asks, Answer(q) PROVE Numbered'
  BY <1>0, <1>4 DEF Answer, Numbered, sessionVars
<1>5. CASE TaskEnds
  BY <1>0, <1>5 DEF TaskEnds, Numbered
<1> QED BY <1>1, <1>2, <1>3, <1>4, <1>5 DEF Next

\* The row, the handlers and the session keep their types, and a poll waits for
\* an event that was made (_answer_events of the manager).
THEOREM TypeCorrect == Spec => []TypeOK
<1>1. Init => Numbered
  BY AskAssumption DEF Init, Numbered
<1>2. Typed /\ Numbered => TypeOK
  BY AskAssumption DEF Typed, Numbered, TypeOK
<1> QED BY <1>1, <1>2, NextNumbered, AlwaysTyped, PTL DEF Spec

\* Manager.ask sets the event it replaces and Manager.answer the event of the
\* row: a poll that could return an answer never waits for one nobody sets.
THEOREM NoWakeupLost == Spec => []NoLostWakeup
<1>1. Typed /\ Wakes => NoLostWakeup
  BY DEF Typed, Wakes, NoLostWakeup
<1> QED BY <1>1, AlwaysTyped, PTL

-----------------------------------------------------------------------------
(* The wait of the row and the ask call keep pace. *)

Latest == <<asked, 1>>
UnderWay == {"posted", "sending", "delivered"}

\* With replies in time the one POST of the last question is the only handler,
\* and the session waits for it.
OneHandler ==
    /\ ended <=> session = "over"
    /\ session = "posting" => posts = 1 /\ Latest \in Posts
    /\ \A p \in Posts : post[p] \in UnderWay => p = Latest /\ session \in {"posting", "over"}
    /\ \A p \in Posts : post[p] = "posted" => question # p[1]

\* The wait is open from the question in the row to its answer or its stop.
WaitOpen ==
    /\ session = "posting" /\ post[Latest] \in {"failed", "nobody"} => ~waiting
    /\ session = "posting" /\ post[Latest] \in {"sending", "delivered", "sent"} =>
           waiting \/ answer # 0
    /\ session = "polling" => waiting \/ answer # 0
    /\ answer # 0 => ~waiting
    /\ waiting => session \in {"posting", "polling", "stopping"}

Pace == OneHandler /\ WaitOpen

LEMMA SentPaced ==
    ASSUME Typed, Pace, Ask \/ AskSpent PROVE Pace' /\ UNCHANGED answer
<1>0. /\ asked \in Nat /\ asked < MaxAsks /\ MaxPosts \in Nat \ {0} /\ MaxAsks \in Nat
      /\ question <= asked /\ question \in Nat
  BY AskAssumption DEF Typed, Ask, AskSpent
<1>1. ~ended /\ ~waiting /\ ended' = ended /\ UNCHANGED <<question, answer, waiting>>
  BY DEF Pace, OneHandler, WaitOpen, Ask, AskSpent, rowVars
<1>2. \A p \in Posts : post[p] \notin UnderWay
  BY DEF Pace, OneHandler, Ask, AskSpent
<1>3. CASE Ask
  <2> DEFINE n == <<asked + 1, 1>>
  <2>1. n \in Posts /\ n[1] = asked + 1
    BY <1>0 DEF Posts, Asks
  <2>2. /\ post' = [post EXCEPT ![n] = "posted"] /\ posts' = 1 /\ session' = "posting"
        /\ Latest' = n
    BY <1>3 DEF Ask, Latest
  <2> HIDE DEF n
  <2>3. post'[n] = "posted" /\ \A p \in Posts : p # n => post'[p] = post[p]
    BY <2>1, <2>2 DEF Typed
  <2>4. \A p \in Posts : post'[p] \in UnderWay => p = n
    BY <1>2, <2>3
  <2>5. \A p \in Posts : post'[p] = "posted" => question # p[1]
    BY <1>0, <2>1, <2>4 DEF UnderWay
  <2>6. OneHandler'
    BY <1>1, <2>1, <2>2, <2>4, <2>5 DEF OneHandler
  <2>7. WaitOpen'
    BY <1>1, <2>2, <2>3 DEF WaitOpen
  <2> QED BY <1>1, <2>6, <2>7 DEF Pace
<1>4. CASE AskSpent
  <2>1. session' = "stopping" /\ post' = post
    BY <1>4 DEF AskSpent
  <2>2. \A p \in Posts : post'[p] # "posted" /\ post'[p] \notin UnderWay
    BY <1>2, <2>1 DEF UnderWay
  <2>3. OneHandler'
    BY <1>1, <2>1, <2>2 DEF OneHandler
  <2>4. WaitOpen'
    BY <1>1, <2>1 DEF WaitOpen
  <2> QED BY <1>1, <2>3, <2>4 DEF Pace
<1> QED BY <1>3, <1>4

LEMMA SessionPaced ==
    ASSUME Typed, Pace, EveryReplyInTime,
           Replied \/ LimitPasses \/ StopsWaiting \/ PollBegins \/ PollEnds \/ Stop
    PROVE  Pace' /\ UNCHANGED answer
<1>1. /\ UNCHANGED <<ended, question, answer, post, asked, posts>>
      /\ Latest' = Latest /\ ~ended /\ session # "over"
  BY DEF Replied, LimitPasses, StopsWaiting, PollBegins, PollEnds, Stop, rowVars, Latest,
         Pace, OneHandler
<1>2. CASE Replied
  <2>1. /\ session = "posting" /\ UNCHANGED waiting
        /\ Latest = <<asked, posts>> /\ Latest \in Posts
    BY <1>2 DEF Replied, Pace, OneHandler, Latest, rowVars
  <2>2. \/ post[Latest] = "sent" /\ session' = "polling"
        \/ post[Latest] \in {"failed", "nobody"} /\ session' = "working"
    BY <1>2, <2>1 DEF Replied
  <2>3. \A p \in Posts : post[p] \notin UnderWay
    BY <2>1, <2>2 DEF Pace, OneHandler, UnderWay
  <2>4. OneHandler'
    BY <1>1, <2>2, <2>3 DEF OneHandler, UnderWay
  <2>5. WaitOpen'
    BY <1>1, <2>1, <2>2 DEF Pace, WaitOpen
  <2> QED BY <1>1, <2>4, <2>5 DEF Pace
<1>3. CASE LimitPasses \/ StopsWaiting \/ PollBegins \/ PollEnds
  <2>1. /\ session = "polling" /\ UNCHANGED waiting
        /\ \/ session' \in {"polling", "stopping"}
           \/ session' = "working" /\ answer # 0
    BY <1>3 DEF LimitPasses, StopsWaiting, PollBegins, PollEnds, TakesAnswer, rowVars
  <2>2. OneHandler'
    BY <1>1, <2>1 DEF Pace, OneHandler
  <2>3. WaitOpen'
    BY <1>1, <2>1 DEF Pace, WaitOpen
  <2> QED BY <1>1, <2>2, <2>3 DEF Pace
<1>4. CASE Stop
  <2>1. session = "stopping" /\ session' = "working" /\ ~waiting'
    BY <1>4 DEF Stop, EndWait, EveryReplyInTime
  <2>2. OneHandler'
    BY <1>1, <2>1 DEF Pace, OneHandler
  <2>3. WaitOpen'
    BY <1>1, <2>1 DEF Pace, WaitOpen
  <2> QED BY <1>1, <2>2, <2>3 DEF Pace
<1> QED BY <1>2, <1>3, <1>4

LEMMA PostPaced ==
    ASSUME Typed, Pace, NEW p \in Posts, PostStep(p)
    PROVE  Pace' /\ (UNCHANGED answer \/ question' # question)
<1>1. /\ UNCHANGED <<ended, session, asked, posts>> /\ Latest' = Latest
      /\ post[p] \in UnderWay
  BY DEF PostStep, Open, Delivered, SendReturns, rowVars, sessionVars, Latest, UnderWay
<1>2. /\ p = Latest /\ session \in {"posting", "over"}
      /\ \A q \in Posts : q # p => post[q] \notin UnderWay
  BY <1>1 DEF Pace, OneHandler
<1>3. PICK s \in PostStates \ {"posted"} : post' = [post EXCEPT ![p] = s]
  BY DEF PostStep, Open, Delivered, SendReturns, PostStates
<1>4. post'[p] = s /\ \A q \in Posts : q # p => post'[q] = post[q]
  BY <1>3 DEF Typed
<1>5. OneHandler'
  BY <1>1, <1>2, <1>4 DEF Pace, OneHandler, UnderWay
<1>6. CASE \E known \in BOOLEAN : Open(p, known)
  <2>1. PICK known \in BOOLEAN : Open(p, known)
    BY <1>6
  <2>2. /\ ~ended /\ post[p] = "posted" /\ answer' = 0 /\ question' = p[1]
        /\ waiting' = known /\ post'[p] = IF known THEN "sending" ELSE "nobody"
    BY <2>1 DEF Open, Typed
  <2>3. question' # question
    BY <2>2 DEF Pace, OneHandler
  <2>4. session = "posting"
    BY <1>2, <2>2 DEF Pace, OneHandler
  <2>5. WaitOpen'
    BY <1>1, <1>2, <2>2, <2>4 DEF WaitOpen
  <2> QED BY <1>5, <2>3, <2>5 DEF Pace
<1>7. CASE Delivered(p) \/ SendReturns(p)
  <2>1. UNCHANGED answer
    BY <1>7 DEF Delivered, SendReturns, rowVars
  <2>2. \/ /\ UNCHANGED waiting /\ post[p] \in {"sending", "delivered"}
           /\ post'[p] \in {"delivered", "sent"}
        \/ waiting' = FALSE /\ post'[p] = "failed"
    BY <1>7 DEF Delivered, SendReturns, rowVars, Typed
  <2>3. WaitOpen'
    BY <1>1, <1>2, <2>1, <2>2 DEF Pace, WaitOpen
  <2> QED BY <1>5, <2>1, <2>3 DEF Pace
<1> QED BY <1>6, <1>7 DEF PostStep

LEMMA NextPaced ==
    ASSUME Typed, Pace, EveryReplyInTime, [Next]_vars
    PROVE  Pace' /\ (answer # 0 /\ answer' = 0 => question' # question)
<1>1. CASE UNCHANGED vars
  BY <1>1 DEF vars, Pace, OneHandler, WaitOpen, Latest
<1>2. ~GivesUpOnReply /\ ~PollFails
  BY DEF GivesUpOnReply, PollFails, EveryReplyInTime
<1>3. ASSUME NEW q \in Asks, Answer(q) PROVE Pace' /\ answer' # 0
  <2>1. /\ answer' = q /\ answer' # 0 /\ waiting' = FALSE
        /\ UNCHANGED <<ended, question, post, session, asked, posts>>
    BY <1>3 DEF Answer, EndWait, sessionVars, Asks
  <2>2. OneHandler'
    BY <2>1 DEF Pace, OneHandler, Latest
  <2>3. WaitOpen'
    BY <2>1 DEF WaitOpen
  <2> QED BY <2>1, <2>2, <2>3 DEF Pace
<1>4. ASSUME TaskEnds PROVE Pace' /\ UNCHANGED answer
  <2>1. /\ ended' = TRUE /\ session' = "over" /\ waiting' = FALSE
        /\ UNCHANGED <<question, answer, post, asked, posts>>
    BY <1>4 DEF TaskEnds, EndWait
  <2>2. OneHandler'
    BY <2>1 DEF Pace, OneHandler, Latest
  <2>3. WaitOpen'
    BY <2>1 DEF WaitOpen
  <2> QED BY <2>1, <2>2, <2>3 DEF Pace
<1> QED BY <1>1, <1>2, <1>3, <1>4, SentPaced, SessionPaced, PostPaced DEF Next, SessionStep

\* The faults that may happen are chosen once.
LEMMA FaultsStay == ASSUME [Next]_vars PROVE UNCHANGED faults
BY DEF Next, SessionStep, PostStep, vars, Ask, AskSpent, Replied, GivesUpOnReply, LimitPasses,
       StopsWaiting, PollFails, PollBegins, PollEnds, Stop, Open, Delivered, SendReturns,
       Answer, TaskEnds

\* A second answer to a question is not forgotten.
LEMMA AgainStays == ASSUME [Next]_vars, ~again' PROVE ~again
BY DEF Next, SessionStep, PostStep, vars, Ask, AskSpent, Replied, GivesUpOnReply, LimitPasses,
       StopsWaiting, PollFails, PollBegins, PollEnds, Stop, Open, Delivered, SendReturns,
       Answer, TaskEnds

LEMMA InitPaced == Init => Pace
BY DEF Init, Pace, OneHandler, WaitOpen, UnderWay

LEMMA AlwaysPaced == Spec => [](Typed /\ (EveryReplyInTime => Pace))
<1> DEFINE I == Typed /\ (EveryReplyInTime => Pace)
<1>1. Init => I
  BY TypedInit, InitPaced
<1>2. I /\ [Next]_vars => I'
  BY NextTyped, NextPaced, FaultsStay DEF EveryReplyInTime
<1> QED BY <1>1, <1>2, PTL DEF Spec

\* With replies in time the clock of the manager is paused while the session
\* waits, and only then (manager.py, ask and stop_wait).
THEOREM WaitAgrees == Spec => []WaitFollowsAsk
<1>1. Typed /\ (EveryReplyInTime => Pace) => WaitFollowsAsk
  BY DEF Pace, WaitOpen, WaitFollowsAsk
<1> QED BY <1>1, AlwaysPaced, PTL

\* With replies in time an answer is cleared only by another question: a POST
\* never opens the question that is in the row already.
THEOREM AnswerStays == Spec => AnswerIsKept
<1>1. Typed /\ (EveryReplyInTime => Pace) /\ [Next]_vars
         => [EveryReplyInTime /\ answer # 0 /\ answer' = 0 => question' # question]_vars
  BY NextPaced
<1> QED BY <1>1, AlwaysPaced, PTL DEF Spec, AnswerIsKept

-----------------------------------------------------------------------------
(* The person has one question to answer while a wait is open. *)

NoFault == faults = {}

\* With no fault a question that is left open has used the wait total, and no
\* question follows it.
OneOpen ==
    /\ \A p \in Posts : post[p] # "failed"
    /\ session = "stopping" => spent
    /\ session = "working" /\ ~spent => seen \subseteq accepted
    /\ session = "posting" /\ post[Latest] \in {"posted", "sending", "nobody"} =>
           seen \subseteq accepted
    /\ session \in {"posting", "polling"} \/ waiting => seen \subseteq accepted \cup {asked}

\* The answer in the row is one the manager took, for the question asked last.
OwnAnswer ==
    /\ answer # 0 => answer \in accepted
    /\ session = "posting" /\ post[Latest] # "posted" /\ answer # 0 => answer = asked
    /\ session = "polling" /\ answer # 0 => answer = asked
    /\ \A q \in Asks : got[q] \in {0, q}

Alone == OneOpen /\ OwnAnswer

LEMMA SentAlone == ASSUME Typed, Pace, Alone, Ask \/ AskSpent PROVE Alone'
<1>0. /\ asked \in Nat /\ asked < MaxAsks /\ MaxPosts \in Nat \ {0} /\ MaxAsks \in Nat
      /\ session = "working" /\ ~waiting
      /\ UNCHANGED <<waiting, answer, seen, accepted, again, got, spent>>
  BY AskAssumption DEF Typed, Ask, AskSpent, Pace, WaitOpen, rowVars
<1>1. CASE Ask
  <2> DEFINE n == <<asked + 1, 1>>
  <2>1. n \in Posts
    BY <1>0 DEF Posts, Asks
  <2>2. /\ post' = [post EXCEPT ![n] = "posted"] /\ session' = "posting" /\ Latest' = n
        /\ seen \subseteq accepted
    BY <1>0, <1>1 DEF Ask, Latest, Alone, OneOpen
  <2> HIDE DEF n
  <2>3. post'[n] = "posted" /\ \A p \in Posts : post'[p] # "failed"
    BY <2>1, <2>2 DEF Typed, Alone, OneOpen
  <2>4. OneOpen'
    BY <1>0, <2>2, <2>3 DEF OneOpen
  <2>5. OwnAnswer'
    BY <1>0, <2>2, <2>3 DEF Alone, OwnAnswer
  <2> QED BY <2>4, <2>5 DEF Alone
<1>2. CASE AskSpent
  <2>1. spent /\ session' = "stopping" /\ post' = post
    BY <1>2 DEF AskSpent
  <2>2. OneOpen'
    BY <1>0, <2>1 DEF Alone, OneOpen
  <2>3. OwnAnswer'
    BY <1>0, <2>1 DEF Alone, OwnAnswer
  <2> QED BY <2>2, <2>3 DEF Alone
<1> QED BY <1>1, <1>2

LEMMA SessionAlone ==
    ASSUME Typed, Pace, Alone,
           Replied \/ LimitPasses \/ StopsWaiting \/ PollBegins \/ PollEnds \/ Stop
    PROVE  Alone'
<1>1. /\ UNCHANGED <<answer, post, asked, seen, accepted, again>> /\ Latest' = Latest
      /\ waiting' => waiting
  BY DEF Replied, LimitPasses, StopsWaiting, PollBegins, PollEnds, Stop, EndWait, rowVars, Latest
<1>2. spent => spent'
  <2>1. LeavesAsk \/ UNCHANGED spent
    BY DEF Replied, LimitPasses, StopsWaiting, PollBegins, PollEnds, TakesAnswer, Stop
  <2> QED BY <2>1 DEF LeavesAsk
<1>3. CASE Replied
  <2>1. /\ session = "posting" /\ Latest = <<asked, posts>> /\ Latest \in Posts
        /\ UNCHANGED <<waiting, got>>
    BY <1>3 DEF Replied, Pace, OneHandler, Latest, rowVars
  <2>2. \/ post[Latest] = "sent" /\ session' = "polling"
        \/ post[Latest] = "nobody" /\ session' = "working" /\ ~waiting
    BY <1>3, <2>1 DEF Replied, Alone, OneOpen, Pace, WaitOpen
  <2>3. OneOpen'
    BY <1>1, <1>2, <2>1, <2>2 DEF Alone, OneOpen
  <2>4. OwnAnswer'
    BY <1>1, <2>1, <2>2 DEF Alone, OwnAnswer
  <2> QED BY <2>3, <2>4 DEF Alone
<1>4. CASE (PollBegins \/ PollEnds) /\ TakesAnswer
  <2>1. /\ session = "polling" /\ session' = "working" /\ answer # 0
        /\ got' = [got EXCEPT ![asked] = answer] /\ UNCHANGED waiting
    BY <1>4 DEF PollBegins, PollEnds, TakesAnswer, rowVars
  <2>2. answer = asked /\ answer \in accepted /\ ~waiting
    BY <2>1 DEF Alone, OwnAnswer, Pace, WaitOpen
  <2>3. seen \subseteq accepted
    BY <2>1, <2>2 DEF Alone, OneOpen
  <2>4. OneOpen'
    BY <1>1, <1>2, <2>1, <2>2, <2>3 DEF Alone, OneOpen
  <2>5. \A q \in Asks : got'[q] \in {0, q}
    BY <2>1, <2>2 DEF Alone, OwnAnswer, Typed
  <2>6. OwnAnswer'
    BY <1>1, <2>1, <2>5 DEF Alone, OwnAnswer
  <2> QED BY <2>4, <2>6 DEF Alone
<1>5. CASE LimitPasses \/ StopsWaiting \/ ((PollBegins \/ PollEnds) /\ ~TakesAnswer)
  <2>1. /\ session = "polling" /\ UNCHANGED got
        /\ session' = "polling" \/ (session' = "stopping" /\ spent')
    BY <1>5 DEF LimitPasses, StopsWaiting, LeavesAsk, PollBegins, PollEnds
  <2>2. OneOpen'
    BY <1>1, <1>2, <2>1 DEF Alone, OneOpen
  <2>3. OwnAnswer'
    BY <1>1, <2>1 DEF Alone, OwnAnswer
  <2> QED BY <2>2, <2>3 DEF Alone
<1>6. CASE Stop
  <2>1. session = "stopping" /\ session' = "working" /\ UNCHANGED got /\ spent
    BY <1>6 DEF Stop, Alone, OneOpen
  <2>2. OneOpen'
    BY <1>1, <1>2, <2>1 DEF Alone, OneOpen
  <2>3. OwnAnswer'
    BY <1>1, <2>1 DEF Alone, OwnAnswer
  <2> QED BY <2>2, <2>3 DEF Alone
<1> QED BY <1>3, <1>4, <1>5, <1>6

LEMMA PostAlone ==
    ASSUME Typed, Pace, Alone, NoFault, NEW p \in Posts, PostStep(p) PROVE Alone'
<1>1. /\ UNCHANGED <<session, asked, spent, accepted, again, got>> /\ Latest' = Latest
      /\ post[p] \in UnderWay
  BY DEF PostStep, Open, Delivered, SendReturns, rowVars, sessionVars, Latest, UnderWay
<1>2. p = Latest /\ p[1] = asked /\ session \in {"posting", "over"}
  BY <1>1 DEF Pace, OneHandler, Latest
<1>3. CASE \E known \in BOOLEAN : Open(p, known)
  <2>1. PICK known \in BOOLEAN : Open(p, known)
    BY <1>3
  <2>2. /\ ~ended /\ post[p] = "posted" /\ answer' = 0 /\ seen' = seen
        /\ post' = [post EXCEPT ![p] = IF known THEN "sending" ELSE "nobody"]
    BY <2>1 DEF Open
  <2>3. \A q \in Posts : post'[q] # "failed"
    BY <2>2 DEF Typed, Alone, OneOpen
  <2>4. session = "posting" /\ seen \subseteq accepted
    BY <1>2, <2>2 DEF Pace, OneHandler, Alone, OneOpen
  <2>5. OneOpen'
    BY <1>1, <2>2, <2>3, <2>4 DEF OneOpen
  <2>6. OwnAnswer'
    BY <1>1, <2>2 DEF Alone, OwnAnswer
  <2> QED BY <2>5, <2>6 DEF Alone
<1>4. CASE Delivered(p)
  <2>1. /\ post[p] = "sending" /\ post'[p] = "delivered" /\ seen' = seen \cup {asked}
        /\ UNCHANGED <<answer, waiting>>
        /\ \A q \in Posts : post'[q] # "failed"
    BY <1>2, <1>4 DEF Delivered, rowVars, Typed, Alone, OneOpen
  <2>2. session = "posting" \/ ~waiting
    BY <1>2 DEF Pace, WaitOpen
  <2>3. OneOpen'
    BY <1>1, <1>2, <2>1, <2>2 DEF Alone, OneOpen
  <2>4. OwnAnswer'
    BY <1>1, <1>2, <2>1 DEF Alone, OwnAnswer
  <2> QED BY <2>3, <2>4 DEF Alone
<1>5. CASE SendReturns(p)
  <2>1. /\ post[p] = "delivered" /\ post'[p] = "sent"
        /\ UNCHANGED <<answer, waiting, seen>>
        /\ \A q \in Posts : post'[q] # "failed"
    BY <1>5 DEF SendReturns, NoFault, Typed, Alone, OneOpen
  <2>2. OneOpen'
    BY <1>1, <1>2, <2>1 DEF Alone, OneOpen
  <2>3. OwnAnswer'
    BY <1>1, <1>2, <2>1 DEF Alone, OwnAnswer
  <2> QED BY <2>2, <2>3 DEF Alone
<1> QED BY <1>3, <1>4, <1>5 DEF PostStep

LEMMA AnswerAlone ==
    ASSUME Typed, Pace, Alone, NEW q \in Asks, Answer(q), ~again' PROVE Alone'
<1>1. /\ q \in seen /\ q \notin accepted /\ waiting /\ answer' = q /\ accepted' = accepted \cup {q}
      /\ ~waiting' /\ UNCHANGED <<post, session, asked, spent, seen, got>> /\ Latest' = Latest
  BY DEF Answer, EndWait, sessionVars, Latest
<1>2. q = asked
  BY <1>1 DEF Alone, OneOpen
<1>3. OneOpen'
  BY <1>1 DEF Alone, OneOpen
<1>4. OwnAnswer'
  BY <1>1, <1>2 DEF Alone, OwnAnswer
<1> QED BY <1>3, <1>4 DEF Alone

LEMMA NextAlone == ASSUME Typed, Pace, Alone, NoFault, [Next]_vars, ~again' PROVE Alone'
<1>1. CASE UNCHANGED vars
  BY <1>1 DEF vars, Alone, OneOpen, OwnAnswer, Latest
<1>2. ~GivesUpOnReply /\ ~PollFails
  BY DEF GivesUpOnReply, PollFails, NoFault
<1>3. CASE TaskEnds
  <2>1. /\ session' = "over" /\ waiting' = FALSE
        /\ UNCHANGED <<answer, post, asked, spent, seen, accepted, again, got>>
    BY <1>3 DEF TaskEnds, EndWait
  <2>2. OneOpen'
    BY <2>1 DEF Alone, OneOpen
  <2>3. OwnAnswer'
    BY <2>1 DEF Alone, OwnAnswer
  <2> QED BY <2>2, <2>3 DEF Alone
<1> QED BY <1>1, <1>2, <1>3, SentAlone, SessionAlone, PostAlone, AnswerAlone DEF Next, SessionStep

LEMMA InitAlone == Init => Alone
BY DEF Init, Alone, OneOpen, OwnAnswer

\* With no fault, and until a person answers a question a second time, an ask
\* call returns only an answer that was written for its own question, though the
\* answer does not name one (manager.py, answer).
THEOREM OwnAnswerOnly == Spec => []AnswersItsQuestion
<1> DEFINE I == Typed /\ (EveryReplyInTime => Pace)
           J == NoFault /\ ~again => Alone
<1>1. Init => J
  BY InitAlone
<1>2. I /\ J /\ [Next]_vars => J'
  <2>1. NoFault => EveryReplyInTime
    BY DEF NoFault, EveryReplyInTime
  <2> QED BY <2>1, NextAlone, AgainStays, FaultsStay DEF NoFault
<1>3. J => AnswersItsQuestion
  BY DEF NoFault, Alone, OwnAnswer, AnswersItsQuestion
<1> QED BY <1>1, <1>2, <1>3, AlwaysPaced, PTL DEF Spec

=============================================================================
