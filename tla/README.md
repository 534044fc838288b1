# Specifications of joshua-addons

TLA+ modules of the parts of joshua-addons where order, time and failure decide
whether the program is right, the TLC runs that check them on small instances,
and theorems that TLAPS checks for every instance. This directory stands beside
`src/`, and every path below is relative to it.

    tlasany TaskManager.tla                          # parse
    tlc -workers 2 -config manager.cfg TaskManagerMC.tla
    tlapm TaskManagerProofs.tla

`PROJECT.json` lists the components, the runs, the lines each definition
models, the hazards of the code and the theorems.

## 1. The system

joshua-addons is a set of small MCP servers that an assistant calls for the
people of a household.

| Component | State | Operations | Hard behaviour |
|---|---|---|---|
| developer: manager (`developer/joshua_developer/manager.py`, `locks.py`, `store.py`) | task rows in SQLite; in memory the lock table, the tasks being gated and the answer events | `develop`, `rework`, `answer`, `record_report`, `ask`, `stop_wait`, `recover` | one asyncio process; every await is a point where other calls, supervisors and workers act; memory is lost on a restart and the rows are not |
| developer: runtimes (`runtime.py`, `runtime_docker.py`, `runtime_k8s.py`) | containers, or Jobs with their pods; one supervisor for each | start, watch, kill, remove, remove orphans | a supervisor races the worker's own report, a resume and a restart; the API can fail |
| developer: worker API (`worker_api.py`) | none: the token finds the row | brief, ask, answer, stop, log, report, a forwarder to the Claude API | requests of a worker that is no longer the current one; bodies that come late |
| developer: notify, platforms, scan | none | events to channels, calls to the git host, a scan of a diff | calls that fail with their effect done; one retry |
| developer: git proxy (`git_proxy.py`) | the heads a connection has sent | a tunnel to the git host of one task | a credential that comes only after a challenge; a task that ends meanwhile |
| developer-worker (`main.py`, `session.py`, `manager_client.py`, `clock.py`, `git.py`) | a clone, a clock that pauses, the total of its waits, the lines of the session log and how many were sent | checkout, session, log, ask, push, report | retries of calls that still run, a time limit that has to end before the manager's |
| vinyl | SQLite: albums, loans, corrections, tags; a JSON bundle | nightly sync, add, remove, lend, correct, identify | the sync reads a collection, works on it for minutes and then deletes what it did not see |
| pantry | SQLite: items, aliases, purchases, consumption, derived inventory | record, consume, merge, rename, delete, import | derived rows that must follow every change; same-day rows; merges |
| mcp (`wiki.py`, `search.py`) | a wiki and a journal on disk, with git behind them; in memory the index of the search | write a page, write an entry, read, search | threads on shared files that people and core change too; a file is replaced and then committed; an index that must not keep old text |
| hello, charts, scripts | none | an example, deployment, releases | none |

How they interact: a person calls the developer's MCP tools; the manager
writes a row, takes a lock and starts a worker through a runtime, which also
starts a supervisor task. The worker reads its brief, works, asks questions
(worker API → manager → channels → person → `answer`), pushes through the git
proxy, and posts one report. Report, supervisor and restart all end in
`record_report` or in `recover`, and only those free the lock. vinyl, pantry
and mcp have no calls to each other or to the developer.

What makes each part correct:

* manager and runtimes: at most `max_workers` tasks at a time and one to a
  branch; the lock table agrees with the rows; a status that is final stays so;
  the report in a row is that of its own worker; no worker can push for a task
  that ended; every task ends; its end reaches the chat.
* questions: an answer reaches the question it was written for, is not lost,
  wakes the poll; the pause of the clock opens and closes with the wait; every
  ask returns.
* clock: the push and the report fit before the kill; the waits keep to their
  total; nothing outlives the hard cap.
* gate: no pull request with a commit that was not scanned; at most one pull
  request; only an own branch is deleted.
* pantry: no recorded line is lost or doubled by merges, same-day entries and
  renames; a name leads to one item; a bar code belongs to one item; the derived
  row follows every call.
* vinyl: a sync that runs alone leaves the shelf as the collection is, whatever
  came before it; a record of the collection keeps its row; the page follows
  each call; notes, tracklists, loans and corrections survive every sync.
* session log and tunnel: the log of a run has no gap; what the worker counts as
  sent is there; the last flush ends; git of an active task gets through.
* mcp: a search ranks what the pages held while it ran; a reply that says
  committed is true; a call ends whoever has the repository, and holds no lock
  then.

The hazards behind these properties are in `PROJECT.json`, each at its line.

## 2. The modules

| Module | Models | Composed with |
|---|---|---|
| `TaskLifecycle` | what the manager promises its callers: a task begins, ends closed or resumable, begins again | abstract; implemented by `TaskManager` |
| `TaskManager` | rows, locks, the gate as one await, starts, workers, supervisors, events and restarts, for Docker and Kubernetes | `INSTANCE TaskLifecycle WITH phase <- …, runs <- run` |
| `TaskManagerMC` | instances for TLC | extends `TaskManager` |
| `TaskManagerProofs` | theorems, the refinement among them | extends `TaskManager` |
| `WorkerSession` | the session log from the worker to the row, the tunnel of git, over the runs of a task | the log route that `TaskManager` leaves out; it takes from it that a run ends and another begins |
| `WorkerSessionMC`, `WorkerSessionProofs` | an instance, theorems | extend `WorkerSession` |
| `AskAnswer` | a question from the session to the person and back | the row's columns that `TaskManager` leaves out |
| `TaskClock` | the clock of the worker and the columns of the manager, with time | the deadline that `TaskManager` lets come at any time |
| `PushGate` | the branch, the pushes of the workers, the gate's calls to the git host | the gate that `TaskManager` has as one await; it takes from it that one task has the lock |
| `Pantry` | the tables of the pantry, every call that changes items, names, purchases, products or events, and the recalculation after it | stands alone |
| `PantryMC` | names, receipts and batches for TLC | extends `Pantry` |
| `VinylSync` | the collection at Discogs, the tables and the page of the vinyl addon; the nightly sync and the tools that change a record, a loan or a correction | stands alone |
| `VinylSyncMC` | two records of one artist for TLC | extends `VinylSync` |
| `WikiWrites` | the pages and the journal on the disk, the git repository behind them, the index of the search; the tools that write and search, beside core, people and stops | stands alone |
| `WikiWritesMC` | a page and an entry of the journal for TLC | extends `WikiWrites` |
| `AskAnswerProofs`, `TaskClockProofs`, `PushGateProofs`, `PantryProofs`, `VinylSyncProofs`, `WikiWritesProofs` | theorems | each extends its module |

Operators marked `\* Mutated:` are not part of the model. Each is a plausible
bug in the definition below it, which the property named for it in
`PROJECT.json` must refute: that shows that the property depends on the code.

### TaskManager

An action is a stretch of code between two awaits.

* **Tokens.** A resume mints a new worker token, so the number of a run stands
  for the token of its worker; `Authorized` is the token check of the worker
  API and `IsActive` that of the supervisors. A job `<<t, r>>` is the worker of
  run `r`.
* **Start.** `Dispatch` and `Resume` check, take the lock and write the row in
  one stretch; `Spawn` is the container or Job; `StartReturns` gives it its
  supervisor; `StartFails` is the except branch of `_start_worker`, which
  writes `failed` and frees the lock.
* **Reports.** `RecordReport` is `record_report`: ignored when the row is final
  or being gated; a report with a push goes into the gate (`gate[t]`), which
  ends in `GateDone` or, when a git host's reply cannot be read, in
  `GateRaises`. The event is sent by a step of its own (`SendReport`).
* **Supervisors.** `SeesExit`, `Deadline`, `Stop`, `SupervisorReports`,
  `SupervisorFails` and `Remove`. Docker checks the token where it records;
  Kubernetes checks it before it awaits the log and the end of the pod
  (`Decide`), and may find the Job ended by its own deadline, which it reports as
  `timed_out`. A call of the runtime's API may raise at any of these stages, the
  removal included, which then leaves the worker. The deadline may pass at any time: when it does is the matter of
  `TaskClock`. A removal may come before the report is sent on, which the code
  orders the other way: the model has more behaviours there, never fewer.
* **Restart.** Memory is lost, active rows fail, Docker removes its orphans
  before the first call, Kubernetes asks for their deletion; `Serving` is false
  until the recovered reports are sent, because the lifespan does that before
  the MCP server serves.
* **Faults.** `runtime_api`, `git_host` and `late_body` are switched by the
  constant `Faults`.
* **Left out.** `StubRuntime`, manifests and images, the log route (it is in
  `WorkerSession`), the parsing of a repository, persona or pull request.

### WorkerSession

`lines`, `sent` and `closed` are the fields of `SessionLog`; `flush` is the end
of the chunk that is being sent, taken before the await. `wire` holds the
requests under way: the worker may give one up (`GivesUp`) or be cancelled
(`SessionEnds`) while the manager still reads it, so `BodyArrives` may come late
and out of order, and `Replied` finds a worker that waits for another place or
for none. `Append` is `append_log`: after the first text that does not fit,
`full` drops all later ones until the run ends. `Head` and its neighbours are
one connection of git through the tunnel, with its `MAX_ATTEMPTS` heads;
`HeadFails` is a head that is late, too long or for another place, which closes
it whatever the task is: `ActiveIsServed` is about the credential. A
request whose task ended while its body was read is dropped, unless
`LateBodies`: the code does not ask again, and with the constant TRUE the model
shows what comes of it. A resume begins when the worker before is gone, as
Docker has it. The bytes of the first n lines are a constant (`SizeUpto`), and one
line may be longer than a chunk.

### AskAnswer

The handlers of the manager are cut at their awaits and go on when the client
has given up, so two handlers of one question may overlap: the client reads for
30 s and sends a question up to four times, while a send to channels may take
105 s. `event` and `fired` are the asyncio events of `_answer_events`; a poll
holds the event it found. An answer is the number of the question it was
written for, which the code does not record. The person may answer any question
they have seen, as often as they like, one that has its answer too: `answer`
stores what comes for the question that is open. `AnswersItsQuestion` therefore
has two conditions, that no fault happens and that nobody answered a question
again after its answer was accepted (`again`, history); without the second TLC
refutes it with no fault at all. The task may end at any
time (`TaskEnds`). An `answer` to an ended task is `Resume` in `TaskManager`.
The variable `faults` is chosen at the start and says which faults may
happen, so one run covers every set of them.

### TaskClock

Time is counted in units. `Delay`, `SendTime` and `PollTime` bound how long a
call, a send and a poll of the worker take, `Watch` a turn of the supervisor's
loop and `StopTime` its kill: a step that is due is taken before `Tick` lets more
time pass (`WorkerIsDue`, `SupervisorIsDue`). Under `hangs` the worker is free of
its limits. Nothing stops the time at a deadline: the supervisor looks at the
row's columns at moments of its own (`Check`, which is `Deadline.check`), what it
sees is kept (`verdict`), and the worker goes on until the kill is done (`Kill`).
A wait is counted in whole seconds (`end_wait`), so each may be `Rounding` more
or less than it was. The worker starts its clock a little before the manager
does; the model starts both with the brief, which is the less safe choice.

### PushGate

One branch; each run makes at most one commit, named by the run. `Diff` is the
compare from `clone_head` to the branch, `Scan` reads it and finds a credential
when a commit in it has one. Every call may fail with or without its effect, the
worker's push too (`PushUnseen`: the branch has the commit and the report says
that the push failed), and `again` is the second attempt of `retry_5xx`; `find_or_open` starts from the
find, as a whole. `Lost` is a worker or a manager that dies before the report is
recorded. People delete or make the branch between runs. The patterns of the
scan, partial diffs and paging are abstracted: a diff is complete.

### Pantry

The committed tables are one record, `db`; an operator such as `Merged(d, s, t)`
or `Imported(d, b)` says what a call makes of it, as a set that is empty when
the call raises and is rolled back. The transaction of a call is one step.
After it the touched items are recalculated one by one, and each recalculation
is a read and a write with an await between (`RecalcReads`, `RecalcWrites`).
`call` has two slots: without the fault `overlap` the second stays free; with
it a second call runs inside the first, between a read and a write of the
recalculation or between the look-up of a name and the writes that rest on it
(`RecordLooks`, `RecordWrites`). That gap is modelled for `record_purchase`;
the other calls have one too, and either the keys of the tables refuse what comes
of it or it has the effect of one modelled here.

`kept` and the names in a purchase (`filed`) are history: which lines were
recorded, and under which name each must be found. A line that a person deletes,
or whose alias a person removes, leaves them.

A name is a value and the fuzzy rule a relation, `Similar`. A line that the
fuzzy rule files under an item of another name counts as filed under the item's
name: `KeepsName` says nothing of the line's own wording. A time that carries an
offset is taken as its UTC time. A product is a bar
code; products with a sku only, categories, stores, costs, quantities and notes
are left out. The row of an item is what it was computed from: the average and
the estimate are functions of the times of the purchases. Times are half days,
so that a bare date, stored at midnight, differs from a time on that date. A
call that uses the clock may find any time. Ids come after the largest, as in
SQLite.

### VinylSync

The sync runs in a thread and each tool in its call, on connections of their
own, so an action is what a job does from one request, commit or file to the
next; `pc` is the stage a job is at. `Sync` reads the corrections once
(`scan.overrides`), takes the collection page by page as it stands at each
request, stores a row for each item, deletes what it has not seen, fetches each
release, and writes the bundle. `Locked` is the write lock of SQLite: a
sort-name that is cached opens a transaction which stays open through the
downloads until the row is committed, and `LockTimesOut` is a writer that has
waited too long. `LockTimesOut`, `CallFails`, `SyncFails` and `Crash` cut a
job short where the code can be; what was committed stays.

A row is what the properties tell apart: where its sort-name comes from (the
credit, MusicBrainz or a correction), its section, and whether it has a note.
`RefileAlbums` reads and updates in one step: in the code a row that another job
stores between the read of all rows and its update is filed by the older
sort-name, which no property of an overlap speaks of. A
section follows the sort-name unless a correction gives the record its own.
`alone` is history: it is true of a job while nothing else runs and the owner
changes nothing on the web site.

Left out: a second sync that a person starts from the command line beside the
nightly one (the two share no guard); genres (a third kind of correction, filed in the same way as a
section), tags, the log of suggestions, the result of a sync in `meta`, the
Notes field at Discogs, and a rules file that cannot be read at the start. The
reads of albums and loans for a page are one step, the detail files are written
in one step, and each file is replaced at once: that two writers share a
temporary file (`bundle.py:101`) is outside the model.

### WikiWrites

Each tool runs in a thread, so an action is one operation on the disk. A file is
its version, the number of changes of its path, and a state: text, no UTF-8, or
a frontmatter that cannot be parsed. A write is the hidden file
(`WritesTemp`), the replacement (`Replaces`) and the commit, which needs the
lock of the repository or is refused. A stop of the addon kills its git too,
which may have made its commit by then and may leave its lock (`Stale`); from
then on every commit is refused until a person removes the lock (`LockRemoved`),
which nobody need do. A search waits for the lock of
the index, then walks the paths one by one: it lists, takes the stamp, reads and
keeps the text under the stamp it took before (`Walks`, `Stats`, `Reads`),
removes what it has not met (`Prunes`) and ranks. `during` is history: what each
page held since the search began. People and core edit at any point, and the
nightly run of core commits everything.

Left out: the hidden file itself, which no call reads and the replacement moves
at once; the checks of a path and of a writer (a refused call changes
nothing), the scores, the read-only tools, `semantic_search` and the other calls
to core.

## 3. The runs

| Run | Instance | Shows | Distinct states |
|---|---|---|---|
| `manager` | two tasks of one branch, one with a resume, Docker, a git host whose replies cannot be read, one restart | `TypeOK`, `LockMatchesTask`, `OwnReport`, `WorkerHasTask`, `EndIsAnnounced`, `EndedStaysEnded`, and `ImplementsLifecycle`: each step is a step or a stutter of `TaskLifecycle` | 0.8 M |
| `manager_faults` | two tasks on two branches and one slot, Kubernetes, an API that fails and bodies that come late | `WithinCapacity`; with fairness `WatchedRunEnds`: only a supervisor that died of an error leaves its task active | 0.37 M |
| `ask` | two questions, each sent up to twice, every set of faults | `AnswersItsQuestion`, `NoLostWakeup`, `WaitFollowsAsk`, `AnswerIsKept`; with fairness `EveryAskReturns` | 0.44 M |
| `clock` | a limit of 3, a wait total of 7, a grace of 8, a rounding of 1, two questions, every set of faults | `FinishFits`, `WaitsWithinTotal`, `NeverPastCap` | 15.6 M |
| `gate` | two tasks, four runs, every set of faults | `OnePr`, `ScannedBeforePr`, `DeletesOwnBranch` | 0.95 M |
| `session` | two runs of up to three lines, two requests under way, a log that the second line fills, a restart | `NoGapInRun`, `SentIsKept`, `ActiveIsServed`; with fairness `LastFlushEnds` | 85 k |
| `pantry` | three names, three items, two days; four calls in a row, or three that may overlap; a crash anywhere | `TypeOK`, `NothingLost`, `KeepsName`, `NamesApart`, `StockFollows`, `ProductsOwn` | 1.1 M |
| `vinyl` | two records of one artist, whom the rules file corrects; a page holds one item; two calls, web changes or crashes in any place beside the sync | `QuietSyncSettles`, `PageFollows`, `OwnedKeepsRow`, `KnownStaysKnown`, `LoanStays`, `CorrectionsByHand` | 2.0 M |
| `wiki` | a page that changes twice and an entry of the journal, a caller that writes and one that reads, two edits by others, the nightly commit, one stop | `SearchIsCurrent`, `CommittedIsKept`, `NothingHeldAtRest`; with fairness `CallsEnd`: a call that has begun ends, whoever has the repository | 0.49 M |

The `TypeOK` of a module that no run lists says what its variables hold, and is
proved (`TypeCorrect`).

Three runs end in a counterexample. Each refutes a sentence of the repository,
quoted in `PROJECT.json` under `findings`:

* `resumed_report`: on Kubernetes the supervisor of a worker that ended checks
  the token, waits for the pod's log, and reports, by which time a resume may
  have put a new worker on the task.
* `supervisor_error`: a supervisor that meets an error of the runtime's API
  goes without a report, and the task and its lock stay.
* `vinyl_dropped`: the correction of an artist whom MusicBrainz was never asked
  about is dropped, and the records stay filed by it.

**Conditions.** Some properties say under which faults they hold. What TLC
finds when the condition is taken away:

* `TaskManager`: a late body breaks `OwnReport` as Kubernetes does; a restart
  loses an event that was due (`EndIsAnnounced`); a git host's unreadable reply
  leaves a task active for good, with its supervisor done (`EveryRunEnds`,
  `WatchedRunEnds`), which is why `manager_faults` has no such fault; on
  Kubernetes a restart leaves workers of tasks that ended (`WorkerHasTask`).
* `AskAnswer`: a person who answers a question a second time while the next one
  is open breaks `AnswersItsQuestion` with no fault. Slow replies to the worker's questions break `AnswerIsKept`,
  `WaitFollowsAsk` and `AnswersItsQuestion`, and so does, for the last, a
  question that channels delivered and then refused.
* `TaskClock`: a question that channels refuse pauses the worker's clock only
  and breaks `FinishFits`. So do more questions than the grace has room for: each
  sets the manager's clock back by up to two delays, a send and a rounding.
* `PushGate`: a person who makes the branch anew between two runs breaks
  `DeletesOwnBranch`; a lost report breaks `ScannedBeforePr` as a refused compare
  does.
* `WorkerSession`: with `LateBodies` a chunk that comes after its task ended
  breaks `NoGapInRun`. Between two runs there may be a gap, since a resume
  discards the mark of a full log (`manager.py:910`); the property is of one run.
  A chunk over `MAX_LOG_CALL` is refused and built again longer, so nothing after
  it is ever sent; `SentIsKept` holds then too.
* `Pantry`: overlapping calls break `NamesApart` and `KeepsName` (two items of
  one name) and `StockFollows` (an older reading written last); a crash before the
  recalculation breaks `StockFollows`, which is of items with a purchase: the row
  of an item whose last purchase was deleted stays (`inventory.py:100`). A batch
  in which an alias is the name of an earlier entry breaks `NamesApart`: tofu, then
  banana with the alias tofu, is accepted, and the item tofu hides the alias. The
  batches of the run have none (`AliasesApart`, which TLC evaluates); an alias may
  be the name of a later entry. An entry that the fuzzy rule gives to another
  item, with an alias, is accepted once and refused the second time, against
  `docs/import.md`.
* `VinylSync`: the properties about rows, page and filing are of jobs that run
  alone: a sync deletes an album that was added after it read its page, misses
  one that a removal moved to an earlier page, files by corrections that have
  changed since, and the older of two pages may be written last.
  `KnownStaysKnown`, `LoanStays` and `CorrectionsByHand` hold for every overlap.
* `WikiWrites`: every change has a stamp of its own; two changes of one size
  within the resolution of the file system's clock would leave the older text in
  the index. A page that is deleted between the walk and its stat keeps its entry
  for one search more (`skipped`). A page with a date that cannot be one makes
  every search raise until somebody changes it. A commit that meets another is
  refused, and the reply says so: the page is on the disk and the next commit of
  that page takes it up. After a stop that left the lock of git every commit is
  refused; the calls end all the same. The reply's `overwritten` is read before the write
  (`wiki.py:326`) and is not modelled.

**Bounds.** Two tasks are enough for a lock, a slot or a branch to be
contended; a second run of one of them gives every earlier run something to
interfere with; one restart may come at every point. Two questions and two
posts are enough for an old answer, an old event and an overlapping handler.
In `clock` the grace covers the calls and roundings (`Grace >= MaxAsks * (2 *
Delay + SendTime + Rounding)`) with nothing to spare, and the wait total is long
enough that a wait which the kill time left out would be fatal. Four runs of two tasks give a branch that is made,
refused, resumed, deleted and made again. `Outcomes` is cut to two statuses in
the larger runs: one that can be resumed and one that cannot.
In `pantry` two names that the fuzzy
rule takes for one and a third, one bar code, three items and two days let
items be made, merged, renamed and meet on one day within four calls; an overlap
needs one call to prepare and two to meet.
In `session` two places let a request that was given up meet the one after it;
the second of three lines fills the log and the third would fit again, and two
runs let the end of one and a resume come between any two steps.
In `wiki` two paths let a search be ahead at one and behind at the other; the page
changes twice, so a reader between two writers, or a writer between two commits,
has an older and a newer text to tell apart; the second caller only searches, so two searches
meet at the lock of the index.
In `vinyl` two pages of one item let a copy move between pages, and two copies
of one release be on the shelf; one credit for both records lets a sort-name
that the sync caches file a record that a call adds. With two events a
correction can be dropped between two syncs, a record lent and then taken out
of the collection, or a crash come in the middle of a call.
`CHECK_DEADLOCK FALSE` stands in the configurations of systems that may stop: a
household may stop asking, and with the bounds reached nothing is left to do. In
`wiki` the nightly run comes again for ever, and deadlock is checked.

**Fairness.** `TaskManager`: a start returns or raises, a supervisor polls and
has a deadline, a kill, a gate and a send come to an end: each call of these has
a timeout. No person need call, no worker need exit or report, and no restart
need come. `AskAnswer`: a handler that runs comes to its end, a poll ends after
`poll_s`, the limit of a wait passes. No answer need come. `WorkerSession`: the
worker's process runs on, and a request that is under way is handled or its
connection breaks (both ends have timeouts); no reply need be a success.
`WikiWrites`: a call that has a step takes it, and git ends; the nightly run need
not end, nobody need remove a lock, and of the searches that wait for the index
none need be the one that gets it.

## 4. The proofs

Every theorem is for all values of the constants and rests on the module's
assumption about them (`ConstantsAssumption`, `AskAssumption` and so on) and on
nothing else, unless a condition is named. Eight modules hold proofs. Every
invariant and every action property of a passing run is stated by a theorem.

**`TaskManagerProofs`.** `TypeCorrect`, `LocksMatch` (`LockMatchesTask`, with
every fault and on both runtimes) and `CapacityHolds` (`WithinCapacity`).
`TypeOK` is not inductive: that an action of run `r` finds a row with at least
`r` runs is needed before the row's columns can be typed, so the first invariant
is `Typed`, which adds that a job with a worker, a start or a supervisor belongs
to a run that has begun (`RunBegun`). Locks and capacity then follow from
`RowSteps`: a step begins a run, ends one, marks one running, is a restart, or
leaves rows and locks alone.

Under `DockerAnswers` (Docker, whose API answers, and reports that come whole;
the git host may fail in any way) follow `DockerWorkers` (`WorkerHasTask`),
`DockerReports` (`OwnReport`), `EndStays` (`EndedStaysEnded`), `EndIsTold`
(`EndIsAnnounced`) and `ImplementsPromise` (`ImplementsLifecycle`). The
invariant is `DockerInv`: a container that starts, a gate that runs and a
supervisor that still has a report to make serve the current run
(`SpawnServesRun`, `GateServesRun` and the others), which a resume keeps because
it finds the task ended, and an ended task has no worker. From it `DockerSteps`
sharpens `RowSteps`: only an active task ends, and `pushed` changes with the end
of its own task. So a step maps to `Begin`, `Finish`, `Restart` or a stutter of
`TaskLifecycle`; the guard of `Begin` about branches is `LocksMatch`.
`resumed_report` shows that the condition cannot be dropped for Kubernetes.

**`AskAnswerProofs`.** `NoWakeupLost` with every fault: the event a poll waits
for is the current one or is set, and an answer sets it (`Wakes`). `WaitAgrees`
(`WaitFollowsAsk`) and `AnswerStays` (`AnswerIsKept`) with replies in time: then
each question is sent once, its one handler and the session move together, and
the wait is open from the one's await to the other's stop (`Pace`).
`OwnAnswerOnly` (`AnswersItsQuestion`) with no fault and nobody who answers a
question again: a question that is left without an answer has used the whole wait
total, so no other is sent, and the person has one question at most without an
answer while a wait is open (`Alone`).

**`TaskClockProofs`.** `CapHolds` (`NeverPastCap`, workers that hang included):
what the supervisor saw at its last look bounds the time of that look by the cap
(`LookedCaps`), and from there one turn and one kill are left. `WaitsEnd` (`WaitsWithinTotal`) and, under `GraceCovers`, `PushFits`
(`FinishFits`). No step of a worker lasts longer than its limit (`Timely`), so
waits and work stay within their totals (`Counted`, `InBudget`), but for what the
rounding of each wait adds (`Roundings`); each question
sets the manager's clock back against the worker's by `Lag` at most (`Behind`).
A deadline that the supervisor saw finds the session stopped for long enough
(`VerdictFits`, `Decided`), and the kill only comes later.
`GraceCovers` says that the grace has room for all those lags and for the last
wait where it passes the total. The instance of `clock` meets it with nothing to
spare. The code has no limit on the number of questions, so with more of them
than the grace covers the guarantee is gone.

**`PushGateProofs`.** `OnePrOnly`: a pull request is opened when none was found,
on the second attempt too (`FoundNone`). `ReadBeforeOpened` (`ScannedBeforePr`):
when no gate is cut short, every commit a checkout finds was read (`Covered`).
`DeletesOwn`: a resumable task that made the branch finds it as it left it, and
only its own gate deletes it, after which it is over (`MadeIt`).

**`WorkerSessionProofs`.** `SentKept`: what the worker counts as sent, and every
line before a request of this run, is in the log, or the log is full (`LogInv`).
`NoGaps`, with `LateBodies` FALSE: a request that is read is of the run under way
(`InTime`), so what it appends follows lines that are there. `ActiveServed`: a
connection sends a token at its second head at the latest. `TypeCorrect`: a worker
that waits for a reply has lines it did not send yet, so a request is of lines
that are there.

**`PantryProofs`.** The tables change in the lines of a call, so the theorems
rest on two inductions. Over the lines: `EachLeads` says that what holds of the
tables before the first line, and after a line if before it, holds when the call
is through (the property may differ from line to line). It is itself proved with
the least element of a set of numbers (`Least`), since an induction theorem that
takes a predicate is out of the provers' reach. Over the steps: the invariant is
`CallInv` (what a call under way has in hand), `TableInv` (`Sound` tables: types,
keys, products of their own; every kept line is `Held`), `NameInv` and `RowInv`.

* `NothingIsLost`, `ProductsAreOwn` and `TypeCorrect` for every overlap and crash:
  the sets `Fine(K)` hold the tables that are sound and have the lines `K`, and
  every way a call can go stays in them (`BuyKeeps`, `MergeKeeps` and the others).
  A merge joins or moves each purchase, and none is joined twice because an item
  has one purchase a day.
* `StockIsFollowed` with no fault: an item whose row does not follow is one that
  the call under way has yet to recalculate, from what it read (`RowInv`).
* `NamesAreApart` and `NameIsKept` without overlaps and under `AliasesApart`: a
  name has one item and is no alias (`Apart`), and each purchase is led to from
  its names (`Leading`). For a batch the property is of each line: before entry k
  no item has a name that the entries from k on have for an alias.

**`VinylSyncProofs`.** `KnownStays`, `LoansStay` and `CorrectionsStay`, for any
collection, any number of calls and every overlap: each step that writes an
album, a loan or a correction is one of a few, and none of them takes away what
the property keeps. Most of the work is to show that the record a job writes is
the one it was called for (`Typed`).

`QuietSync` (`QuietSyncSettles`), `PageIsFollowed` (`PageFollows`) and `OwnedStay`
(`OwnedKeepsRow`) are of a job that nothing overlaps, for any finite set of
releases and any page size. The invariant is `QuietInv`. While a job is alone the
others are idle (`AloneInv`), so each step is its own (`AloneStep`) and the
collection and the corrections are those it began with. Of a sync that is alone
the collection is what it has seen, what is left of the page and the pages to
come, and what it has seen has rows filed by the corrections (`ScanInv`); so when
it deletes, no page is left and the rows are the collection (`SettledInv`). A call
goes through the stages of what it was called for (`StageInv`) and has done it by
the time it reads the rows (`AnswerInv`), and what it reads and writes is what is
there (`PageInv`). `TypeCorrect` needs that a file which is not there is none that
is (`NoFileAssumption`).

**`WikiWritesProofs`.** `SearchCurrent`: what the index has of a path is a text
the path had, under a stamp no newer than it (`EntryInv`), and a search that has
passed a path has an entry of what the path held since it began (`SearchInv`).
`CommittedKept`: the version a call wrote is on the disk until a newer one is,
and a commit takes what is on the disk (`CommitInv`). `NothingHeld` follows from
the places a call may be at.

Only model-checked is liveness (`EveryAskReturns`, `WatchedRunEnds`,
`LastFlushEnds`, `CallsEnd`): TLAPS has neither fairness nor ENABLED.

## 5. Plan

Done: the modules of section 2 and the theorems of section 4. What could follow:

1. `Pantry`: costs and stores, and the status that a query computes from the row.
2. `VinylSync`: genres, the temporary file that two writers share, the throttle
   that the sync and the tools do not share.
3. `TaskManager` on Kubernetes: an invariant that holds there, beside
   `LocksMatch` and `CapacityHolds`. It is not `EndedStaysEnded` or
   `ImplementsLifecycle`: TLC refutes both with no fault but a git host's. The
   supervisor of the run before reports while a resumed run starts, which ends the
   task, and a start that fails then writes the end anew.

## 6. Not modelled

* Settings, the parsing of repository names and personas, manifests, images: a
  function of their input, read once (`config.py`, `repos.py`).
* The forwarder to the Claude API and the pipe of bytes behind the tunnel: they
  keep no state, and what they do when a task ends is to stop.
* The patterns of the credential scan, the paging of diffs, the fuzzy rule of
  names and the scores of a search: they are text. The models take what comes of
  them as a relation or a choice.
* vinyl's queries, facets, identification and the client of MusicBrainz, and
  pantry's queries: read-only. Of MusicBrainz the models have that it answers or
  does not.
* The frontend, static files, migrations, charts, release scripts and `hello`:
  no behaviour over time.
