# TermPaws: specifications, model checks and proofs

TermPaws is a terminal manager with a language-model agent. A **daemon** on the managed machine
owns pseudo-terminals and background jobs; a **backend** (FastAPI) connects to daemons, runs one
agent session per item, schedules tasks and talks to chat platforms through a robot plugin; a
**frontend** shows the rest. This directory specifies the parts of it in which threads, timers,
event-loop callbacks and crashes meet, checks them with TLC and proves the most important
invariants with TLAPS. Source paths below are relative to the repository.

1. [Inventory](#1-inventory)
2. [Modules](#2-modules-and-how-they-correspond-to-the-code)
3. [Runs](#3-what-the-runs-check)
4. [Fairness](#4-fairness)
5. [Proofs](#5-proofs)
6. [Divergences](#6-where-the-code-and-what-is-said-of-it-differ)
7. [What is not modelled](#7-what-is-not-modelled)
8. [Plan](#8-plan)

## 1. Inventory

In the tables, *hard* is what a test would hardly reach; the hazards in `PROJECT.json` give the
line for each.

| Component | State it keeps | Operations | Talks to |
|---|---|---|---|
| Turn coordinator (`agent/turn_coordinator.py`) | per key a FIFO of tokens, one active lease, one condition variable | `acquire` (blocks), `acquire_async` (polls), `release`, cancel, `reset` | session consumers, HTTP chat handlers |
| Agent session (`agent/session.py`, `agent/stream_manager.py`) | bounded input queue, state, abort flags, the batch being answered, the stream batch | `process_input`, the consumer loop, turns with LLM calls and tools, `abort`, `shutdown`, debounce timer | turn coordinator, tickets, job feedback |
| Background job feedback (`agent/mcp/local_server.py`, `agent/input_merge_buffer.py`) | a worker thread per job, the merge buffer | poll, busy test, park, evict, flush, sweep | daemon jobs, session, tickets |
| Scheduled tasks (`agent/scheduled_tasks.py`) | one JSON file per task under one lock | write, delete, claim, dispatch, finish, recover | session, robot plugin |
| Daemon job runner (`daemon/src/service/job_runner.py`) | active jobs, finished results, child processes | start, cancel, reap, store, poll | child processes, backend pollers |
| Reply tickets and watchdog (`agent/reply_ticket.py`, `agent/task_watchdog.py`) | tickets, aliases, their rows in SQLite | create, supersede, mark, deliver, prune, close stale, restore | session, robot, web chat |
| Daemon terminals and rooms (`daemon/src/service/terminal_manager.py`, `room_manager.py`, `socket_service.py`, `api/socket_routes.py`) | PTYs with their threads, the table, tokens, rooms and their members | start, stop, connect, disconnect, the threads' ends | backend sockets, browsers |
| Backend connections (`services/terminal_service.py`, `services/connection_pool`, `services/socket_pool`) | requests under way, one socket per item and its handler | start, stop, restart, restore, request with timeout, join, reconnect | daemon, streams |
| Robot dispatch (`plugins/robot/service.py`) | bounded queue, workers, merge buffer, pending replies, active jobs, a controller per conversation | park or enqueue, work, follow up, reap, sweep | session, platforms |
| Pending terminal commands (`agent/session.py`, `pending_context.py`, `log_manager.py`) | the command a session waits for, recheck timer, log cursor | send, recheck, consume the log, time out | terminal, session |
| Everything else | see section 7 | | |

What makes each of the modelled ones correct, and what is hard about it:

* **Turn coordinator.** One turn per handler at a time, in the order of the requests, whatever
  gives up; no waiter sleeps through its chance. *Hard:* blocking threads and polling coroutines
  share one line; a poller leaves from its head; a lease outlives a `reset`.
* **Agent session.** An input is refused, withdrawn or answered, once; a running turn looks
  busy to everybody who asks; an abort stops LLM calls. *Hard:* the consumer takes from the queue
  without the lock that merging at its tail holds; an abort falls between drain, `_begin_turn`
  and the handler's lease; several senders share one turn.
* **Job feedback.** Each result reaches one turn, one ticket or a named loss; a parked result has
  somebody to come for it. *Hard:* busy test and parking are two steps; three threads drain one
  buffer; aborted turns skip their flush.
* **Scheduled tasks.** One run of a task at a time; a once task is run, and finished once.
  *Hard:* crashes between claim and callback, a failing save in the middle of a claim, rewrites
  of a running task, a session that loses the input.
* **Job runner.** A completed job has no process and its own exit code; a cancel that was
  acknowledged is reported; each poller gets an answer. *Hard:* every job's thread reaps all
  children; cancels and timeouts race the exit; a job is in neither table for a moment.
* **Reply tickets.** A ticket shown as delivered was told to its source, also after a restart;
  nobody's failure is dropped without a word; no ticket stays open. *Hard:* `deliver` sends
  between two critical sections; superseding, late marks and the watchdog write over what others
  are doing; the creator stores what it has read before.
* **Terminals, rooms and connections.** Table, token, room and listeners change together; the
  only live shell is the one `terminal/stop` reaches; when the daemon calls the backend connected
  somebody listens; a start that succeeded has the backend's socket in the room, and a socket
  that lost its connection comes back to it. *Hard:* a shell ends while it is being started;
  sockets vanish before the daemon notices; requests time out while their answers are on the way;
  two threads make the same socket.
* **Robot dispatch.** An accepted message is answered, waits, or is dropped by a rule, and never
  twice; of two turns of one conversation one at most may answer; frozen workers are replaced.
  *Hard:* a message arrives between two looks of a worker; a job is neither queued nor active for
  a moment; a follow-up drains first and may fail; a reaped worker comes back.

## 2. Modules and how they correspond to the code

| Module | Models | Composes |
|---|---|---|
| `TurnCoordinator` | the coordinator and its callers | implements `TurnLock` |
| `TurnLock` | *abstract:* a first-come-first-served lock per key | |
| `AgentSession` | queue, stream batch, consumer, turn, abort, removal | implements `InputPipe` |
| `InputPipe` | *abstract:* what a sender of inputs can count on | |
| `JobFeedback` | workers, merge buffer and flushers | extends `AgentSession`, implements `InputPipe` too |
| `ScheduledTasks` | task files, scheduler, runs, crashes | instantiates `InputPipe` as its session |
| `JobRunner` | daemon threads, children, cancels, pollers | |
| `ReplyTickets` | tickets, their stored rows, callers, watchdog, crashes | |
| `DaemonTerminals` | one item's terminals, room and listeners on the daemon, among any clients | |
| `TerminalService` | the backend's requests, sockets and callers | extends `DaemonTerminals`, implements its `DaemonNext` |
| `RobotDispatch` | one conversation: handlers, controller, workers, follow-ups, reaper and sweep | |
| `...Proofs` | theorems and their lemmas (section 5) | extend their modules |
| `MC...` | the values of constants that a cfg cannot write | extend their modules |

The pieces meet at promises: `AgentSession` is shown to implement `InputPipe`, also with job
results as one more sender (`JobFeedback`), and `ScheduledTasks` uses `InputPipe` in its place, so
that the scheduler is checked against every session that keeps the promise. `AgentSession`'s
`AcquireLease` stands for the wait that `TurnCoordinator` models. `JobFeedback` polls what
`JobRunner` stores; its `JobFinishes` is the end of the `Poll` or `GiveUp` there. The daemon's
terminals are a module by themselves, with arbitrary clients, and `TerminalService` drives that
module: the property `DaemonSteps` says that it does so by steps the daemon can take.

**TurnCoordinator.** `queue` and `active` are `_queues` and `_active`; `pc` tells where a caller
is (`check` and `asleep` inside `acquire`, `poll` inside `acquire_async`). Each action is one
critical section of the condition variable. `Notified` is `notify_all`; it wakes waiters of all
keys, as there is one condition. That the line is first come, first served is what `TurnLock`
says. There the turn of the caller in front is granted at once; a poller that gives up before it has
noticed gives that turn back, which is `Forfeit`.

**AgentSession.** A queue cell carries the set of inputs merged into it and the reply ticket
(*route*) it is bound to. The position of each input is in `at`: `outside`, `marked` (terminal output
for which `process_stream` has made the session look busy), `collected` (in the stream batch), `bare`
(a batch of nothing but prompts, which becomes no input), `looking` (in a thread inside `_merge_terminal_queue_input`), `queued`, `taken`,
`done`, or one of the ways to be lost, `rejected` (queue full), `crashed` (an `IndexError`),
`missed` (merged into a cell nobody reads again), `cleared` (by a user). The session lock is held
across steps in one place only, between the emptiness test and the merge, and `LockFree` guards
every action that takes it. An iteration of a turn is `BeginIteration`, which tests the abort flag, and
then, in steps of their own, what no longer does: the request to the LLM (`RequestLLM`), its
retries (`RetryLLM`, `MaxAttempts` of them, 3 in the code), and the reply, which is a choice between
`CallTools`, `Answer` and `EndWithoutAnswer`; the last also stands for deadlines, errors and tool
results that end a turn. `left` is the number of requests that were past the flag when the turn was
aborted. A plain text, prompts, persona checks and tool results are abstracted.

**JobFeedback.** `hand[f]` is what a flusher has drained and not enqueued. The flushers are the
workers, the consumer at the end of a turn, and the watchdog's sweep, which calls in regardless
of a busy session (`robot/service.py:sweep_pending_conversations`).

**ScheduledTasks.** `task` is the file; `running` is the mark in it. `run[e]` follows one
`execution_id` from the claim (`claimed`) through `process_input` (`sent`) and the end of the turn
(`ended`) to its callback (`over`). The clock is an integer; intervals and daily tasks are both
`repeat` with a `Period`. One claim numbers all due tasks at once; `Numbering` is any assignment
of fresh ids to them.

**JobRunner.** `thread[j]` follows `_run_job_impl` and `run_job`; `process[j]` is the child as the
kernel sees it (the direct child: its descendants are not followed), and `Collected` is what `Popen.poll` makes of it (a child somebody else has
reaped counts as 0). `Waited` is `_reap_zombies`. A restart of the daemon forgets threads and
tables and leaves children alone.

**ReplyTickets.** `table` is `_tickets`, `stored` the rows of the state store. A step is one
critical section of the manager's lock, or what is done between two of them: `deliver` is
`Deliver` (which may refuse, or finalize an answer already reported), `Send` or `SendFails`, and
`MarkDelivered`; a creation is `Create` (prune, supersede, insert), `ReadForSave` and
`SaveCreated`. What a turn sends on another way is `Tell`: of the send tool the session reads only a
summary, so that a text may be *claimed* and not sent. Every write and deletion goes through `Store`,
which may swallow any of its rows and remembers their tickets in `missed`; a restart reads what is
there, rows left behind with the age they were written with, or nothing (`LoadFails`). Ages are the three classes the code tells apart (fresh, older than the watchdog's
limit, older than the table's). The watchdog judges from a snapshot (`Judge`) and acts later.

**DaemonTerminals and TerminalService.** Terminals are numbered, and a terminal's token is its
number. A step is what a handler does on the event loop until it is suspended; `loop` names the
terminal whose start blocks the event loop (`TerminalProcess.start`). A start fails in two ways:
`StartFails` after the fork or before it, `CreateFails` when `create_terminal` raises with the dead
terminal out of the table already. A reader ends with its shell (`ReaderEnds`) or fails over a live
one (`ReaderFails`), in which case it marks it as stopped itself, or its thread dies and the watchdog
does (`WatchdogMarks`). A socket is
`free`, `up`, or `cut` and not noticed; `members` are the room's subscribers as the daemon counts
them, `inroom` those the socket server would send to, `listen` what the pool names, and
`leaving` the sockets `close_terminal_connections` has still to close. On the backend, `pc`
follows a caller through `start_terminal`, `stop_terminal` and `restore_running_terminal`; `mail`
are the requests of the main connection in order; `sock` are the `ItemSocket` objects, of which
the table names one.

**RobotDispatch.** One conversation. A handler looks twice for a running dispatch: `Peek` (and
`PeekQueue`) before it logs the message (`WriteLog`, history `logged`) and, after downloads and
lookups, again before it parks or enqueues it; `free` are the messages whose handler found nobody busy
at the first look. A follow-up drains the whole buffer and shows the session the last
`BatchLimit` messages of it (5 in the code); it may be refused by the session's full queue unnoticed
(`FeedRefused`), fail in a way that brings the batch back, or raise before its dispatch is guarded
(`FollowUpFails`), which loses it. The controller is a record of the hold, the window, the
sleep and, for the generation numbers that are only compared for equality, the set of dispatches
that hold the present one. `pc` follows the handler of each message, each worker and the
watchdog. `turns`, `fed` and `lost` are histories of what became of a message. Deadlines pass
when they like and are noticed by who looks, as in the code. Requeueing and clearing, returning
and clearing, asking for permission and clearing are one step each.

## 3. What the runs check

| Run | Instance | Properties | Shows |
|---|---|---|---|
| `turn_coordinator` | 2 blocking and 2 polling callers, 2 keys, 1 reset | `TypeOK`, `MutualExclusion`, `LeaseHasRunningTurn`, `NoLostWakeup`, `OnlyHolderReleases`, `WaiterIsServed`, `ImplementsTurnLock` | turns of a key exclude each other; a stale lease frees nobody else's; no starvation of blocking callers; up to a reset the lock is first come, first served (refinement with its liveness) |
| `session_safety` | 2 chats with tickets, 2 outputs, queue of 2, 2 iterations of 2 attempts, 2 aborts, 1 removal | `AcceptedOnce`, `RunningTurnIsBusy`, `AbortIsHeeded` | nothing duplicated or dropped between queue and batch; a running turn looks busy; an aborted turn starts no further iteration |
| `session_fanout` | the same inputs, no abort | `EveryMergedRouteServed` | *violated*, section 6 |
| `feedback_settles` | 1 output, 2 jobs (one without a ticket), queue of 2, buffer of 1, 1 abort, sweep | `ResultOnce`, `ParkedHasFlusher`, `ResultSettles`, `ImplementsInputPipe` | a result is in one place; until somebody aborts it has a flusher even without the sweep, but behind a bare prompt; with it every result settles; every accepted input, of whichever sender, is processed or withdrawn |
| `tasks_overlap` | 2 tasks, 3 runs, 2 writes each, 1 crash, 1 failed save, lossy session, symmetry | `OneRunAtATime`, `OnceIsOnce`, `RunningHasRun` | runs of a task do not overlap; a once task finishes once; marks have runs behind them |
| `tasks_once` | 1 once task, 2 writes, 3 runs, 1 crash | `OnceTaskRuns` | every version of a once task that is enabled comes to the end of a run of its own, through a crash; of one rewritten while it ran only that it is switched off |
| `jobs_run` | 2 jobs, buffer of 1, cancels, timeouts, 1 restart, unreachable polls | `TypeOK`, `FinishedIsDead`, `EarlyCancelIsReported`, `PollerIsAnswered` | no process behind a completed job, cancels are reported, pollers end |
| `tickets_close` | 2 tickets of one conversation, 2 callers on the older one, 2 calls, 1 swallowed operation of the store, 1 crash | `DeliveredWasTold`, `StoreIsCurrent`, `NoSilentFailure`, `ReportIsKept`, `TicketCloses` | what counts as delivered was sent or claimed, in the table and in the store; the store is behind only with what it swallowed; a failure is told or its source knows; what was reported is not shown as failed by closing it; every ticket closes |
| `terminal_joins` | 1 user, 1 restorer, 2 starts, 2 requests, 2 sockets, 3 session ids, 1 failed start or reader, 1 fault (timeout, lost connection or crash) | `TypeOK`, `DaemonInStep`, `NoOrphanShell`, `ConnectedIsHeard`, `DaemonSteps`, `SuccessMeansJoined`, `DroppedSocketRejoins`, `StartJoins` | daemon and backend keep in step; reported success is real; a dropped socket comes back; the composed daemon steps as the daemon alone |
| `robot_races` | 3 messages (2 direct, alike), 2 workers, queue of 1, buffer of 1, batch of 1, 1 lapse, 1 freeze, 1 failed follow-up | `NothingVanishes`, `GivenOnce`, `OneMayReply` | no message vanishes but by a rule or a named failure; none is the input of two turns; one turn at most may answer |
| `robot_watch` | 2 messages, 1 job result, 1 worker and room for a replacement, 1 freeze, no failed follow-up | `QueueDrains`, `SweepRescues` | the queue drains in spite of frozen workers; the sweep starts a turn for what is parked beside a registered job |
| `robot_stranded` | 2 messages, no fault | `PendingIsAnswered` | *violated*, section 6 |

Several type invariants are the first conjunct of the safety invariant that needs them
(`AcceptedOnce`, `ResultOnce`, `OneRunAtATime`, `StoreIsCurrent`, `NothingVanishes`).

**The bounds, and why they are enough.** Two blocking and two polling callers contain each pair
of kinds in both orders, with one to spare in front; two keys show that the shared condition wakes
the right ones. A session queue of two makes "full", "tail to merge into" and "empty" all happen
with three inputs; two attempts are a request past the test of the abort
flag and its retry; two aborts reach the state of section 6 that `RunningTurnIsBusy` excepts, and
let `AbortIsHeeded` and `AcceptedOnce` be checked behind it. A merge buffer of one makes the
second job evict the first; one terminal output besides keeps the session busy, is merged with a
result, and fills the queue. Three runs of two tasks let one task run twice while another runs;
two writes are the original and a rewrite. Two jobs contain the interference between threads
(reaping, eviction with a buffer of one). Two tickets of one conversation let the second
supersede the first; callers work on the first only, and only its row is lost (`Used`), since tickets meet in nothing but
superseding, pruning and the watchdog's pass; the store fails once (`MaxLapses`), before the second
call (`SteadyFrom`), so that a later write can make good what was lost. Two terminals are one and its restart; two sockets
suffice for two threads that each make one, three session ids for both and a reconnection; the
fault kinds are explored one at a time, a failed start, create or reader beside any of them. A robot queue of one (50 in the code) and a buffer of one
(10) make "full" and eviction happen with three messages, and two workers (2 to 8) are enough for
a frozen one and its replacement or two turns at once. A batch of one (5) takes less than a buffer that
has got a message back from a follow-up and one more besides. The direct messages of `robot_races`
are interchangeable, which its symmetry says; the runs of liveness have none. Larger values are covered by the
theorems, where there are any. Counters of aborts, resets, crashes, faults, writes, restarts,
uses, requests, starts, lapses, freezes and the clock are bounded in the guards by constants of
the same name.

Deadlock is checked in `turn_coordinator`, `session_fanout` and `feedback_settles`. Elsewhere
the system of the model may stop: a removed session ends its consumer; requests, messages, uses,
starts and the clock are bounded, and when all are used up nothing is left to do.

## 4. Fairness

* `TurnCoordinator`: threads and polling tasks that can run do (`Claim`, `Sleep`), and a turn ends
  (`Release`), since LLM calls have timeouts and `release` is in a `finally`. Nobody must ask,
  give up or reset.
* `AgentSession`: the consumer thread, a thread inside `process_stream` or `queue_input`, the debounce
  timer and an abort that has begun go on. Of a turn it is only assumed that it does something
  (`TurnGoesOn`): a request to the LLM returns or times out, and its retries and iterations are
  bounded, as in the code. Nobody must send an input.
* `JobFeedback`: that of the session, and threads of workers; `SweptSpec` adds the watchdog's
  periodic sweep. `JobFinishes` has none: the poll may go on as long as it likes.
* `ScheduledTasks`: the clock ticks, the scheduler polls each second, dispatch threads and
  callbacks run, and a crashed backend is started again.
* `JobRunner`: threads and requests under way go on, and the timeout fires. `ChildExits` has
  none, so `PollerIsAnswered` rests on the timeout for children that never end.
* `ReplyTickets`: callers in the middle of a call go on, the creator stores its ticket, a crashed
  backend restarts (with the rows the store gives it, or none), and the watchdog does what it has
  decided. `Tick` and `Judge` are strongly
  fair: time passes, and a watchdog that looks at every ticket in each pass looks at this one,
  although each is disabled now and then (while something else is due). No call need be made.
* `TerminalService`: the daemon answers and its threads go on, some caller goes on as long as one can,
  and so does some socket, which does what its client library does (reconnect, hear what was sent).
  Starts, requests and faults are bounded, so that none is passed over for ever. Nobody must ask, no
  shell must end, nothing must fail.
* `RobotDispatch`: a handler that has begun goes on, and so do workers and the watchdog's periodic
  pass. A frozen turn (`Freeze`) need not thaw, no message must arrive, no deadline must pass.

## 5. Proofs

Proved by TLAPS for every value of the constants that satisfies the named assumptions. Each
invariant was first checked by TLC on the instances of section 3.

`TurnCoordinatorProofs` (from `CallersAssumption`: `NoToken` is no caller, and `BoundAssumption`):

* `TypeCorrect`: `Spec => []TypeOK`.
* `LeaseHasRunningTurnHolds`, `MutualExclusionHolds`. Neither property is inductive: mutual
  exclusion needs to know that a running turn is *named* by the table as long as nobody has reset
  it (`RunningIsNamed`). `LeaseInv` is `TypeOK`, `LeaseHasRunningTurn` and `RunningIsNamed`
  together; one step per action shows it inductive, and both properties follow.
* `NoLostWakeupHolds`: each action either notifies or leaves a sleeping caller unable to claim.
* `OnlyHolderReleasesHolds`: the action property, from `LeaseInv`.
* `IsFirstComeFirstServed`: every step of the coordinator is a step of `TurnLock` or leaves it as it
  is, which is `ImplementsTurnLock` without its fairness. `LineInv` adds to `LeaseInv` that who
  stands in a line waits for its key and stands there once; `BehindFront` moves what happens to the
  queue of waiting callers behind the caller whose turn runs, and from a reset on nothing happens.

`AgentSessionProofs` (from `InputsAssumption`, `SentinelAssumption`: `NoCell` is no cell, and
`BoundsAssumption`), for any inputs, routes and lengths of the queue:

* `AcceptedIsKept` (`AcceptedOnce`) through `CellInv`: queue and batch are sequences of cells with
  disjoint loads, which are exactly the inputs that `at` says are queued and taken; a held cell
  carries exactly the inputs whose threads are looking; and a tail that is held is still queued, or
  taken by a consumer that has not begun its turn. Cardinalities are avoided until the end, where
  `CountCells` turns disjointness into a count. `AppendCell`, `TakeCell` and `MergeCell` say what
  the three operations on cells do.
* `RunningTurnShows` (`RunningTurnIsBusy`) through `TurnInv`: with no abort begun the state of a
  turn is "running", with one it is that or "interrupting", and an abort under way is one not yet
  counted.
* `AbortStopsCalls` (`AbortIsHeeded`), also through `TurnInv`: inside a turn, `stopped` implies the
  abort flag, and while a call is past its test of the flag `left` is what that call has left.
* `SessionIsAPipe`: the initial states map to those of `InputPipe`, and each step to a step of it
  or a stutter. `Shown` maps places to what a sender sees, and `MoveIsAPipeStep` is the common
  argument: a set of inputs that moves from one place to another is one abstract step.

`JobFeedbackProofs` (adds `JobsAssumption` and `MaxParkedAssumption`), on top of the above:

* `ResultsAreKept` (`ResultOnce`) through `PlaceInv`: buffer and hands hold no result twice, and
  each job's result is with its worker, or parked, or in one flusher's hand, or in the session, and
  never in two of them. `SplitResults` is the lemma on eviction: what is kept and what is evicted
  are disjoint and together are what was there.
* `ParkedResultsAreFetched` (`ParkedHasFlusher`), for `JobSpec` and for `SweptSpec`, through
  `CalmInv`: undisturbed by aborts and removal, the state says "running" exactly while the consumer
  is in a turn, and "collecting" only with terminal output that was marked, is on its way or was no more
  than a prompt; hence a result is parked only while a turn's end, or a worker's second look, is
  still to come, or behind a bare prompt.
* `FeedbackIsAPipe`: the session with its job results takes steps of `InputPipe` as well.

`ScheduledTasksProofs` (from `BoundsAssumption`):

* `TypeCorrect`, through `TypeInv`, which also says that an enabled entry was written and has a
  time.
* `RunsDoNotOverlap` (`OneRunAtATime`) through `OverlapInv`: of a task that was not rewritten while
  it ran there is one live run at most (`Alone`), its mark is set or its file is gone
  (`LiveMarked`), a stopped backend has no live run, and no run is of a version yet to be written.
* `OnceTasksRunOnce` (`OnceIsOnce`) through `OnceInv`: a live run of the present version of a once
  task is the only one, has nothing finished before it, and keeps the task from being claimed.
* `RunningMarksAreTrue` (`RunningHasRun`): inductive beside `TypeInv`.

`JobRunnerProofs` (from `BoundsAssumption`):

* `TypeCorrect`, with the bound of the result buffer. `PrunedIsPart` says what the prune leaves:
  a sequence of at most `MaxFinished` of the ids that were there, so that the store that follows
  exceeds the bound by one.
* `ProcessesAreGone` (`FinishedIsDead`) and `EarlyCancelsCount` (`EarlyCancelIsReported`), through
  `JobsInv`: typing, and for each job `JobInv`, which follows a job through its thread. Its result
  is stored last (a job in the buffer has a thread that is over); once the loop has ended the
  process is gone and a code is known; a cancel acknowledged early is in the table until the last
  look at it, and in the thread's flag from then on. `TerminateOnlyEnds` is what cancels and
  timeouts may do to a process.

`ReplyTicketsProofs` (from the four assumptions of `ReplyTickets`), for any tickets, callers and
conversations:

* `TypeCorrect`.
* `AnswersAreTrue` (`DeliveredWasTold`) through `TruthInv`: whoever is about to mark a ticket has
  told its source something, or had the send tool claim so (`CallersTold`), and table, store and the
  creator's payload show an answer only for such tickets. `StoreFacts` says what a step of the store
  may do to a row: it is written, or stays what it was and is remembered as missed; a stale row is
  true as well, since what was told stays told (`ToldGrows`, `StoreStaysTrue`).
* `NoFailureIsSilent` (`NoSilentFailure`) and `ReportsAreKept` (`ReportIsKept`): the action
  properties, from `TruthInv` and the types.
* `StoreKeepsUp` (`StoreIsCurrent`) through `CurrentInv`, which says of each ticket what is known of
  it by whether its creator has stored it (`Kept`) or is still about to (`Saving`: nobody uses it,
  it is as created or closed by others), and that a stopped backend knows of none. `Kept` excepts the
  tickets in `missed`, whose last write or deletion was swallowed; nothing else has to be excepted. `CurrentFrame`
  deals with the tickets a step leaves alone.

`TerminalServiceProofs` proves of the daemon (from `SidAssumption`, `BoundAssumption`), for any
clients:

* `DaemonTypeCorrect`, and `DaemonStaysInStep` (`DaemonInStep`), the conjunction of
  `TokenOfTerminal`, `LiveHasRoom` and `Heard`, each inductive with the types.
  `TokenOfTerminal` needs that the table names the terminal created last or none (`TableIsLatest`): a
  `CreateFails` leaves the token of that one.
* `NoShellIsOrphaned` (`NoOrphanShell`) needs `AliveIsLive`: a shell that lives and was started to the
  end belongs to a terminal whose status counts as live, or whose reader gave up on it. So only those
  whose start was cut short or whose reader failed are left behind when a next terminal is started
  (`CanStartLeavesNone`).
* `ConnectedIsReallyHeard` (`ConnectedIsHeard`) through `PooledIsHeard`: the socket the pool names
  is in the room for the socket server, was not released, and is a member when there are members.

and of the composed service (adds `ObjAssumption`, `CallerAssumption`: the threads that restore are
no users, and `UsersAssumption`: there is one user at most, as the calls that start, stop and restart
block the backend's event loop and are served one after the other; restorers and sockets are any):

* `DaemonIsDrivenWell` (`DaemonSteps`): each step of the composed service maps to a step of
  `DaemonNext` or leaves the daemon's variables alone. A crash of the backend and the loss of a
  connection are `Cut`s; what has to be known for this is only the types (`SocketTypes`).
* `ComposedDaemonKeepsItsWord`: with it, what is proved of the daemon under arbitrary clients is a
  fact of the composed system, at any number of callers, sockets and requests.
* `ServiceTypesCorrect` (`TypeOK`): among the types, that a request whose caller waits is under way
  for it, and a start the daemon works on is the oldest request.
* `SuccessIsJoined` (`SuccessMeansJoined`), the action property, through `JoinInv`. A caller told of
  success has looked at a socket which said it runs; that this socket is in the room follows from
  `In`, which is kept for the socket of the table while no user cleans up after a stop
  (`EntryIsIn`), and for the one a caller waits on under the present token (`AwaitedIsIn`). It needs
  that connections have sids of their own (`SocketsOK`), that a user who cleans up after a stop
  finds no newer terminal (`StopIsFinal`), and that what a crashed backend has asked is served
  before anything its successor asks (`Quiet`). A timeout breaks the last, as an answer may then
  meet the next request; the property is stated without timeouts and failed starts.

`RobotDispatchProofs` (from the four assumptions of `RobotDispatch`: `Workers` is finite, and messages,
results, threads and `NoJob` are different things), for any messages, results, workers, lengths of
queue and buffer, and bounds on lapses, freezes and faults:

* `OneTurnAnswers` (`OneMayReply`) through `HolderInv`: of messages and follow-ups at most one holds
  the generation. The property speaks of turns on their way only; the invariant speaks of all, and
  `HolderStep` shows that a step adds the result of a job, empties the holders or names one alone.
* `EachTurnOnce` (`GivenOnce`) and `NoMessageVanishes` (`NothingVanishes`), both through `PlaceInv`:
  each message and each result is in at most one place, each message in some place, of six (outside,
  queue, buffer, a worker before its turn, a follow-up's hand, done with); no list holds one twice.
  There is a lemma for each step that moves something (`ParkStep`, `EnqueueStep`, `TakeStep`,
  `GuardStep`, `RequeueStep`, `DrainStep`, `FeedStep`, `LoseStep`, `ReturnStep`), one for steps that move nothing
  (`Unmoved`), and under them what appending, joining, splitting and selecting do to lists without
  repetitions. `Selected` is a recursive function rather than `SelectSeq`, which the provers know
  nothing of; `PickedExists` shows by a least counterexample that the recursion defines something. The
  clause of `GivenOnce` on the .log needs `LogInv`: what is logged was logged by a handler that found
  nobody busy, or is done with.

Only model-checked:

* Liveness (`WaiterIsServed`, `OnceTaskRuns`, `ResultSettles`, `PollerIsAnswered`, `TicketCloses`,
  `DroppedSocketRejoins`, `StartJoins`, `QueueDrains`, `SweepRescues`), the fairness part of the
  refinements, and `ENABLED`: out of the prover's reach.
* `ImplementsTurnLock` and `ImplementsInputPipe` as a whole: their initial states and steps are
  proved, their fairness is not.
* `EveryMergedRouteServed` and `PendingIsAnswered`: the code breaks them (section 6).

## 6. Where the code and what is said of it differ

With a run of its own:

* `session_fanout`. A batch of inputs from several senders is merged to an input of type
  `TERMINAL`, but the fan-out over `merged_ticket_ids` is made for plain chats only: the earlier
  senders get no answer. `session.py:561-562` says delivery fans out per route.
* `robot_stranded`. The sweep promises "no active LLM turn + pending input -> start a turn"
  (`robot/service.py:493-496`), but it looks only at conversations with a registered reply
  (504-509) and skips the chat scope of the merge buffer (538-539). A message parked after the
  worker's last drain (899-906) and before its job is untracked (477-478) waits until the next one
  of its conversation comes.

Seen with TLC while modelling, where the present runs state the property with an exception:

* Terminal output that is no more than a prompt makes the session look busy (`stream_manager.py:374`),
  but its batch becomes no input (285-288, 202-208): the session stays collecting until other output
  comes, and a job result parked meanwhile waits for the sweep, against "nothing waits artificially"
  (`local_server.py:1540-1543`). `ParkedHasFlusher` excepts it.
* An abort does not stop the LLM call it finds under way: `_call_llm` makes its remaining attempts
  without looking at the flag (`session.py:2996-3028`), and so does a call whose test of the flag
  (2325, 2614) came before the abort. `AbortIsHeeded` allows these requests and no others.
* A robot-send tool call "counts as a real delivery unless the result is an explicit error"
  (`session.py:3316-3319`), but the summary of a send to several targets counts too
  (`robot/internal_trace.py:131-137`) when every target has failed or none was the ticket's source
  (`robot/mcp/server.py:1150-1179`): the ticket is marked as delivered, and a later report of its
  failure is refused. `DeliveredWasTold` and `NoSilentFailure` take such a claim for an answer.
* The state store is "best-effort" (`state_store.py:8`): a write, deletion or load that fails is logged
  and swallowed, and a restart then reads a stale ticket, or none. `StoreIsCurrent` excepts the
  tickets of such a failure until they are written again.
* When `create_terminal` raises (`socket_routes.py:352`, `terminal_manager.py:169-179`), the dead
  terminal has been removed (347) and its token has not: sockets that show it are admitted to a room
  without a terminal, and the request gets no answer but its timeout.
* A reader that fails over a live shell (`terminal_manager.py:395-399`), or whose thread has died
  (341-354), marks the terminal as stopped, and the next `terminal/start` removes it without killing
  the shell (`socket_routes.py:345-347`), though 346 logs it as dead. `NoOrphanShell` excepts it.
* A `connect()` on a socket that another caller has brought up raises and marks the socket as broken
  (`item_socket.py:83-118`): it stays in the room and hears the terminal, but takes no commands, and
  later starts raise on it again. `StartJoins` allows this end of the race (`Spoilt`), and asks for
  the socket's service otherwise.
* A message that will be parked is not written to the .log before its follow-up, or the running turn
  would answer it early and the follow-up again (the comment at `robot/service.py:1265-1267`). But the
  busy test that decides about the
  log (1268) and the one that decides about parking (1443) are two, with downloads and lookups between.
  A message logged at the first and parked at the second is in the context of the running turn and in
  the follow-up, and the guard of a worker may put a logged one back as well; one that was busy at the
  first and free at the second is never logged, as the log is appended to in two places only (1274,
  2034). `GivenOnce` says that nothing but the first of these two breaks the rule.
* Of a batch longer than five the older messages are never shown (`robot/service.py:1900`, 51), while
  the buffer keeps ten (`input_merge_buffer.py:35`); a full queue of the session refuses a batch
  silently (`session.py:1942-1945`; `robot/service.py:2122-2134` returns True); an exception between
  drain and dispatch (1934-1975) loses the batch. `NothingVanishes` lists these losses.
* An abort made while the session is idle marks the *next* turn as aborted for the purpose of the
  flush (`session.py:3357`, 2000), so a turn nobody aborted leaves parked results to the sweep.
  `local_server.py:197-199` says that no conversation's results can be stranded by another's turn.
* When the session drops the input of a run (full queue, user's abort), nobody clears the running
  mark (`scheduled_tasks.py:582`): the task is skipped until it is rewritten or the backend
  restarts, and the tools show it as running.
* `_reap_zombies` waits for any child (`job_runner.py:680`), so it collects the status of other
  running jobs, which then report exit code 0; `docs/MCP_TOOLS.md:21` and 24 promise the exit code.
* Two threads that find no socket each make one and register an input handler
  (`socket_manager.py:58`); `daemon_initializer.py:329` speaks of avoiding duplicate subscribers.
* The thread that waits for the backend sets a terminal's status to running without looking
  (`terminal_manager.py:245`): one whose shell has ended meanwhile stays "running", and
  `terminal/start` answers `already_running`; `terminal_runtime_state.py:38-47` takes the status
  for the truth.
* A socket found disconnected connects again with the token it was made with
  (`socket_manager.py:66`): after a lost connection and a restart of the terminal it is refused for
  good, while `terminal_service.py:84` asks the user to try starting again.
* Two aborts of one turn: the second finds it interrupting and sets the session idle under the
  running turn (`session.py:3359-3362`). `RunningTurnIsBusy` is stated until the second abort.
* "Failure reports always go through" (`reply_ticket.py:763`) is more than `deliver` does: a report
  is refused on a ticket that another delivery has closed meanwhile. `NoSilentFailure` is what
  holds.
* A message may be sent although a newer one took over, or be refused although nothing is newer:
  a job is invisible between get and tracking (`robot/service.py:454-458`), so that a second turn of
  its conversation starts (against 500 and 3437); `_release_processing_hold` (3483-3491) and the
  sleep of a turn without reply take the hold of a newer dispatch; and a batch fed to the session's
  queue is no active dispatch for `mcp/server.py:852-867`, which then refuses its sends.

Also read, with no property of their own: a merge at the tail can raise `IndexError` or add text to
a cell nobody reads again; an input for a full queue is dropped without the caller hearing of it; a
rewrite of a running task allows a second run beside the first, whose end then switches the new
version off; a cancel between the last look at the flag and the unregistering is acknowledged and
not reported; a poll between unregistering and storing loses a job; the reaper's docstring
(`robot/service.py:557-559`) says it clears the controller and reports the timeout, which
`_record_job_timeout_silent` does not; `enqueue_background_job_result` never gets its
`pending_reply_id` from its caller (`hooks.py:437-455`).

## 7. What is not modelled

The map in `PROJECT.json` covers under a tenth of the repository's implementation lines, although most of the
code in which threads, locks and crashes meet is modelled. The rest is not of a kind that a state
machine would say something about: of the robot plugin, the local server, the session and the web
chat it is prompts, message formats, arguments of tools and their wording; the memory is ranking
and search; platforms and bridges are adapters over I/O; most of the backend's other modules are
one database transaction per request. Modelling those lines would restate them.

Components left out:

* **Pending terminal commands** (`session.py:1390-1620`, `pending_context.py`, `log_manager.py`).
  What one would state is false of the code and promised by no document, or nearly so: a
  recheck left over from an earlier command cancels the timer of a newer one, which is then never
  looked at (`session.py:1454-1468`); after an abort of an idle session the flag stays set, and the
  next command gets no timer (1455); output that comes between sending a command and
  `_set_pending_command` (`chat.py:1758`) is not fed back, although `local_server.py:1999-2008`
  promises it with the next round; the cursor is read and advanced around the read of the log
  (1604-1617); truncation of the log leaves the cursor behind its end; a busy command with an echo
  does not time out (1536-1556); a timeout and a turn may both answer.
* **Turns of the web chat** (`chat.py`). They take the lease of `TurnCoordinator`, and what is
  theirs is the order of prompts and events. Read there: an abort made while the request waits for
  its lease is erased (1069); a retry after an empty answer publishes the empty one first; the
  stream of an input that was refused ends by its timeout of 180 s only; the abort path leaves its
  ticket to the watchdog.
* **Agent, tools, MCP servers, memory, knowledge, skills, prompts, filters**: content, chosen freely
  by the environment of `AgentSession`.
* **Robot bridge and platforms, terminal WebSocket plugin**: adapters over I/O; their limiter and
  connection tables are sequential.
* **State store**: single rows of SQLite; what a crash leaves of them is in `ScheduledTasks` and
  `ReplyTickets`.
* **HTTP API, accounts, migrations**: one database transaction per request; the concurrency is the
  database's.
* **Monitors, file service, plugin loading**: sequential, tested.
* **Frontend, packaging, deployment**: no state the properties speak of.

Within modelled components:

* Jobs: the age limit of results, heartbeats, output lines, pids. The session: the turn guard's call
  budget. The wording of everything.
* Tickets: those of web chats and terminals, which are never superseded or finalized; aliases, which
  nothing adds; plans; the watchdog's memory pass.
* Terminals: browsers' sockets (they join beside the backend's under tokens of their own), the log
  and the output cache, the daemon's `terminal/restart` (the backend sends stop and start),
  `unregister_all_by_item`, the loss of the main connection, the event bus. The hazard of
  `add_subscriber` calling `create_room` under its lock is not reachable, as every caller has made
  the room before; the exit broadcast by the item's id only labels a message.
* Robot: commands of the chat, several conversations that share the queue, the controller's removal
  after six hours (3548), a robot or item deleted under a job, windows of no length, and the cap of five replies a task may have. Idle workers take jobs in a fixed order, as they do not differ.

## 8. Plan

Done, in the order of the first plan: the turn coordinator, session, feedback, scheduled tasks, job
runner, reply tickets, terminals with the backend's connections, robot dispatch; and proofs of every
property that is not liveness. What would come next:

1. An abstract specification of the robot's dispatch (a message is accepted, then given to one turn,
   to the session, or dropped), of which `PlaceInv` already has the states, and its simulation.
2. The same for `ReplyTickets`: a ticket as its source sees it, told or not.
3. Pending commands, once the code decides what they promise: a recheck that names its command
   would make "each dispatched command is looked at until it is answered" worth stating.
4. Several conversations in `RobotDispatch`, for the order in which a shared queue serves them.
