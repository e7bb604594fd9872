------------------------------ MODULE AgentSession ------------------------------
(***************************************************************************)
(* One AgentSession (backend/app/services/agent/session.py): the bounded   *)
(* input queue of an item, its single consumer thread, the turn it runs on *)
(* each drained batch, and the users' aborts.                              *)
(*                                                                         *)
(* An input is used once.  A queue cell carries the inputs merged into it  *)
(* at its tail, and one turn answers the whole batch it drained.  Routes   *)
(* are the reply tickets inputs are bound to when they are enqueued.       *)
(***************************************************************************)
EXTENDS Naturals, Sequences, SequencesExt, FiniteSetsExt

CONSTANTS
    Inputs,          \* the inputs sent to the session
    KindOf,          \* the InputType of each input
    RouteOf,         \* the reply ticket of each input, or NoRoute
    NoRoute,
    NoCell,
    MaxQueue,        \* MAX_QUEUE_SIZE
    MaxIterations,   \* MAX_ITERATIONS: LLM calls of one turn
    MaxAttempts,     \* the requests _call_llm makes for one of them
    MaxAborts,       \* bound on the aborts explored
    MaxShutdowns     \* 1 when the session may be removed, 0 otherwise

Kinds == {"chat", "terminal", "scheduled_task"}

(* A queue cell: the inputs it carries, merged, and what binds them.       *)
Cells == [kind : Kinds, route : Range(RouteOf) \cup {NoRoute}, load : (SUBSET Inputs) \ {{}}]

ASSUME InputsAssumption == KindOf \in [Inputs -> Kinds] /\ DOMAIN RouteOf = Inputs
ASSUME SentinelAssumption == NoCell \notin Cells
ASSUME BoundsAssumption ==
    /\ MaxQueue \in Nat \ {0}
    /\ MaxIterations \in Nat \ {0}
    /\ MaxAttempts \in Nat \ {0}
    /\ MaxAborts \in Nat
    /\ MaxShutdowns \in {0, 1}

VARIABLES
    state,        \* SessionState
    queue,        \* input_queue
    abortFlag,    \* _abort_flag
    abortedTurn,  \* _aborted_this_turn
    shutdown,     \* _consumer_shutdown
    consumer,     \* where the consumer thread is
    batch,        \* the cells it drained
    calls,        \* iterations of the running turn, an LLM call each
    attempts,     \* requests made for the LLM call under way
    at,           \* where each input is
    holding,      \* the cell of a thread inside _merge_terminal_queue_input
    tail,         \* the load of the queued cell it found to merge into, or {}
    aborter,      \* where the abort request is
    aborts,       \* aborts so far
    stopped,      \* history: the running turn was aborted after it began
    left,         \* history: the requests that abort could not take back
    answered      \* history: routes that got the answer of a turn

sessionVars == <<state, queue, abortFlag, abortedTurn, shutdown, consumer, batch,
                 calls, attempts, at, holding, tail, aborter, aborts, stopped, left,
                 answered>>

States == {"idle", "collecting", "running", "interrupting", "cooldown"}

Cell(S) ==
    LET i == CHOOSE j \in S : TRUE
    IN  [kind |-> KindOf[i], route |-> RouteOf[i], load |-> S]

(* The inputs carried by a sequence of cells.                              *)
Loads(cells) == UNION {cells[n].load : n \in DOMAIN cells}

In(place) == {i \in Inputs : at[i] = place}

Moved(S, place) == [i \in Inputs |-> IF i \in S THEN place ELSE at[i]]

Init ==
    /\ state = "idle"
    /\ queue = <<>>
    /\ abortFlag = FALSE
    /\ abortedTurn = FALSE
    /\ shutdown = FALSE
    /\ consumer = "idle"
    /\ batch = <<>>
    /\ calls = 0
    /\ attempts = 0
    /\ at = [i \in Inputs |-> "outside"]
    /\ holding = NoCell
    /\ tail = {}
    /\ aborter = "ready"
    /\ aborts = 0
    /\ stopped = FALSE
    /\ left = 0
    /\ answered = {}

-------------------------------------------------------------------------------
(* Enqueuing.  queue_input holds the session lock from its first look at   *)
(* the queue to its put; the consumer takes from the queue without it.     *)

LockFree == holding = NoCell

(* put_nowait: the cell goes to the tail, or the queue is full, a warning  *)
(* is shown and process_input ignores the refusal.                         *)
RoomForOne == Len(queue) < MaxQueue

Put(cell) ==
    IF RoomForOne
    THEN /\ queue' = Append(queue, cell)
         /\ at' = Moved(cell.load, "queued")
    ELSE /\ at' = Moved(cell.load, "rejected")
         /\ UNCHANGED queue

(* A terminal input joins the last queued cell of its own kind and route.  *)
Mergeable(cell) ==
    /\ Last(queue).kind = "terminal"
    /\ Last(queue).route = cell.route

MergedLoadNew(old, new) == new

(* The text of the tail is extended, not replaced.                         *)
MergedLoad(old, new) == old \cup new

(* queue_input up to its first effect: a chat or task input, or a terminal *)
(* input that finds the queue empty, is put; otherwise the thread goes on  *)
(* to look at the tail, still under the lock.                              *)
QueueInput(cell) ==
    /\ LockFree
    /\ IF cell.kind = "terminal" /\ queue # <<>>
       THEN /\ holding' = cell
            /\ at' = Moved(cell.load, "looking")
            /\ UNCHANGED queue
       ELSE Put(cell) /\ UNCHANGED holding

(* _merge_terminal_queue_input after its emptiness test.  The consumer may *)
(* have taken the last cell meanwhile: queued_items[-1] is then an         *)
(* IndexError, and the input is lost with the thread that carried it.      *)
LookAtTail ==
    /\ holding # NoCell /\ tail = {}
    /\ \/ /\ queue = <<>>
          /\ at' = Moved(holding.load, "crashed")
          /\ holding' = NoCell
          /\ UNCHANGED <<queue, tail>>
       \/ /\ queue # <<>> /\ Mergeable(holding)
          /\ tail' = Last(queue).load
          /\ UNCHANGED <<queue, at, holding>>
       \/ /\ queue # <<>> /\ ~ Mergeable(holding)
          /\ Put(holding)
          /\ holding' = NoCell
          /\ UNCHANGED tail
    /\ UNCHANGED <<state, abortFlag, abortedTurn, shutdown, consumer, batch, calls, attempts,
                   aborter, aborts, stopped, left, answered>>

Merged(cells) ==
    [n \in DOMAIN cells |->
        IF cells[n].load = tail
        THEN [cells[n] EXCEPT !.load = MergedLoad(@, holding.load)]
        ELSE cells[n]]

(* A drained cell still takes text until its batch is merged; the cell of  *)
(* a batch of one is the turn's input itself, and the turn waits for the   *)
(* lock.  Text added to a cell whose batch is merged already is missed.    *)
BatchStillOpen == consumer = "drain" \/ Len(batch) = 1

MergeIntoTail ==
    /\ tail # {}
    /\ \/ /\ tail \subseteq Loads(queue)
          /\ queue' = Merged(queue)
          /\ at' = Moved(holding.load, "queued")
          /\ UNCHANGED batch
       \/ /\ tail \subseteq Loads(batch) /\ BatchStillOpen
          /\ batch' = Merged(batch)
          /\ at' = Moved(holding.load, "taken")
          /\ UNCHANGED queue
       \/ /\ tail \subseteq Loads(batch) /\ ~ BatchStillOpen
          /\ at' = Moved(holding.load, "missed")
          /\ UNCHANGED <<queue, batch>>
    /\ holding' = NoCell
    /\ tail' = {}
    /\ UNCHANGED <<state, abortFlag, abortedTurn, shutdown, consumer, calls, attempts,
                   aborter, aborts, stopped, left, answered>>

(* A chat, scheduled or terminal input handed to process_input.            *)
SendInput(i) ==
    /\ at[i] = "outside"
    /\ QueueInput(Cell({i}))
    /\ UNCHANGED <<tail, state, abortFlag, abortedTurn, shutdown, consumer, batch, calls, attempts,
                   aborter, aborts, stopped, left, answered>>

(* Terminal output waits in the stream manager's batch first; the session  *)
(* is marked as collecting unless a turn is running or the output answers  *)
(* a pending command.                                                      *)
MarkCollecting(i) ==
    /\ at[i] = "outside"
    /\ KindOf[i] = "terminal" /\ RouteOf[i] = NoRoute
    /\ LockFree
    /\ state' \in {state, IF state \in {"running", "interrupting"} THEN state ELSE "collecting"}
    /\ at' = Moved({i}, "marked")
    /\ UNCHANGED <<tail, queue, abortFlag, abortedTurn, shutdown, consumer, batch, calls,
                   attempts, holding, aborter, aborts, stopped, left, answered>>

(* Only then, under the batch's own lock, does the output join the batch:  *)
(* a bare prompt is stripped to nothing.                                   *)
Collect(i) ==
    /\ at[i] = "marked"
    /\ at' \in {Moved({i}, "collected"), Moved({i}, "bare")}
    /\ UNCHANGED <<tail, state, queue, abortFlag, abortedTurn, shutdown, consumer, batch, calls,
                   attempts, holding, aborter, aborts, stopped, left, answered>>

Collected == In("collected")

(* The debounce timer: the stream batch becomes one terminal input.  A     *)
(* batch of bare prompts becomes none and leaves the session as it was     *)
(* marked, collecting.                                                     *)
FlushStream ==
    /\ Collected # {}
    /\ QueueInput(Cell(Collected))
    /\ UNCHANGED <<tail, state, abortFlag, abortedTurn, shutdown, consumer, batch, calls, attempts,
                   aborter, aborts, stopped, left, answered>>

-------------------------------------------------------------------------------
(* The consumer thread.                                                    *)

(* The test of _consumer_shutdown, after the wake-up event or its timeout. *)
Wake ==
    /\ consumer = "idle"
    /\ IF shutdown
       THEN LockFree /\ consumer' = "exit" /\ state' = "idle"
       ELSE consumer' = "armed" /\ UNCHANGED state
    /\ UNCHANGED <<tail, queue, abortFlag, abortedTurn, shutdown, batch, calls, attempts, at, holding,
                   aborter, aborts, stopped, left, answered>>

(* get(): the first one for at most 0.1 s, the others for at most 0.3 s.   *)
Take ==
    /\ consumer \in {"armed", "drain"}
    /\ queue # <<>>
    /\ batch' = Append(batch, Head(queue))
    /\ queue' = Tail(queue)
    /\ at' = Moved(Head(queue).load, "taken")
    /\ consumer' = "drain"
    /\ UNCHANGED <<tail, state, abortFlag, abortedTurn, shutdown, calls, attempts, holding, aborter,
                   aborts, stopped, left, answered>>

(* The timeout of the first get: back to waiting.                          *)
FindNothing ==
    /\ consumer = "armed"
    /\ queue = <<>>
    /\ consumer' = "idle"
    /\ UNCHANGED <<tail, state, queue, abortFlag, abortedTurn, shutdown, batch, calls, attempts, at,
                   holding, aborter, aborts, stopped, left, answered>>

(* The timeout of a later get ends the batch, which becomes one input.     *)
CloseBatch ==
    /\ consumer = "drain"
    /\ queue = <<>>
    /\ consumer' = "begin"
    /\ UNCHANGED <<tail, state, queue, abortFlag, abortedTurn, shutdown, batch, calls, attempts,
                   at, holding, aborter, aborts, stopped, left, answered>>

(* _begin_turn clears the abort flag.                                      *)
BeginTurn ==
    /\ consumer = "begin"
    /\ LockFree
    /\ state' = "running"
    /\ abortFlag' = FALSE
    /\ stopped' = FALSE
    /\ left' = 0
    /\ calls' = 0
    /\ attempts' = 0
    /\ consumer' = "lease"
    /\ UNCHANGED <<tail, queue, abortedTurn, shutdown, batch, at, holding, aborter,
                   aborts, answered>>

FlagClearedByTurn == FALSE

(* The handler's turn is claimed (see TurnCoordinator), which leaves the   *)
(* abort flag as an abort during the wait has set it.                      *)
FlagAfterClaim == abortFlag

AcquireLease ==
    /\ consumer = "lease"
    /\ consumer' = "turn"
    /\ abortFlag' = FlagAfterClaim
    /\ UNCHANGED <<tail, state, queue, abortedTurn, shutdown, batch, calls, attempts, at, holding,
                   aborter, aborts, stopped, left, answered>>

(* What _merge_input_batch makes of a batch of several cells: a terminal   *)
(* input whose ticket is the latest one bound.                             *)
Bound(cells) == {n \in DOMAIN cells : cells[n].route # NoRoute}

PrimaryRoute(cells) ==
    IF Bound(cells) = {} THEN NoRoute ELSE cells[Max(Bound(cells))].route

(* The routes the final answer goes to.  Only the plain chat path fans out *)
(* to merged_ticket_ids, and a merged input never takes that path.         *)
ServedRoutes(cells) == {PrimaryRoute(cells)} \ {NoRoute}

AllRoutes(cells) == {cells[n].route : n \in Bound(cells)}

(* The tests at the head of an iteration.                                  *)
MayCallLLM == calls < MaxIterations /\ ~ abortFlag

BeginIteration ==
    /\ consumer = "turn"
    /\ MayCallLLM
    /\ calls' = calls + 1
    /\ attempts' = 0
    /\ consumer' = "call"
    /\ UNCHANGED <<tail, state, queue, abortFlag, abortedTurn, shutdown, batch, at, holding,
                   aborter, aborts, stopped, left, answered>>

(* A request to the LLM, which no longer looks at the abort flag.          *)
RequestLLM ==
    /\ consumer = "call"
    /\ attempts' = attempts + 1
    /\ left' = IF stopped THEN left - 1 ELSE left
    /\ consumer' = "reply"
    /\ UNCHANGED <<tail, state, queue, abortFlag, abortedTurn, shutdown, batch, calls, at,
                   holding, aborter, aborts, stopped, answered>>

MayRetry == attempts < MaxAttempts

(* A transient error: _call_llm sleeps and tries again.                    *)
RetryLLM ==
    /\ consumer = "reply"
    /\ MayRetry
    /\ consumer' = "call"
    /\ UNCHANGED <<tail, state, queue, abortFlag, abortedTurn, shutdown, batch, calls,
                   attempts, at, holding, aborter, aborts, stopped, left, answered>>

(* The reply asks for tools, or is sent back for correction: next round.   *)
CallTools ==
    /\ consumer = "reply"
    /\ consumer' = "turn"
    /\ UNCHANGED <<tail, state, queue, abortFlag, abortedTurn, shutdown, batch, calls,
                   attempts, at, holding, aborter, aborts, stopped, left, answered>>

(* The reply is the final answer.                                          *)
Answer ==
    /\ consumer = "reply"
    /\ answered' = answered \cup ServedRoutes(batch)
    /\ consumer' = "finish"
    /\ UNCHANGED <<tail, state, queue, abortFlag, abortedTurn, shutdown, batch, calls,
                   attempts, at, holding, aborter, aborts, stopped, left>>

(* No answer: the request failed for good; or the turn is aborted, out of  *)
(* time or of iterations, stopped by a tool, or has nothing to analyse.    *)
EndWithoutAnswer ==
    /\ consumer \in {"turn", "reply"}
    /\ consumer' = "finish"
    /\ UNCHANGED <<tail, state, queue, abortFlag, abortedTurn, shutdown, batch, calls,
                   attempts, at, holding, aborter, aborts, stopped, left, answered>>

TurnGoesOn ==
    \/ BeginIteration
    \/ RequestLLM
    \/ RetryLLM
    \/ CallTools
    \/ Answer
    \/ EndWithoutAnswer

(* _finish_turn under the lock; an aborted turn skips the flush of the     *)
(* parked job results that follows it.                                     *)
FinishTurn ==
    /\ consumer = "finish"
    /\ LockFree
    /\ state' = IF queue = <<>> THEN "idle" ELSE "cooldown"
    /\ abortedTurn' = FALSE
    /\ consumer' = IF abortedTurn THEN "notify" ELSE "flush"
    /\ UNCHANGED <<tail, queue, abortFlag, shutdown, batch, calls, attempts, at, holding, aborter,
                   aborts, stopped, left, answered>>

(* flush_all_job_results_for_item with nothing parked.                     *)
FlushNothing ==
    /\ consumer = "flush"
    /\ consumer' = "notify"
    /\ UNCHANGED <<tail, state, queue, abortFlag, abortedTurn, shutdown, batch, calls, attempts, at,
                   holding, aborter, aborts, stopped, left, answered>>

NotifiedLast(cells) == Last(cells).load

(* Every input of the batch is told, not only the merged one.              *)
Notified(cells) == Loads(cells)

(* The completion callbacks of the batch.                                  *)
NotifyComplete ==
    /\ consumer = "notify"
    /\ at' = Moved(Notified(batch), "done")
    /\ batch' = <<>>
    /\ consumer' = "idle"
    /\ UNCHANGED <<tail, state, queue, abortFlag, abortedTurn, shutdown, calls, attempts, holding,
                   aborter, aborts, stopped, left, answered>>

ConsumerStep ==
    \/ Wake
    \/ Take
    \/ FindNothing
    \/ CloseBatch
    \/ BeginTurn
    \/ AcquireLease
    \/ TurnGoesOn
    \/ FinishTurn
    \/ NotifyComplete

-------------------------------------------------------------------------------
(* POST /abort: the stream batch is dropped, then the session is aborted   *)
(* and its queue cleared, without a word to the inputs' callbacks.         *)
DropStream ==
    /\ aborter = "ready"
    /\ aborts < MaxAborts
    /\ aborter' = "abort"
    /\ at' = Moved(Collected, "cleared")
    /\ UNCHANGED <<tail, state, queue, abortFlag, abortedTurn, shutdown, consumer, batch,
                   calls, attempts, holding, aborts, stopped, left, answered>>

AbortedStateIdle == "idle"

(* A turn has begun and not finished.                                      *)
InTurn == consumer \in {"lease", "turn", "call", "reply", "finish"}

(* The requests that may follow the last test of the abort flag.           *)
Unstoppable == IF consumer \in {"call", "reply"} THEN MaxAttempts - attempts ELSE 0

AbortedState == IF state = "running" THEN "interrupting" ELSE "idle"

Abort ==
    /\ aborter = "abort"
    /\ LockFree
    /\ aborter' = "ready"
    /\ aborts' = aborts + 1
    /\ abortFlag' = TRUE
    /\ abortedTurn' = TRUE
    /\ state' = AbortedState
    /\ stopped' = (stopped \/ InTurn)
    /\ left' = IF stopped THEN left ELSE Unstoppable
    /\ at' = Moved(Loads(queue), "cleared")
    /\ queue' = <<>>
    /\ UNCHANGED <<tail, shutdown, consumer, batch, calls, attempts, holding, answered>>

(* AgentSession.shutdown, on the removal of the session.                   *)
Shutdown ==
    /\ MaxShutdowns = 1
    /\ ~ shutdown
    /\ shutdown' = TRUE
    /\ abortFlag' = TRUE
    /\ UNCHANGED <<tail, state, queue, abortedTurn, consumer, batch, calls, attempts, at, holding,
                   aborter, aborts, stopped, left, answered>>

(* A step of the session when the inputs of sent come from its senders.    *)
SessionStep(sent) ==
    \/ \E i \in sent : SendInput(i) \/ MarkCollecting(i) \/ Collect(i)
    \/ FlushStream
    \/ LookAtTail
    \/ MergeIntoTail
    \/ ConsumerStep
    \/ DropStream
    \/ Abort
    \/ Shutdown

Next == SessionStep(Inputs) \/ FlushNothing

(* The consumer, a thread inside process_stream or queue_input, the        *)
(* debounce timer and an abort request that has begun keep running, and a  *)
(* request to the LLM returns or times out; nobody has to send an input.   *)
SessionFairness ==
    /\ WF_sessionVars(Wake) /\ WF_sessionVars(Take) /\ WF_sessionVars(FindNothing)
    /\ WF_sessionVars(CloseBatch) /\ WF_sessionVars(BeginTurn) /\ WF_sessionVars(AcquireLease)
    /\ WF_sessionVars(TurnGoesOn) /\ WF_sessionVars(FinishTurn)
    /\ WF_sessionVars(NotifyComplete) /\ WF_sessionVars(LookAtTail)
    /\ \A i \in Inputs : WF_sessionVars(Collect(i))
    /\ WF_sessionVars(MergeIntoTail) /\ WF_sessionVars(FlushStream) /\ WF_sessionVars(Abort)

Spec == Init /\ [][Next]_sessionVars /\ SessionFairness /\ WF_sessionVars(FlushNothing)

-------------------------------------------------------------------------------
Places == {"outside", "marked", "collected", "bare", "looking", "queued", "taken", "done",
           "rejected", "crashed", "missed", "cleared"}

TypeOK ==
    /\ state \in States
    /\ queue \in Seq(Cells) /\ Len(queue) <= MaxQueue
    /\ abortFlag \in BOOLEAN /\ abortedTurn \in BOOLEAN /\ shutdown \in BOOLEAN
    /\ consumer \in {"idle", "armed", "drain", "begin", "lease", "turn", "call", "reply",
                     "finish", "flush", "notify", "exit"}
    /\ batch \in Seq(Cells)
    /\ calls \in 0 .. MaxIterations /\ attempts \in 0 .. MaxAttempts
    /\ at \in [Inputs -> Places]
    /\ holding \in Cells \cup {NoCell} /\ tail \subseteq Inputs
    /\ aborter \in {"ready", "abort"} /\ aborts \in 0 .. MaxAborts
    /\ stopped \in BOOLEAN /\ left \in 0 .. MaxAttempts
    /\ answered \subseteq Range(RouteOf)

CellsWith(i, cells) == {n \in DOMAIN cells : i \in cells[n].load}

(* An accepted input is in exactly one cell until its completion callback  *)
(* runs, whatever was merged at the tail while the consumer was draining:  *)
(* none is answered twice and none disappears.                             *)
AcceptedOnce ==
    /\ TypeOK
    /\ \A i \in Inputs :
        /\ Cardinality(CellsWith(i, queue)) = IF at[i] = "queued" THEN 1 ELSE 0
        /\ Cardinality(CellsWith(i, batch)) = IF at[i] = "taken" THEN 1 ELSE 0

(* While a turn runs or waits for the handler's lease, is_running_turn     *)
(* says so, and job results and terminal output that arrive are parked:    *)
(* through one abort of it, not through a second (session.py:3361).        *)
RunningTurnIsBusy ==
    aborts < 2 /\ InTurn => state \in {"running", "interrupting"}

(* Once a user has aborted a turn that had begun, even one still waiting   *)
(* for the handler's lease, it starts no further iteration: the LLM gets   *)
(* no request but the remaining attempts of a call that was past its test  *)
(* of the abort flag, and none at all if the abort found no such call.     *)
AbortIsHeeded ==
    [][/\ calls' > calls => ~ stopped
       /\ attempts' > attempts => ~ stopped \/ left > 0]_sessionVars

(* A turn's answer reaches every reply ticket its batch was bound to:      *)
(* "delivery fans out per route afterwards" (session.py:561-562).          *)
EveryMergedRouteServed ==
    [][answered' # answered => AllRoutes(batch) \subseteq answered']_sessionVars

(* What a sender of inputs can count on, see InputPipe.                    *)
Shown(place) ==
    CASE place \in {"outside", "marked", "collected", "looking"} -> "unsent"
      [] place \in {"queued", "taken"} -> "accepted"
      [] place \in {"bare", "rejected", "crashed", "missed"} -> "refused"
      [] place = "cleared" -> "withdrawn"
      [] place = "done" -> "done"

shownAt == [i \in Inputs |-> Shown(at[i])]

Pipe == INSTANCE InputPipe WITH status <- shownAt

(* Refused at the door, withdrawn by an abort, or eventually processed:    *)
(* "user messages must be processed however long they queue"               *)
(* (session.py:2036).                                                      *)
ImplementsInputPipe == Pipe!PipeSpec
===============================================================================
