---------------------------- MODULE RobotDispatch ----------------------------
(***************************************************************************)
(* The dispatch of chat messages by the robot plugin                       *)
(* (backend/app/plugins/robot/service.py) for one conversation: request    *)
(* handlers that park a message or queue it, the conversation's controller *)
(* (who may answer, until when), the worker threads, the follow-up that    *)
(* feeds parked messages to the agent's session, the results of background *)
(* jobs, and the watchdog's pass, which reaps frozen jobs and sweeps.      *)
(*                                                                         *)
(* A step is one critical section: of the service's lock, of the queue's   *)
(* mutex or of the merge buffer's lock.  A message's handler looks twice   *)
(* for a running dispatch: the first look decides whether the message is   *)
(* written to the .log at once, the second whether it parks.  Deadlines    *)
(* pass nondeterministically and are noticed, as in the code, by who       *)
(* looks.  A turn of the agent is taken as a step that may send, sleep,    *)
(* fail, or freeze.                                                        *)
(* conversation_generation, a counter that only grows and is only compared *)
(* with the one a dispatch was given, is kept as the set of the dispatches *)
(* that hold the current value: a bump empties it.                         *)
(***************************************************************************)
EXTENDS Naturals, Sequences, FiniteSets, SequencesExt

CONSTANTS
    Msgs,          \* inbound messages of the conversation
    Direct,        \* those that address the bot; the others need an awake conversation
    Results,       \* results of background jobs started by its turns
    Workers,       \* dispatch workers, at most DISPATCH_WORKER_MAX_COUNT
    FirstWorkers,  \* those started by _ensure_dispatch_workers
    Watchdog,      \* the thread of the task watchdog
    NoJob,
    QueueSize,     \* ROBOT_BACKEND_DISPATCH_QUEUE_SIZE
    BufferLimit,   \* the merge buffer's limit of chat messages of one scope
    BatchLimit,    \* PENDING_CHAT_QUEUE_LIMIT, of the messages a batch shows
    MaxLapses,     \* bound on the deadlines that pass
    MaxFreezes,    \* bound on the turns that never come back by themselves
    MaxFaults      \* bound on the follow-ups that fail

ASSUME MsgsAssumption == Direct \subseteq Msgs /\ Msgs \cap Results = {}
ASSUME ThreadsAssumption ==
    /\ FirstWorkers \subseteq Workers
    /\ Watchdog \notin Workers
    /\ (Workers \cup {Watchdog}) \cap (Msgs \cup Results) = {}
    /\ IsFiniteSet(Workers)
ASSUME NoJobAssumption == NoJob \notin Msgs \cup Results
ASSUME BoundsAssumption ==
    /\ {QueueSize, BufferLimit, BatchLimit} \subseteq Nat \ {0}
    /\ {MaxLapses, MaxFreezes, MaxFaults} \subseteq Nat

VARIABLES
    queue,     \* _dispatch_queue
    active,    \* _active_dispatch_jobs, by worker
    buffer,    \* the conversation's scope of the merge buffer
    replies,   \* _pending_task_replies of the conversation
    ctl,       \* its RobotConversationController
    pc,        \* of workers, watchdog and the handler of each message
    job,       \* the job each worker works on
    hand,      \* what a follow-up has drained and not yet fed
    sent,      \* workers whose turn has sent something
    only,      \* workers whose follow-up takes direct messages only
    alive,     \* workers started
    frozen,    \* workers stuck inside their turn
    erred,     \* workers that are past the error handler of their job
    turns,     \* history: turns each message was given to
    fed,       \* history: messages shown to the session in a batch
    lost,      \* history: messages dropped, by one of the rules NothingVanishes lists
    logged,    \* history: messages in the .log of the conversation
    free,      \* history: messages logged by their handler: its first look found no
               \* dispatch, or the conversation was asleep
    lapses, freezes, faults

controls == <<ctl, lapses>>
log == <<logged, free>>
history == <<turns, fed, lost, log>>
threads == <<alive, frozen, freezes, erred>>
vars == <<queue, active, buffer, replies, pc, job, hand, sent, only,
          faults, controls, history, threads>>

Jobs == Msgs \cup Results
Feeders == Workers \cup {Watchdog}

New == [sleeping |-> FALSE, hold |-> "none", window |-> "none", holders |-> {}]

Init ==
    /\ queue = <<>>
    /\ active = {}
    /\ buffer = <<>>
    /\ replies = {}
    /\ ctl = New
    /\ pc = [x \in Feeders \cup Jobs |-> IF x \in Feeders THEN "idle" ELSE "out"]
    /\ job = [w \in Workers |-> NoJob]
    /\ hand = [t \in Feeders |-> <<>>]
    /\ sent = {}
    /\ only = {}
    /\ alive = FirstWorkers
    /\ frozen = {}
    /\ erred = {}
    /\ turns = [m \in Msgs |-> 0]
    /\ fed = {}
    /\ lost = {}
    /\ logged = {}
    /\ free = {}
    /\ lapses = 0
    /\ freezes = 0
    /\ faults = 0

------------------------------------------------------------------------------
(* The controller *)

Slept(c) == [sleeping |-> TRUE, hold |-> "none", window |-> "none", holders |-> {}]

Overdue(c) ==
    /\ ~c.sleeping
    /\ c.hold = "past" \/ (c.hold = "none" /\ c.window = "past")

(* What _controller_is_awake_locked makes of the controller, and its answer. *)
Settled(c) == IF Overdue(c) THEN Slept(c) ELSE c

Awake(c) == ~c.sleeping /\ (c.hold = "on" \/ (c.hold = "none" /\ c.window = "open"))

(* _record_conversation_controller_inbound: a direct message wakes the       *)
(* conversation; one that finds it asleep all the same leaves it so.        *)
Woken(c, direct) ==
    Settled(IF direct /\ c.sleeping
            THEN [c EXCEPT !.sleeping = FALSE, !.holders = {}] ELSE c)

Gated(c, direct) ==
    LET w == Woken(c, direct)
    IN  IF Awake(w) \/ direct THEN w ELSE [w EXCEPT !.sleeping = TRUE]

BegunUnlessHeld(x) ==
    [sleeping |-> FALSE, hold |-> "on", window |-> "none",
     holders |-> IF ctl.hold = "on" THEN ctl.holders \cup {x} ELSE {x}]

Begun(x) == [sleeping |-> FALSE, hold |-> "on", window |-> "none", holders |-> {x}]

Remembered(c, x) ==
    IF x \in c.holders
    THEN [c EXCEPT !.sleeping = FALSE, !.hold = "none", !.window = "open"] ELSE c

Cleared(c, x) == IF x \in c.holders THEN Slept(c) ELSE c

Extended(c) == [c EXCEPT !.hold = "on"]
Released(c) == [c EXCEPT !.hold = "none"]

(* A job of a message may send while its generation is current and the      *)
(* conversation is processing, past its deadline or not, or awake: only the  *)
(* last asks for the deadline.  The result of a job may always send.        *)
MayReply(j) ==
    \/ j \in Results
    \/ j \in ctl.holders /\ ~ctl.sleeping /\ (ctl.hold # "none" \/ ctl.window = "open")

Asked(j) == IF j \in Msgs \cap ctl.holders /\ ctl.hold = "none" THEN Settled(ctl) ELSE ctl

Lapse ==
    /\ lapses < MaxLapses
    /\ \/ ctl.hold = "on" /\ ctl' = [ctl EXCEPT !.hold = "past"]
       \/ ctl.window = "open" /\ ctl' = [ctl EXCEPT !.window = "past"]
    /\ lapses' = lapses + 1
    /\ UNCHANGED <<queue, active, buffer, replies, pc, job, hand, sent, only,
                   faults, history, threads>>

------------------------------------------------------------------------------
(* handle_inbound_message *)

Goto(t, label) == pc' = [pc EXCEPT ![t] = label]

WriteLog(m) == logged' = logged \cup {m} /\ free' = free \cup {m}

(* A message of a conversation asleep parks nowhere and is logged at once.  *)
Arrive(m) ==
    LET awake == Awake(Woken(ctl, m \in Direct)) IN
    /\ pc[m] = "out"
    /\ ctl' = Gated(ctl, m \in Direct)
    /\ IF awake
       THEN Goto(m, "peek") /\ UNCHANGED log
       ELSE /\ Goto(m, IF m \in Direct THEN "begin" ELSE "ignored")
            /\ WriteLog(m)
    /\ UNCHANGED <<queue, active, buffer, replies, job, hand, sent, only,
                   faults, lapses, turns, fed, lost, threads>>

(* The first look of a message that found the conversation awake: only the  *)
(* message of a conversation that is not busy is logged.                    *)
Peek(m) ==
    /\ pc[m] = "peek"
    /\ Goto(m, IF active = {} THEN "peekqueue" ELSE "look")
    /\ UNCHANGED <<queue, active, buffer, replies, job, hand, sent, only,
                   faults, controls, history, threads>>

PeekQueue(m) ==
    /\ pc[m] = "peekqueue"
    /\ IF queue = <<>> THEN WriteLog(m) ELSE UNCHANGED log
    /\ Goto(m, "look")
    /\ UNCHANGED <<queue, active, buffer, replies, job, hand, sent, only,
                   faults, controls, turns, fed, lost, threads>>

(* conversation_has_active_dispatch: the tracked jobs under the service's   *)
(* lock, then the queue under its mutex.  A busy conversation parks the     *)
(* message that found it awake, and keeps the watchdog from sweeping.  What *)
(* a handler does between its two looks (bindings, media) takes its time.   *)
Busy(t) == IF t = Watchdog THEN "idle" ELSE "park"
Free(t) == IF t = Watchdog THEN "drain" ELSE "begin"

Look(t) ==
    /\ pc[t] = "look"
    /\ Goto(t, IF active = {} THEN "lookqueue" ELSE Busy(t))
    /\ UNCHANGED <<queue, active, buffer, replies, job, hand, sent, only,
                   faults, controls, history, threads>>

LookQueue(t) ==
    /\ pc[t] = "lookqueue"
    /\ Goto(t, IF queue = <<>> THEN Free(t) ELSE Busy(t))
    /\ UNCHANGED <<queue, active, buffer, replies, job, hand, sent, only,
                   faults, controls, history, threads>>

(* How many entries of s a limit leaves out, the oldest ones.               *)
Over(s, limit) == IF Len(s) > limit THEN Len(s) - limit ELSE 0

Park(m) ==
    /\ pc[m] = "park"
    /\ LET all == Append(buffer, m)
           over == Over(all, BufferLimit)
       IN  /\ buffer' = SubSeq(all, over + 1, Len(all))
           /\ lost' = lost \cup ToSet(SubSeq(all, 1, over))
    /\ Goto(m, "accepted")
    /\ UNCHANGED <<queue, active, replies, job, hand, sent, only,
                   faults, controls, turns, fed, log, threads>>

(* _begin_reply_context_dispatch, for a message or for a follow-up. *)
Begin(t, next) ==
    /\ pc[t] = "begin"
    /\ ctl' = Begun(t)
    /\ Goto(t, next)
    /\ UNCHANGED <<queue, active, buffer, replies, job, hand, sent, only,
                   faults, lapses, history, threads>>

Enqueue(m) ==
    /\ pc[m] = "enqueue"
    /\ IF Len(queue) < QueueSize
       THEN /\ queue' = Append(queue, m)
            /\ Goto(m, "accepted")
       ELSE /\ queue' = queue
            /\ Goto(m, "full")
    /\ UNCHANGED <<active, buffer, replies, job, hand, sent, only,
                   faults, controls, history, threads>>

QueueFull(m) ==
    /\ pc[m] = "full"
    /\ ctl' = Cleared(ctl, m)
    /\ lost' = lost \cup {m}
    /\ Goto(m, "refused")
    /\ UNCHANGED <<queue, active, buffer, replies, job, hand, sent, only,
                   faults, lapses, turns, fed, log, threads>>

------------------------------------------------------------------------------
(* _dispatch_worker_loop and _process_chat_job *)

IdleWorkers == {w \in alive : pc[w] = "idle"}

(* Idle workers are alike: one of them stands for the one that is woken.    *)
(* Between the get and the tracking the job is in nobody's books.           *)
Take(w) ==
    /\ queue # <<>> /\ w \in IdleWorkers
    /\ w = CHOOSE v \in IdleWorkers : TRUE
    /\ job' = [job EXCEPT ![w] = Head(queue)]
    /\ queue' = Tail(queue)
    /\ Goto(w, "taken")
    /\ UNCHANGED <<active, buffer, replies, hand, sent, only,
                   faults, controls, history, threads>>

Track(w) ==
    /\ pc[w] = "taken"
    /\ active' = active \cup {w}
    /\ Goto(w, "guard")
    /\ UNCHANGED <<queue, buffer, replies, job, hand, sent, only,
                   faults, controls, history, threads>>

(* The guard asks for the generation and an awake conversation of a message *)
(* that needed one; direct messages and results always pass.                *)
Passes(j) == j \in Direct \cup Results \/ (j \in ctl.holders /\ Awake(ctl))

Given(j) == IF j \in Msgs THEN [turns EXCEPT ![j] = @ + 1] ELSE turns

Guard(w) ==
    /\ pc[w] = "guard"
    /\ ctl' = IF job[w] \in ctl.holders \ (Direct \cup Results) THEN Settled(ctl) ELSE ctl
    /\ IF Passes(job[w])
       THEN turns' = Given(job[w]) /\ Goto(w, "turn")
       ELSE turns' = turns /\ Goto(w, "requeue")
    /\ UNCHANGED <<queue, active, buffer, replies, job, hand, sent, only,
                   faults, lapses, fed, lost, log, threads>>

RequeueNothing(w) ==
    /\ pc[w] = "requeue"
    /\ ctl' = Cleared(ctl, job[w])
    /\ Goto(w, "drain")
    /\ UNCHANGED <<queue, active, buffer, replies, job, hand, sent, only,
                   faults, lapses, history, threads>>

(* A skipped message goes back to the front of the buffer, and what is left *)
(* of its dispatch is cleared.                                              *)
Requeue(w) ==
    /\ pc[w] = "requeue"
    /\ buffer' = <<job[w]>> \o buffer
    /\ ctl' = Cleared(ctl, job[w])
    /\ Goto(w, "drain")
    /\ UNCHANGED <<queue, active, replies, job, hand, sent, only,
                   faults, lapses, history, threads>>

InTurn(w) == pc[w] = "turn" /\ w \notin frozen

(* The agent's tools: the send asks for the permission of its generation,   *)
(* and a first job of the agent's is registered for the conversation.       *)
Send(w) ==
    /\ InTurn(w) /\ w \notin sent
    /\ ctl' = Asked(job[w])
    /\ sent' = IF MayReply(job[w]) THEN sent \cup {w} ELSE sent
    /\ UNCHANGED <<queue, active, buffer, replies, pc, job, hand, only,
                   faults, lapses, history, threads>>

Sleep(w) ==
    /\ InTurn(w) /\ ~ctl.sleeping
    /\ ctl' = Slept(ctl)
    /\ UNCHANGED <<queue, active, buffer, replies, pc, job, hand, sent, only,
                   faults, lapses, history, threads>>

Register(w, r) ==
    /\ InTurn(w) /\ pc[r] = "out"
    /\ replies' = replies \cup {r}
    /\ ctl' = IF job[w] \in ctl.holders
              THEN [ctl EXCEPT !.holders = @ \cup {r}] ELSE ctl
    /\ Goto(r, "running")
    /\ UNCHANGED <<queue, active, buffer, job, hand, sent, only,
                   faults, lapses, history, threads>>

(* The result of a job is queued; a full queue leaves it to the sender. Its *)
(* entry goes when the job has ended.                                       *)
JobEnds(r) ==
    /\ pc[r] = "running"
    /\ replies' = replies \ {r}
    /\ Goto(r, "result")
    /\ UNCHANGED <<queue, active, buffer, job, hand, sent, only,
                   faults, controls, history, threads>>

EnqueueResult(r) ==
    /\ pc[r] = "result" /\ Len(queue) < QueueSize
    /\ queue' = Append(queue, r)
    /\ Goto(r, "accepted")
    /\ UNCHANGED <<active, buffer, replies, job, hand, sent, only,
                   faults, controls, history, threads>>

(* The turn ends: with an answer or none, by its own timeout, by an error.  *)
(* A turn that was not direct and sent nothing filters its follow-up.       *)
TurnEnds(w) ==
    /\ InTurn(w)
    /\ Goto(w, "apply")
    /\ only' = IF w \in sent \/ job[w] \in Direct \cup Results
               THEN only ELSE only \cup {w}
    /\ UNCHANGED <<queue, active, buffer, replies, job, hand, sent,
                   faults, controls, history, threads>>

TurnStops(w) ==
    /\ InTurn(w)
    /\ \/ Goto(w, "hold")
       \/ Goto(w, "report")
    /\ UNCHANGED <<queue, active, buffer, replies, job, hand, sent, only,
                   faults, controls, history, threads>>

(* _apply_reply_context_result *)
ApplyResult(w) ==
    LET j == job[w] IN
    /\ pc[w] = "apply"
    /\ ctl' = IF w \in sent THEN Remembered(ctl, j)
              ELSE IF j \in Msgs \ Direct THEN Slept(ctl)
              ELSE Cleared(ctl, j)
    /\ Goto(w, "hold")
    /\ UNCHANGED <<queue, active, buffer, replies, job, hand, sent, only,
                   faults, lapses, history, threads>>

(* _extend_processing_for_active_jobs while a job runs, or                  *)
(* _release_processing_hold.                                                *)
Hold(w) ==
    /\ pc[w] = "hold"
    /\ ctl' = IF replies # {} THEN Extended(ctl) ELSE Released(ctl)
    /\ Goto(w, "drain")
    /\ UNCHANGED <<queue, active, buffer, replies, job, hand, sent, only,
                   faults, lapses, history, threads>>

(* _record_and_send_job_error: the permission is asked before the window is *)
(* cleared, which would take it away.  The handlers of _process_chat_job go  *)
(* on to a follow-up of all that is parked; the loop's own, which catches    *)
(* what they raise, does not.                                               *)
ReportError(w) ==
    /\ pc[w] = "report"
    /\ sent' = IF MayReply(job[w]) THEN sent \cup {w} ELSE sent
    /\ ctl' = Cleared(Asked(job[w]), job[w])
    /\ erred' = erred \cup {w}
    /\ only' = only \ {w}
    /\ Goto(w, IF w \in erred THEN "untrack" ELSE "release")
    /\ UNCHANGED <<queue, active, buffer, replies, job, hand, faults, lapses, history,
                   alive, frozen, freezes>>

Release(w) ==
    /\ pc[w] = "release"
    /\ ctl' = Released(ctl)
    /\ Goto(w, "drain")
    /\ UNCHANGED <<queue, active, buffer, replies, job, hand, sent, only,
                   faults, lapses, history, threads>>

Without(x) == [ctl EXCEPT !.holders = @ \ {x}]

(* The finally of the loop, after which the generation of the job is not    *)
(* looked at any more.  A reaped worker finds its entry gone already.       *)
Untrack(w) ==
    /\ pc[w] = "untrack"
    /\ active' = active \ {w}
    /\ job' = [job EXCEPT ![w] = NoJob]
    /\ sent' = sent \ {w}
    /\ only' = only \ {w}
    /\ erred' = erred \ {w}
    /\ ctl' = Without(job[w])
    /\ Goto(w, "idle")
    /\ UNCHANGED <<queue, buffer, replies, hand, faults, lapses, history,
                   alive, frozen, freezes>>

------------------------------------------------------------------------------
(* _enqueue_pending_chat_followup *)

Back(t) == IF t = Watchdog THEN "idle" ELSE "untrack"

DrainPeeks(t) ==
    /\ pc[t] = "drain"
    /\ hand' = [hand EXCEPT ![t] = buffer]
    /\ Goto(t, IF buffer = <<>> THEN Back(t) ELSE "begin")
    /\ UNCHANGED <<queue, active, buffer, replies, job, sent, only,
                   faults, controls, history, threads>>

(* The entries of s that are in S, in their order.                          *)
Selected(s, S) ==
    LET picked[n \in 0 .. Len(s)] ==
            IF n = 0 THEN <<>>
            ELSE IF s[n] \in S THEN Append(picked[n - 1], s[n]) ELSE picked[n - 1]
    IN  picked[Len(s)]

Drain(t) ==
    /\ pc[t] = "drain"
    /\ LET kept == IF t \in only THEN Direct ELSE Msgs
       IN  /\ hand' = [hand EXCEPT ![t] = Selected(buffer, kept)]
           /\ lost' = lost \cup (ToSet(buffer) \ kept)
    /\ buffer' = <<>>
    /\ Goto(t, IF hand'[t] = <<>> THEN Back(t) ELSE "begin")
    /\ UNCHANGED <<queue, active, replies, job, sent, only,
                   faults, controls, turns, fed, log, threads>>

(* _dispatch_pending_batch_to_session_queue: from here on the batch is an    *)
(* input of the session, which shows the last BatchLimit of its messages.    *)
(* All of them are logged now.                                              *)
Feed(t) ==
    /\ pc[t] = "feed"
    /\ LET over == Over(hand[t], BatchLimit)
       IN  /\ fed' = fed \cup ToSet(SubSeq(hand[t], over + 1, Len(hand[t])))
           /\ lost' = lost \cup ToSet(SubSeq(hand[t], 1, over))
    /\ logged' = logged \cup ToSet(hand[t])
    /\ hand' = [hand EXCEPT ![t] = <<>>]
    /\ ctl' = Without(t)
    /\ Goto(t, Back(t))
    /\ UNCHANGED <<queue, active, buffer, replies, job, sent, only,
                   faults, lapses, turns, free, threads>>

(* A full queue of the session refuses the batch, which its caller takes    *)
(* for dispatched.                                                          *)
FeedRefused(t) ==
    /\ pc[t] = "feed" /\ faults < MaxFaults
    /\ faults' = faults + 1
    /\ lost' = lost \cup ToSet(hand[t])
    /\ logged' = logged \cup ToSet(hand[t])
    /\ hand' = [hand EXCEPT ![t] = <<>>]
    /\ ctl' = Without(t)
    /\ Goto(t, Back(t))
    /\ UNCHANGED <<queue, active, buffer, replies, job, sent, only,
                   lapses, turns, fed, free, threads>>

(* The follow-up raises while it composes the batch, after the drain and     *)
(* outside the guarded dispatch: what it drained is gone.  The sweep goes   *)
(* on with the next conversation, a worker to its error handler.            *)
FollowUpFails(t) ==
    /\ pc[t] \in {"begin", "feed"} /\ faults < MaxFaults
    /\ faults' = faults + 1
    /\ lost' = lost \cup ToSet(hand[t])
    /\ hand' = [hand EXCEPT ![t] = <<>>]
    /\ ctl' = Without(t)
    /\ Goto(t, IF t = Watchdog THEN "idle" ELSE "report")
    /\ UNCHANGED <<queue, active, buffer, replies, job, sent, only,
                   lapses, turns, fed, log, threads>>

FeedFails(t) ==
    /\ pc[t] = "feed" /\ faults < MaxFaults
    /\ faults' = faults + 1
    /\ Goto(t, "return")
    /\ UNCHANGED <<queue, active, buffer, replies, job, hand, sent, only,
                   controls, history, threads>>

Return(t) ==
    /\ pc[t] = "return"
    /\ buffer' = hand[t] \o buffer
    /\ hand' = [hand EXCEPT ![t] = <<>>]
    /\ ctl' = Cleared(ctl, t)
    /\ Goto(t, Back(t))
    /\ UNCHANGED <<queue, active, replies, job, sent, only,
                   faults, lapses, history, threads>>

------------------------------------------------------------------------------
(* The task watchdog *)

Freeze(w) ==
    /\ InTurn(w) /\ freezes < MaxFreezes
    /\ frozen' = frozen \cup {w}
    /\ freezes' = freezes + 1
    /\ UNCHANGED <<queue, active, buffer, replies, pc, job, hand, sent, only,
                   faults, controls, history, alive, erred>>

(* A frozen thread may come back, before it is reaped or after.             *)
Thaw(w) ==
    /\ w \in frozen
    /\ frozen' = frozen \ {w}
    /\ UNCHANGED <<queue, active, buffer, replies, pc, job, hand, sent, only,
                   faults, controls, history, alive, freezes, erred>>

Stuck == active \cap frozen

GrownNever(n) == alive

(* _ensure_replacement_workers: one for each reaped job, up to the cap.      *)
Grown(n) ==
    LET spare == Workers \ alive
        room == IF n < Cardinality(spare) THEN n ELSE Cardinality(spare)
    IN  alive \cup CHOOSE new \in SUBSET spare : Cardinality(new) = room

PassKeepsStuck ==
    /\ pc[Watchdog] = "idle"
    /\ Stuck # {} \/ replies # {}
    /\ alive' = Grown(Cardinality(Stuck))
    /\ Goto(Watchdog, IF replies # {} THEN "look" ELSE "idle")
    /\ UNCHANGED <<queue, active, buffer, replies, job, hand, sent, only,
                   faults, controls, history, frozen, freezes, erred>>

(* run_once: reap_stuck_dispatch_jobs, then sweep_pending_conversations,    *)
(* which looks at conversations with a registered reply only.               *)
Pass ==
    /\ pc[Watchdog] = "idle"
    /\ Stuck # {} \/ replies # {}
    /\ active' = active \ Stuck
    /\ alive' = Grown(Cardinality(Stuck))
    /\ Goto(Watchdog, IF replies # {} THEN "look" ELSE "idle")
    /\ UNCHANGED <<queue, buffer, replies, job, hand, sent, only,
                   faults, controls, history, frozen, freezes, erred>>

------------------------------------------------------------------------------
Handle(m) ==
    \/ Arrive(m) \/ Peek(m) \/ PeekQueue(m) \/ Look(m) \/ LookQueue(m) \/ Park(m)
    \/ Begin(m, "enqueue") \/ Enqueue(m) \/ QueueFull(m)

FollowUp(t) == Drain(t) \/ Begin(t, "feed") \/ Feed(t) \/ Return(t)

Work(w) ==
    \/ Take(w) \/ Track(w) \/ Guard(w) \/ Requeue(w)
    \/ TurnEnds(w) \/ TurnStops(w) \/ ApplyResult(w) \/ Hold(w)
    \/ ReportError(w) \/ Release(w) \/ Untrack(w)
    \/ FollowUp(w)

Watch == Pass \/ Look(Watchdog) \/ LookQueue(Watchdog) \/ FollowUp(Watchdog)

Act(w) == Send(w) \/ Sleep(w) \/ (\E r \in Results : Register(w, r))

Next ==
    \/ \E m \in Msgs : Handle(m)
    \/ \E w \in Workers : Work(w) \/ Act(w) \/ Freeze(w) \/ Thaw(w)
    \/ \E r \in Results : JobEnds(r) \/ EnqueueResult(r)
    \/ \E t \in Feeders : FeedFails(t) \/ FeedRefused(t) \/ FollowUpFails(t)
    \/ Watch
    \/ Lapse

(* Threads that run go on running; nothing obliges a message to arrive, the *)
(* agent to act, a job to end or a frozen thread to come back.              *)
Fairness ==
    /\ \A m \in Msgs : WF_vars(Handle(m) /\ pc[m] # "out")
    /\ \A w \in Workers : WF_vars(Work(w))
    /\ WF_vars(Watch)

Spec == Init /\ [][Next]_vars /\ Fairness

------------------------------------------------------------------------------
(* Properties *)

TypeOK ==
    /\ ToSet(queue) \subseteq Jobs /\ Len(queue) <= QueueSize
    /\ active \subseteq alive /\ frozen \subseteq alive /\ alive \subseteq Workers
    /\ ToSet(buffer) \subseteq Msgs
    /\ replies \subseteq Results
    /\ ctl \in [holders : SUBSET (Jobs \cup Feeders), sleeping : BOOLEAN,
                hold : {"none", "on", "past"}, window : {"none", "open", "past"}]
    /\ DOMAIN pc = Feeders \cup Jobs
    /\ \A w \in Workers : job[w] = NoJob <=> pc[w] = "idle"
    /\ \A t \in Feeders : hand[t] # <<>> <=> pc[t] \in {"begin", "feed", "return"}

Working(j) == {w \in Workers : job[w] = j}

(* Where an accepted message waits: in the queue, with a worker that has not *)
(* begun its turn, in the buffer, or in the hand of a follow-up.             *)
Waits(m) ==
    \/ m \in ToSet(queue) \cup ToSet(buffer)
    \/ \E w \in Working(m) : pc[w] \in {"taken", "guard", "requeue"}
    \/ \E t \in Feeders : m \in ToSet(hand[t])

Answered(m) == turns[m] > 0 \/ m \in fed

(* A message that was accepted is given to a turn, still waits, or was       *)
(* dropped where the code drops: evicted from a full buffer, filtered by a    *)
(* follow-up that takes direct messages only, left out of a batch longer      *)
(* than BatchLimit, refused by the session's full queue, or taken along by    *)
(* an error between drain and dispatch.  Through skips, returned batches,     *)
(* frozen workers and the sweep it never just vanishes (service.py:203-205).  *)
NothingVanishes ==
    /\ TypeOK
    /\ \A m \in Msgs : pc[m] = "accepted" => Waits(m) \/ Answered(m) \/ m \in lost

Batched(m) == m \in ToSet(buffer) \/ \E t \in Feeders : m \in ToSet(hand[t])

(* A message is the input of one turn only, of a worker or of the session,    *)
(* and no copy of it waits for another.  While it waits for a follow-up the   *)
(* running turn does not find it in the .log (service.py:1265-1267), but for  *)
(* one whose first look found the conversation free: its second look, or the  *)
(* guard, may put it into the buffer all the same.                           *)
GivenOnce ==
    \A m \in Msgs :
        /\ turns[m] <= 1
        /\ turns[m] = 1 => m \notin fed
        /\ Answered(m) \/ m \in lost => ~Waits(m)
        /\ Batched(m) /\ m \in logged => m \in free

InFlight == {m \in Msgs : m \in ToSet(queue) \/ Working(m) # {}}
            \cup {t \in Feeders : pc[t] = "feed"}

(* Two turns on the way, of messages or of follow-ups, never may both        *)
(* answer: whatever races made them, each has a generation of its own.       *)
OneMayReply ==
    \A x, y \in InFlight : x # y /\ x \in ctl.holders => y \notin ctl.holders

(* A queued job is taken by a worker in the end, however many workers are    *)
(* frozen, as long as the cap leaves room for replacements                   *)
(* (_ensure_replacement_workers).                                            *)
QueueDrains == \A j \in Jobs : j \in ToSet(queue) ~> j \notin ToSet(queue)

(* While a job of the conversation is registered for a reply, a parked       *)
(* message does not stay: the sweep starts a turn for it.                    *)
SweepRescues ==
    \A m \in Msgs : m \in ToSet(buffer) /\ replies # {}
                    ~> m \notin ToSet(buffer) \/ replies = {}

(* "Global invariant: no active LLM turn + pending input -> start a turn",   *)
(* the net under races and crashes (service.py:493-497).  Does not hold.     *)
PendingIsAnswered ==
    \A m \in Msgs : m \in ToSet(buffer) ~> m \notin ToSet(buffer)
==============================================================================
