------------------------------- MODULE JobFeedback -------------------------------
(***************************************************************************)
(* How the result of a background job comes back to the agent              *)
(* (backend/app/services/agent/mcp/local_server.py and                     *)
(* input_merge_buffer.py), composed with the session it comes back to.     *)
(*                                                                         *)
(* Each job has a worker thread that polls the daemon.  A result that      *)
(* arrives while the session is busy is parked in the merge buffer; the    *)
(* end of a turn, the worker's own second look at the session and the      *)
(* watchdog's sweep drain the buffer and enqueue what they drained as one  *)
(* terminal input.                                                         *)
(***************************************************************************)
EXTENDS AgentSession

CONSTANTS
    Jobs,           \* the job results among the session's inputs
    MaxParked       \* the merge buffer's limit for job results

ASSUME JobsAssumption ==
    /\ Jobs \subseteq {i \in Inputs : KindOf[i] = "terminal"}
    /\ Jobs \cap {"consumer", "sweep"} = {}
ASSUME MaxParkedAssumption == MaxParked \in Nat \ {0}

VARIABLES
    worker,   \* where the worker thread of each job is
    parked,   \* the merge buffer of the item
    hand,     \* results a flusher has drained and not enqueued yet
    told      \* results delivered straight to their reply ticket

jobVars == <<worker, parked, hand, told>>
vars == <<sessionVars, jobVars>>

Flushers == Jobs \cup {"consumer", "sweep"}

JobInit ==
    /\ Init
    /\ worker = [j \in Jobs |-> "polling"]
    /\ parked = <<>>
    /\ hand = [f \in Flushers |-> <<>>]
    /\ told = {}

-------------------------------------------------------------------------------
(* The session counts as busy while a turn runs, while terminal output is  *)
(* being collected and while inputs are queued.                            *)
TurnBusy == state \in {"running", "interrupting", "collecting"} \/ queue # <<>>

(* The poll returns the result of the job, or that it is lost.             *)
JobFinishes(j) ==
    /\ worker[j] = "polling"
    /\ worker' = [worker EXCEPT ![j] = "check"]
    /\ UNCHANGED <<sessionVars, parked, hand, told>>

(* The busy test is made under the session lock, and acted on outside it.  *)
CheckBusy(j) ==
    /\ worker[j] = "check"
    /\ LockFree
    /\ IF TurnBusy
       THEN worker' = [worker EXCEPT ![j] = "park"] /\ UNCHANGED hand
       ELSE /\ worker' = [worker EXCEPT ![j] = "flush"]
            /\ hand' = [hand EXCEPT ![j] = <<j>>]
    /\ UNCHANGED <<sessionVars, parked, told>>

(* The oldest results over the limit are evicted.                          *)
Evicted(results) == IF Len(results) > MaxParked THEN Len(results) - MaxParked ELSE 0

NeverLooksAgain == "done"

(* A worker that parked its result looks at the session again.             *)
AfterParking == "recheck"

(* buffer_background_job_result: what is evicted is flushed by the worker  *)
(* that caused it, at once.                                                *)
Park(j) ==
    LET results == Append(parked, j)
        n == Evicted(results)
    IN  /\ worker[j] = "park"
        /\ parked' = SubSeq(results, n + 1, Len(results))
        /\ hand' = [hand EXCEPT ![j] = SubSeq(results, 1, n)]
        /\ worker' = [worker EXCEPT ![j] = AfterParking]
        /\ UNCHANGED <<sessionVars, told>>

LeftParked == parked

(* pop_all_for_item empties the buffer under its lock.                     *)
LeftByDrain == <<>>

Drain(f) ==
    /\ hand' = [hand EXCEPT ![f] = parked]
    /\ parked' = LeftByDrain

(* The turn may have ended, and its flush been over, before the result was *)
(* parked: nobody else would come for it.                                  *)
Recheck(j) ==
    /\ worker[j] = "recheck"
    /\ hand[j] = <<>>
    /\ LockFree
    /\ IF TurnBusy
       THEN worker' = [worker EXCEPT ![j] = "done"] /\ UNCHANGED <<parked, hand>>
       ELSE worker' = [worker EXCEPT ![j] = "flush"] /\ Drain(j)
    /\ UNCHANGED <<sessionVars, told>>

(* flush_background_job_results_for_entries: one terminal input, bound to  *)
(* the reply ticket of the first result, carries them all.                 *)
JobCell(results) ==
    [kind |-> "terminal", route |-> RouteOf[Head(results)], load |-> Range(results)]

Enqueue(f) ==
    /\ hand[f] # <<>>
    /\ QueueInput(JobCell(hand[f]))
    /\ hand' = [hand EXCEPT ![f] = <<>>]
    /\ UNCHANGED <<state, abortFlag, abortedTurn, shutdown, consumer, batch, calls, attempts, tail,
                   aborter, aborts, stopped, left, answered, worker, parked, told>>

(* A worker with nothing left to flush ends.                               *)
EndWorker(j) ==
    /\ worker[j] = "flush"
    /\ hand[j] = <<>>
    /\ worker' = [worker EXCEPT ![j] = "done"]
    /\ UNCHANGED <<sessionVars, parked, hand, told>>

(* process_input raised: each result goes to its own reply ticket as text, *)
(* if it has one.                                                          *)
TellTicket(j) ==
    /\ at[j] = "crashed" /\ j \notin told
    /\ RouteOf[j] # NoRoute
    /\ told' = told \cup {j}
    /\ UNCHANGED <<sessionVars, worker, parked, hand>>

(* The flush of the consumer at the end of a turn.                         *)
DrainAtTurnEnd ==
    /\ consumer = "flush"
    /\ Drain("consumer")
    /\ consumer' = "flushing"
    /\ UNCHANGED <<state, queue, abortFlag, abortedTurn, shutdown, batch, calls, attempts, at, holding,
                   tail, aborter, aborts, stopped, left, answered, worker, told>>

EndFlush ==
    /\ consumer = "flushing"
    /\ hand["consumer"] = <<>>
    /\ LockFree
    /\ consumer' = "notify"
    /\ UNCHANGED <<state, queue, abortFlag, abortedTurn, shutdown, batch, calls, attempts, at, holding,
                   tail, aborter, aborts, stopped, left, answered, jobVars>>

WorthSweepingMany == Len(parked) > 1
WorthSweeping == parked # <<>>

(* The watchdog's sweep flushes whatever is parked, busy or not.           *)
Sweep ==
    /\ hand["sweep"] = <<>>
    /\ WorthSweeping
    /\ Drain("sweep")
    /\ UNCHANGED <<sessionVars, worker, told>>

WorkerStep(j) ==
    \/ CheckBusy(j)
    \/ Park(j)
    \/ Recheck(j)
    \/ EndWorker(j)
    \/ TellTicket(j)

JobStep ==
    \/ \E j \in Jobs : JobFinishes(j) \/ WorkerStep(j)
    \/ \E f \in Flushers : Enqueue(f)
    \/ DrainAtTurnEnd
    \/ EndFlush

SessionRuns == SessionStep(Inputs \ Jobs) /\ UNCHANGED jobVars

JobNext == SessionRuns \/ JobStep

(* Threads that run keep running.                                          *)
JobFairness ==
    /\ SessionFairness
    /\ \A j \in Jobs : WF_vars(WorkerStep(j))
    /\ \A f \in Flushers : WF_vars(Enqueue(f))
    /\ WF_vars(DrainAtTurnEnd) /\ WF_vars(EndFlush)

(* Without the sweep, and with it.                                         *)
JobSpec == JobInit /\ [][JobNext]_vars /\ JobFairness
SweptSpec == JobInit /\ [][JobNext \/ Sweep]_vars /\ JobFairness /\ WF_vars(Sweep)

-------------------------------------------------------------------------------
JobTypeOK ==
    /\ worker \in [Jobs -> {"polling", "check", "park", "recheck", "flush", "done"}]
    /\ parked \in Seq(Jobs) /\ Len(parked) <= MaxParked
    /\ hand \in [Flushers -> Seq(Jobs)]
    /\ told \subseteq Jobs

Count(j, results) == Cardinality({n \in DOMAIN results : results[n] = j})

(* Three threads drain one buffer, yet each result that reached the        *)
(* backend is in exactly one of the buffer, one thread's hand and the      *)
(* session: no result starts two turns and none evaporates on the way.     *)
ResultOnce ==
    /\ JobTypeOK
    /\ \A j \in Jobs :
        Count(j, parked)
        + Cardinality({f \in Flushers : Count(j, hand[f]) > 0})
        + (IF at[j] = "outside" THEN 0 ELSE 1)
        = IF worker[j] \in {"polling", "check", "park"} THEN 0 ELSE 1

(* A flush of the buffer is certain: a turn is coming or running that has  *)
(* not flushed yet, or the worker that parked last is about to look again. *)
FlushComes ==
    \/ \E j \in Jobs : worker[j] = "recheck"
    \/ queue # <<>>
    \/ In("marked") # {} \/ Collected # {} \/ holding # NoCell
    \/ consumer \in {"drain", "begin", "flush"} \/ InTurn

(* Terminal output that was no more than a prompt leaves the session       *)
(* looking busy, and nothing on its way to end that.                       *)
LeftCollecting == state = "collecting" /\ In("bare") # {}

(* Until a user asks for an abort, or the session is removed, no parked    *)
(* result depends on the sweep, except behind a bare prompt: there it does *)
(* wait, against "nothing waits artificially" (local_server.py:1543).      *)
Undisturbed == aborts = 0 /\ aborter = "ready" /\ ~ shutdown

ParkedHasFlusher == Undisturbed /\ parked # <<>> => FlushComes \/ LeftCollecting

(* The sweep makes up for the flushes that aborts skip: a result that      *)
(* reached the backend ends in a turn, or is refused by a full queue, or   *)
(* is cleared with the queue by a user.                                    *)
ResultSettles ==
    \A j \in Jobs :
        worker[j] = "check" ~>
            at[j] \in {"done", "rejected", "crashed", "missed", "cleared"}
===============================================================================
