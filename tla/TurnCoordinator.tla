---------------------------- MODULE TurnCoordinator ----------------------------
(***************************************************************************)
(* AgentTurnCoordinator (backend/app/services/agent/turn_coordinator.py):  *)
(* one FIFO lease per key, shared by blocking callers (session consumers)  *)
(* and polling ones (HTTP handlers on the event loop).                     *)
(*                                                                         *)
(* A caller has at most one request or lease at a time, so it stands for   *)
(* the fresh token of that request.  Every step is one critical section of *)
(* the coordinator's condition variable.                                   *)
(***************************************************************************)
EXTENDS Naturals, Sequences, SequencesExt

CONSTANTS Sync,       \* callers that block in acquire()
          Async,      \* callers that poll in acquire_async()
          Keys,       \* turn keys: one per item handler
          NoKey,      \* the key of a caller that has not asked yet
          NoToken,    \* no active lease
          MaxResets   \* bound on the calls of reset() explored

Callers == Sync \cup Async

ASSUME CallersAssumption == NoToken \notin Callers
ASSUME BoundAssumption == MaxResets \in Nat

VARIABLES
    queue,    \* _queues: the waiting tokens of each key, oldest first
    active,   \* _active: the token that holds the lease of each key
    pc,       \* where each caller is
    key,      \* the key each caller asked for last
    resets    \* calls of reset() so far

vars == <<queue, active, pc, key, resets>>

Waiting == {"check", "asleep", "poll"}

Init ==
    /\ queue = [k \in Keys |-> <<>>]
    /\ active = [k \in Keys |-> NoToken]
    /\ pc = [c \in Callers |-> "idle"]
    /\ key = [c \in Callers |-> NoKey]
    /\ resets = 0

-------------------------------------------------------------------------------
NotifiedNobody(p) == p

(* notify_all() wakes every blocking waiter of the one shared condition. *)
Notified(p) == [c \in Callers |-> IF p[c] = "asleep" THEN "check" ELSE p[c]]

EnqueuedInFront(q, c) == <<c>> \o q
EnqueuedNothing(q, c) == Append(q, NoToken)

(* A new token goes to the end of its key's line. *)
Enqueued(q, c) == Append(q, c)

CancelledNot(q, c) == q

(* The line without the token of a caller that gives up. *)
Cancelled(q, c) ==
    IF Contains(q, c) THEN RemoveAt(q, CHOOSE i \in DOMAIN q : q[i] = c) ELSE q

FreedAnyway(holder, c) == NoToken
FreedNever(holder, c) == holder

(* What release leaves in the table: it clears only its own token. *)
Freed(holder, c) == IF holder = c THEN NoToken ELSE holder

(* _enqueue: the first critical section of acquire() and acquire_async(). *)
Enqueue(c, k) ==
    /\ pc[c] = "idle"
    /\ queue' = [queue EXCEPT ![k] = Enqueued(@, c)]
    /\ pc' = [Notified(pc) EXCEPT ![c] = IF c \in Sync THEN "check" ELSE "poll"]
    /\ key' = [key EXCEPT ![c] = k]
    /\ UNCHANGED <<active, resets>>

CanClaimRunning(c) ==
    /\ queue[key[c]] # <<>>
    /\ Head(queue[key[c]]) = c

(* The test of _try_claim: first in line, and no turn of this key runs. *)
CanClaim(c) ==
    /\ queue[key[c]] # <<>>
    /\ Head(queue[key[c]]) = c
    /\ active[key[c]] = NoToken

(* _try_claim returns True: the caller has its lease and its turn runs. *)
Claim(c) ==
    /\ pc[c] \in {"check", "poll"}
    /\ CanClaim(c)
    /\ queue' = [queue EXCEPT ![key[c]] = Tail(@)]
    /\ active' = [active EXCEPT ![key[c]] = c]
    /\ pc' = [pc EXCEPT ![c] = "turn"]
    /\ UNCHANGED <<key, resets>>

(* _try_claim returns False in acquire(): wait() for the next notify_all. *)
Sleep(c) ==
    /\ pc[c] = "check"
    /\ ~ CanClaim(c)
    /\ pc' = [pc EXCEPT ![c] = "asleep"]
    /\ UNCHANGED <<queue, active, key, resets>>

(* acquire_async() past its deadline, or its task cancelled between two    *)
(* polls: _cancel_waiter and an exception.                                 *)
GiveUp(c) ==
    /\ c \in Async
    /\ pc[c] = "poll"
    /\ queue' = [queue EXCEPT ![key[c]] = Cancelled(@, c)]
    /\ pc' = [Notified(pc) EXCEPT ![c] = "idle"]
    /\ UNCHANGED <<active, key, resets>>

(* AgentTurnLease.release at the end of the turn, however it ended: the    *)
(* table is changed only when it still names this token.                   *)
Release(c) ==
    /\ pc[c] = "turn"
    /\ active' = [active EXCEPT ![key[c]] = Freed(@, c)]
    /\ pc' = [Notified(pc) EXCEPT ![c] = "idle"]
    /\ UNCHANGED <<queue, key, resets>>

(* reset(): forgets every request and every lease, running turns included. *)
Reset ==
    /\ resets < MaxResets
    /\ queue' = [k \in Keys |-> <<>>]
    /\ active' = [k \in Keys |-> NoToken]
    /\ pc' = Notified(pc)
    /\ resets' = resets + 1
    /\ UNCHANGED key

Next ==
    \/ \E c \in Callers :
          \/ \E k \in Keys : Enqueue(c, k)
          \/ Claim(c)
          \/ Sleep(c)
          \/ GiveUp(c)
          \/ Release(c)
    \/ Reset

(* A thread or a polling task that can run does run, and a turn ends: an   *)
(* LLM call has its own timeout.  Nobody has to ask, give up or reset.     *)
Fairness ==
    \A c \in Callers : WF_vars(Claim(c)) /\ WF_vars(Sleep(c)) /\ WF_vars(Release(c))

Spec == Init /\ [][Next]_vars /\ Fairness

-------------------------------------------------------------------------------
TypeOK ==
    /\ queue \in [Keys -> Seq(Callers)]
    /\ active \in [Keys -> Callers \cup {NoToken}]
    /\ pc \in [Callers -> {"idle", "turn"} \cup Waiting]
    /\ key \in [Callers -> Keys \cup {NoKey}]
    /\ \A c \in Callers : pc[c] # "idle" => key[c] \in Keys
    /\ resets \in 0 .. MaxResets

(* The agent of one handler never runs two turns at the same time, as long *)
(* as nobody reset the table under a running turn ("Serializes all turns   *)
(* that share one mutable Agent instance", turn_coordinator.py:31).        *)
MutualExclusion ==
    resets = 0 =>
        \A c, d \in Callers :
            pc[c] = "turn" /\ pc[d] = "turn" /\ key[c] = key[d] => c = d

(* Whatever was reset, the table names only a caller whose turn for that   *)
(* very key is running: no key stays locked by someone who has left.       *)
LeaseHasRunningTurn ==
    \A k \in Keys : active[k] # NoToken => pc[active[k]] = "turn" /\ key[active[k]] = k

(* A blocking waiter that could take the turn is never left asleep: every  *)
(* change that makes a claim possible has notified it.                     *)
NoLostWakeup == \A c \in Callers : pc[c] = "asleep" => ~ CanClaim(c)

(* A lease is taken away only by its own holder's release or by a reset:   *)
(* the late release of a lease that a reset made stale frees nobody else's.*)
OnlyHolderReleases ==
    [][\A k \in Keys :
          active[k] # NoToken /\ active'[k] # active[k]
          => pc'[active[k]] = "idle" \/ resets' # resets]_vars

(* A blocking caller gets its turn whatever the others do, the ones that   *)
(* give up at the head of the line included, unless a reset forgets it.    *)
WaiterIsServed == \A c \in Sync : pc[c] = "check" ~> pc[c] = "turn" \/ resets # 0

-------------------------------------------------------------------------------
(* The line of a key: the caller whose turn runs, then the waiting ones.   *)
Holders(k) == {c \in Callers : pc[c] = "turn" /\ key[c] = k}

Line ==
    [k \in Keys |-> IF resets = 0 THEN SetToSeq(Holders(k)) \o queue[k] ELSE <<>>]

Running == [k \in Keys |-> resets = 0 /\ Holders(k) # {}]

Lock == INSTANCE TurnLock WITH asked <- Line, running <- Running

(* Until it is reset the coordinator is a first-come-first-served lock, and *)
(* one that never sits idle while somebody is in line.                     *)
ImplementsTurnLock == Lock!LockSpec
===============================================================================
