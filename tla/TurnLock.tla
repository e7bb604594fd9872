------------------------------- MODULE TurnLock -------------------------------
(***************************************************************************)
(* What AgentTurnCoordinator promises to its callers, without its table of *)
(* leases: per key one turn at a time, granted to a caller nobody who is   *)
(* still there asked before.                                               *)
(*                                                                         *)
(* asked[k] is the line of callers that want or have the turn of key k, in *)
(* the order they asked; running[k] tells whether its first one has it.    *)
(***************************************************************************)
EXTENDS Sequences, SequencesExt

CONSTANTS Callers, Keys

VARIABLES asked, running

lockVars == <<asked, running>>

LockInit ==
    /\ asked = [k \in Keys |-> <<>>]
    /\ running = [k \in Keys |-> FALSE]

Ask(c, k) ==
    /\ \A j \in Keys : ~ Contains(asked[j], c)
    /\ asked' = [asked EXCEPT ![k] = Append(@, c)]
    /\ UNCHANGED running

Start(c, k) ==
    /\ asked[k] # <<>>
    /\ Head(asked[k]) = c
    /\ ~ running[k]
    /\ running' = [running EXCEPT ![k] = TRUE]
    /\ UNCHANGED asked

End(k) ==
    /\ running[k]
    /\ running' = [running EXCEPT ![k] = FALSE]
    /\ asked' = [asked EXCEPT ![k] = Tail(@)]

(* A caller that has not started its turn may leave the line. *)
Leave(c, k) ==
    /\ \E i \in DOMAIN asked[k] :
          /\ asked[k][i] = c
          /\ running[k] => i # 1
          /\ asked' = [asked EXCEPT ![k] = RemoveAt(@, i)]
    /\ UNCHANGED running

(* A reset: the lock forgets every caller, and promises nothing to those   *)
(* it has forgotten.                                                       *)
Forfeit ==
    /\ asked' = [k \in Keys |-> <<>>]
    /\ running' = [k \in Keys |-> FALSE]

LockNext ==
    \/ \E k \in Keys :
          \/ End(k)
          \/ \E c \in Callers : Ask(c, k) \/ Start(c, k) \/ Leave(c, k)
    \/ Forfeit

(* The first caller in line gets the turn, unless it leaves before.        *)
LockFairness == \A c \in Callers, k \in Keys : WF_lockVars(Start(c, k))

LockSafety == LockInit /\ [][LockNext]_lockVars

LockSpec == LockSafety /\ LockFairness
===============================================================================
