----------------------------- MODULE ReplyTickets -----------------------------
(***************************************************************************)
(* ReplyTicketManager (backend/app/services/agent/reply_ticket.py): the    *)
(* table of the answers the agent owes, its copy in the state store, the   *)
(* turns, jobs and tools that deliver or fail a ticket, and the watchdog   *)
(* that closes what nobody finishes (task_watchdog.py).  The tickets are   *)
(* those of QQ conversations; web tickets are never superseded or silently *)
(* finalized.                                                              *)
(*                                                                         *)
(* Every step is one critical section of the manager's lock, or a piece of *)
(* work done between two of them.  Ages are kept in three classes; a tick  *)
(* takes every ticket to its next class.                                   *)
(***************************************************************************)
EXTENDS Naturals, FiniteSets

CONSTANTS
    Tickets,       \* ticket ids, each created once
    Used,          \* the tickets worked on, whose rows the store may lose: bounds
                   \* what is explored of the others
    Callers,       \* threads that use tickets: turns, job workers, handlers
    SourceOf,      \* the conversation of each ticket
    NoTicket,
    MaxUses,       \* bound on the calls of a ticket's users
    MaxLapses,     \* bound on the steps in which the state store fails
    SteadyFrom,    \* bound: after so many calls the state store fails no more
    MaxCrashes     \* bound on the backend's crashes

ASSUME SentinelAssumption == NoTicket \notin Tickets
ASSUME SourceAssumption == DOMAIN SourceOf = Tickets
ASSUME UsedAssumption == Used \subseteq Tickets
ASSUME BoundsAssumption ==
    MaxUses \in Nat /\ MaxLapses \in Nat /\ SteadyFrom \in Nat /\ MaxCrashes \in Nat

VARIABLES
    table,     \* _tickets
    stored,    \* the rows of the state store
    missed,    \* history: the tickets whose last store operation was swallowed
    age,       \* how long ago each ticket was touched
    saver,     \* the payload a creator is about to store, see ReadForSave
    born,      \* the tickets created so far
    told,      \* history: what of each ticket has gone to its source, see Tell
    pc,        \* where each caller is
    on,        \* the ticket each caller works on
    verdict,   \* what the watchdog has decided about the ticket it looked at
    up,        \* the backend runs
    uses,
    lapses,
    crashes

vars == <<table, stored, missed, age, saver, born, told, pc, on, verdict, up, uses,
          lapses, crashes>>

store == <<stored, missed, lapses>>

Fresh == 0
Stale == 1     \* older than ORPHAN_TICKET_STALE
Expired == 2   \* older than TICKET_TTL

Ages == {Fresh, Stale, Expired}

Final == {"delivered", "failed"}
Statuses == Final \cup {"pending", "running", "completed", "sending"}

None == [status |-> "none", reported |-> FALSE]
New == [status |-> "pending", reported |-> FALSE]
Inserted == [status |-> "inserted", reported |-> FALSE]

There(t) == table[t] # None

Init ==
    /\ table = [t \in Tickets |-> None]
    /\ stored = [t \in Tickets |-> None]
    /\ missed = {}
    /\ age = [t \in Tickets |-> Fresh]
    /\ saver = [t \in Tickets |-> None]
    /\ born = {}
    /\ told = [t \in Tickets |-> "nothing"]
    /\ pc = [c \in Callers |-> "idle"]
    /\ on = [c \in Callers |-> NoTicket]
    /\ verdict = [ticket |-> NoTicket, act |-> "none"]
    /\ up = TRUE
    /\ uses = 0 /\ lapses = 0 /\ crashes = 0

(* The rows of the tickets in T are written, or deleted (None).  The store *)
(* is "best-effort" (state_store.py:8): the failure of any of them is      *)
(* logged and swallowed, and the ticket's row stays behind, like those of  *)
(* the tickets in behind, until it is written again.                       *)
StoreFrom(behind, T, rows) ==
    \E lost \in SUBSET (T \cap Used) :
        /\ lapses' = IF lost = {} THEN lapses ELSE lapses + 1
        /\ lapses' <= MaxLapses
        /\ lost # {} => uses < SteadyFrom
        /\ stored' = [t \in Tickets |-> IF t \in T \ lost THEN rows[t] ELSE stored[t]]
        /\ missed' = (behind \ T) \cup lost

Store(T, rows) == StoreFrom(missed, T, rows)

NoRows == [t \in Tickets |-> None]

PutUnstored(t, entry) ==
    /\ table' = [table EXCEPT ![t] = entry]
    /\ age' = [age EXCEPT ![t] = Fresh]
    /\ UNCHANGED store

(* A ticket is changed, touched and stored in one critical section,        *)
(* whether the store takes it or not.                                      *)
Put(t, entry) ==
    /\ table' = [table EXCEPT ![t] = entry]
    /\ Store({t}, table')
    /\ age' = [age EXCEPT ![t] = Fresh]

Untouched == UNCHANGED <<table, store, age>>

ClosedAsFailed(entry) == [entry EXCEPT !.status = "failed"]

(* What closing makes of a ticket nobody finished: delivered when a report *)
(* of it is known to have reached its source, else failed.                 *)
Closed(entry) == [entry EXCEPT !.status = IF entry.reported THEN "delivered" ELSE "failed"]

-------------------------------------------------------------------------------
(* Creation.                                                               *)

(* _prune_locked takes the tickets past their TTL out of the table and out *)
(* of the store.                                                           *)
Prunable == {t \in Tickets : There(t) /\ age[t] = Expired}

Without(T, rows) == [t \in Tickets |-> IF t \in T THEN None ELSE rows[t]]

(* The older tickets a new message of the conversation may close: neither  *)
(* final nor being sent.  Those that hold a plan are left; which ones do   *)
(* is left open.                                                           *)
Supersedable(t) ==
    {u \in Tickets \ {t} :
        /\ There(u) /\ age[u] # Expired
        /\ SourceOf[u] = SourceOf[t]
        /\ table[u].status \notin Final \cup {"sending"}}

After(closing) ==
    [u \in Tickets |-> IF u \in closing THEN Closed(table[u])
                       ELSE Without(Prunable, table)[u]]

(* create_for_agent under the lock.                                        *)
Create(t) ==
    /\ up
    /\ t \notin born
    /\ born' = born \cup {t}
    /\ \E closing \in SUBSET Supersedable(t) :
          /\ table' = [After(closing) EXCEPT ![t] = New]
          /\ Store(closing \cup Prunable, After(closing))
          /\ age' = [u \in Tickets |-> IF u \in closing THEN Fresh ELSE age[u]]
    /\ saver' = [saver EXCEPT ![t] = Inserted]
    /\ UNCHANGED <<told, pc, on, verdict, up, uses, crashes>>

(* _persist_ticket outside the lock, in two steps: the fields are read ... *)
ReadForSave(t) ==
    /\ up
    /\ saver[t] = Inserted
    /\ saver' = [saver EXCEPT ![t] = table[t]]
    /\ UNCHANGED <<table, store, age, born, told, pc, on, verdict, up, uses, crashes>>

(* ... and committed, whatever was stored in between.                      *)
SaveCreated(t) ==
    /\ up
    /\ saver[t] \notin {None, Inserted}
    /\ Store({t}, saver)
    /\ saver' = [saver EXCEPT ![t] = None]
    /\ UNCHANGED <<table, age, born, told, pc, on, verdict, up, uses, crashes>>

(* snapshot() for the task board prunes as well.                           *)
Snapshot ==
    /\ up
    /\ table' = Without(Prunable, table)
    /\ Store(Prunable, NoRows)
    /\ UNCHANGED <<age, saver, born, told, pc, on, verdict, up, uses, crashes>>

-------------------------------------------------------------------------------
(* The users of a ticket: they know its id once its creation has returned. *)

Usable(t) == t \in Used /\ up /\ There(t) /\ saver[t] = None

Goes(c, place, t) == pc' = [pc EXCEPT ![c] = place] /\ on' = [on EXCEPT ![c] = t]

Leaves(c) == Goes(c, "idle", NoTicket)

Same == UNCHANGED <<saver, born, verdict, up, crashes>>

Use == uses < MaxUses /\ uses' = uses + 1

(* mark_command: a job starts, also on a ticket that is closed.            *)
MarkCommand(t) ==
    /\ Usable(t) /\ Use
    /\ Put(t, [table[t] EXCEPT !.status = "running"])
    /\ UNCHANGED <<told, pc, on>> /\ Same

(* update_ticket_plan: the status stays as it is.                          *)
UpdatePlan(t) ==
    /\ Usable(t) /\ Use
    /\ Put(t, table[t])
    /\ UNCHANGED <<told, pc, on>> /\ Same

(* mark_completed: the agent has chosen to say nothing.                    *)
MarkCompleted(t) ==
    /\ Usable(t) /\ Use
    /\ Put(t, [table[t] EXCEPT !.status = IF @ = "delivered" THEN @ ELSE "completed"])
    /\ UNCHANGED <<told, pc, on>> /\ Same

Answered(entry) == [entry EXCEPT !.status = "delivered"]

(* A text goes to the source on another way than deliver: by the final     *)
(* answer of a turn on the ticket's own route, or by the send tool.  Of    *)
(* the tool the session reads the result: the summary of a send to several *)
(* targets counts as a successful one (internal_trace.py:131) though every *)
(* target may have failed, or only other conversations were sent to: then  *)
(* the text is claimed, and may have reached nobody of the ticket's source.*)
Tell(c, t) ==
    /\ Usable(t)
    /\ pc[c] = "idle"
    /\ \/ told' = [told EXCEPT ![t] = "text"]
       \/ told' = [told EXCEPT ![t] = IF @ = "nothing" THEN "claimed" ELSE @]
    /\ Goes(c, "told", t)
    /\ Use /\ Untouched /\ Same

(* mark_external_report_sent, which sessions call before mark_delivered    *)
(* and web requests at their end.                                          *)
MarkReported(c) ==
    /\ up
    /\ pc[c] \in {"told", "settled"}
    /\ IF There(on[c]) /\ ~ table[on[c]].reported
       THEN Put(on[c], [table[on[c]] EXCEPT !.reported = TRUE])
       ELSE Untouched
    /\ IF pc[c] = "told" THEN Goes(c, "reported", on[c]) ELSE Leaves(c)
    /\ UNCHANGED <<told, uses>> /\ Same

(* mark_delivered: of the ticket, if it is still in the table.             *)
MarkDelivered(c) ==
    /\ up
    /\ pc[c] \in {"told", "reported", "sent"}
    /\ IF There(on[c]) THEN Put(on[c], Answered(table[on[c]])) ELSE Untouched
    /\ IF pc[c] = "told" THEN Goes(c, "settled", on[c]) ELSE Leaves(c)
    /\ UNCHANGED <<told, uses>> /\ Same

(* mark_failed at the end of a turn that was stopped; unless the failure   *)
(* is a quiet one, the caller then delivers its report on the same ticket. *)
MarkFailed(c, t, quiet) ==
    /\ Usable(t)
    /\ pc[c] = "idle"
    /\ Put(t, [table[t] EXCEPT !.status = "failed"])
    /\ IF quiet THEN UNCHANGED <<pc, on>> ELSE Goes(c, "failing", t)
    /\ Use
    /\ UNCHANGED told /\ Same

(* The call ends, also without the mark it might have set.                 *)
EndCall(c) ==
    /\ up
    /\ pc[c] \in {"reported", "settled"}
    /\ Leaves(c)
    /\ UNCHANGED <<told, uses>> /\ Untouched /\ Same

RefusedWhileSending(t) == ~ There(t) \/ table[t].status \in {"delivered", "sending"}

(* deliver, its first critical section: a delivered ticket is refused, ... *)
Refused(t) == ~ There(t) \/ table[t].status = "delivered"

(* ... one that was reported through the send tool is only finalized,      *)
(* unless it is marked as failed; any other is sent.                       *)
Finalized(t) == table[t].reported /\ table[t].status # "failed"

Deliver(c, t) ==
    /\ up
    /\ \/ pc[c] = "idle" /\ Usable(t) /\ Use
       \/ pc[c] = "failing" /\ on[c] = t /\ UNCHANGED uses
    /\ IF Refused(t) THEN Leaves(c) /\ Untouched
       ELSE IF Finalized(t) THEN Leaves(c) /\ Put(t, Answered(table[t]))
       ELSE Goes(c, "sending", t) /\ Put(t, [table[t] EXCEPT !.status = "sending"])
    /\ UNCHANGED told /\ Same

(* The send outside the lock succeeds, and mark_delivered follows ...      *)
Send(c) ==
    /\ up
    /\ pc[c] = "sending"
    /\ told' = [told EXCEPT ![on[c]] = "text"]
    /\ pc' = [pc EXCEPT ![c] = "sent"]
    /\ UNCHANGED <<on, uses>> /\ Untouched /\ Same

AfterFailedSendDelivered(entry) == [entry EXCEPT !.status = "delivered"]

AfterFailedSend(entry) == [entry EXCEPT !.status = "failed"]

(* ... or raises, and the ticket is marked as failed whatever it is now.   *)
SendFails(c) ==
    /\ up
    /\ pc[c] = "sending"
    /\ IF There(on[c]) THEN Put(on[c], AfterFailedSend(table[on[c]])) ELSE Untouched
    /\ Leaves(c)
    /\ UNCHANGED <<told, uses>> /\ Same

-------------------------------------------------------------------------------
(* The watchdog's pass over the tickets, _remove_orphan_tickets.           *)

VerdictNeverRemoves(t) ==
    IF age[t] = Stale /\ table[t].status \notin Final THEN "close" ELSE "none"

(* Closed when idle for ten minutes and not final, removed after its TTL.  *)
Verdict(t) ==
    CASE age[t] = Expired -> "remove"
      [] age[t] = Stale /\ table[t].status \notin Final -> "close"
      [] OTHER -> "none"

(* The look at a ticket of the list, without the lock.  The list was taken *)
(* before; a ticket that has left the table since is left alone.           *)
Judge(t) ==
    /\ up
    /\ verdict.act = "none"
    /\ There(t)
    /\ Verdict(t) # "none"
    /\ verdict' = [ticket |-> t, act |-> Verdict(t)]
    /\ UNCHANGED <<table, store, age, saver, born, told, pc, on, up, uses, crashes>>

Decided == [ticket |-> NoTicket, act |-> "none"]

(* The second look, under the lock, is at the status only.                 *)
StillOpen(t) == There(t) /\ table[t].status \notin Final

CloseStale ==
    /\ up
    /\ verdict.act = "close"
    /\ IF StillOpen(verdict.ticket)
       THEN Put(verdict.ticket, Closed(table[verdict.ticket]))
       ELSE Untouched
    /\ verdict' = Decided
    /\ UNCHANGED <<saver, born, told, pc, on, up, uses, crashes>>

(* The removal looks at nothing again; the row goes after the lock.        *)
RemoveExpired ==
    /\ up
    /\ verdict.act = "remove"
    /\ table' = [table EXCEPT ![verdict.ticket] = None]
    /\ verdict' = [verdict EXCEPT !.act = "purge"]
    /\ UNCHANGED <<store, age, saver, born, told, pc, on, up, uses, crashes>>

Purge ==
    /\ up
    /\ verdict.act = "purge"
    /\ Store({verdict.ticket}, NoRows)
    /\ verdict' = Decided
    /\ UNCHANGED <<table, age, saver, born, told, pc, on, up, uses, crashes>>

(* Time passes; between the two looks at a ticket it takes no tick.        *)
Tick ==
    /\ verdict = Decided
    /\ age' = [t \in Tickets |-> IF (There(t) \/ stored[t] # None) /\ age[t] < Expired
                                 THEN age[t] + 1 ELSE age[t]]
    /\ UNCHANGED <<table, store, saver, born, told, pc, on, verdict, up, uses, crashes>>

-------------------------------------------------------------------------------
Crash ==
    /\ up
    /\ crashes < MaxCrashes
    /\ crashes' = crashes + 1
    /\ up' = FALSE
    /\ table' = [t \in Tickets |-> None]
    /\ saver' = [t \in Tickets |-> None]
    /\ pc' = [c \in Callers |-> "idle"]
    /\ on' = [c \in Callers |-> NoTicket]
    /\ verdict' = Decided
    /\ UNCHANGED <<store, age, born, told, uses>>

(* A row says when it was written: one left behind is older than its ticket*)
(* was.                                                                    *)
Reads(ages) ==
    \A t \in Tickets :
        IF t \in missed /\ stored[t] # None THEN ages[t] >= age[t] ELSE ages[t] = age[t]

(* restore_tickets_from_store: the rows are loaded and pruned ...          *)
Load(ages) ==
    LET dead == {t \in Tickets : stored[t] # None /\ ages[t] = Expired}
    IN /\ age' = ages
       /\ table' = Without(dead, stored)
       /\ StoreFrom({}, dead, NoRows)

(* ... or the store fails, and no row is loaded.                           *)
LoadFails ==
    /\ lapses < MaxLapses /\ lapses' = lapses + 1
    /\ missed' = {t \in Tickets : stored[t] # None}
    /\ UNCHANGED <<table, stored, age>>

Restart ==
    /\ ~ up
    /\ up' = TRUE
    /\ \/ \E ages \in [Tickets -> Ages] : Reads(ages) /\ Load(ages)
       \/ LoadFails
    /\ UNCHANGED <<saver, born, told, pc, on, verdict, uses, crashes>>

CallerStep(c) ==
    \/ MarkReported(c)
    \/ MarkDelivered(c)
    \/ EndCall(c)
    \/ (pc[c] = "failing" /\ Deliver(c, on[c]))
    \/ Send(c)
    \/ SendFails(c)

WatchdogActs ==
    \/ CloseStale
    \/ RemoveExpired
    \/ Purge

Next ==
    \/ \E t \in Tickets :
          \/ Create(t)
          \/ ReadForSave(t)
          \/ SaveCreated(t)
          \/ MarkCommand(t)
          \/ UpdatePlan(t)
          \/ MarkCompleted(t)
          \/ \E c \in Callers :
                \/ Tell(c, t)
                \/ \E quiet \in BOOLEAN : MarkFailed(c, t, quiet)
                \/ Deliver(c, t)
    \/ Snapshot
    \/ \E c \in Callers : CallerStep(c)
    \/ \E t \in Tickets : Judge(t)
    \/ WatchdogActs
    \/ Tick
    \/ Crash
    \/ Restart

(* The watchdog goes on from ticket to ticket; it, the callers inside a     *)
(* call, the creators, the clock and the supervisor that restarts the      *)
(* backend go on; nobody has to use, answer or fail a ticket.              *)
Fairness ==
    /\ SF_vars(Tick) /\ SF_vars(\E t \in Tickets : Judge(t))
    /\ WF_vars(WatchdogActs \/ Restart)
    /\ WF_vars(\E c \in Callers : CallerStep(c))
    /\ WF_vars(\E t \in Tickets : ReadForSave(t) \/ SaveCreated(t))

Spec == Init /\ [][Next]_vars /\ Fairness

-------------------------------------------------------------------------------
Rows == [status : Statuses, reported : BOOLEAN] \cup {None}

Verdicts == [ticket : Tickets, act : {"close", "remove", "purge"}] \cup {Decided}

TypeOK ==
    /\ table \in [Tickets -> Rows]
    /\ stored \in [Tickets -> Rows]
    /\ missed \subseteq Tickets
    /\ age \in [Tickets -> Ages]
    /\ saver \in [Tickets -> Rows \cup {Inserted}]
    /\ born \subseteq Tickets
    /\ told \in [Tickets -> {"nothing", "claimed", "text"}]
    /\ pc \in [Callers -> {"idle", "told", "reported", "settled", "failing", "sending",
                           "sent"}]
    /\ on \in [Callers -> Tickets \cup {NoTicket}]
    /\ \A c \in Callers : (on[c] = NoTicket) <=> (pc[c] = "idle")
    /\ verdict \in Verdicts
    /\ up \in BOOLEAN
    /\ uses \in 0 .. MaxUses /\ lapses \in 0 .. MaxLapses /\ crashes \in 0 .. MaxCrashes

ClaimsAnswer(entry) == entry.status = "delivered" \/ entry.reported

(* A ticket is shown as delivered, or as reported, only when a text of it  *)
(* has reached its source or the send tool's summary has claimed one: in   *)
(* the table and in the store a restart reads, through failed sends, lost  *)
(* writes, superseding, the watchdog and crashes.  A claim is all the code *)
(* has of a send to several targets, see Tell: "counts as a real delivery" *)
(* (session.py:3314) is more than it knows.                                *)
DeliveredWasTold ==
    \A t \in Tickets :
        ClaimsAnswer(table[t]) \/ ClaimsAnswer(stored[t]) => told[t] # "nothing"

(* What a restart brings back of a ticket is what the table says of it, or *)
(* the ticket as it was created when a newer message superseded it during  *)
(* the creator's unlocked save; of a ticket that is gone, nothing it does  *)
(* not prune at once, unless the watchdog is between the two deletions.  A *)
(* write or a deletion the store swallowed leaves its own ticket behind,   *)
(* no other, and the ticket's next write makes it good.                    *)
StoreIsCurrent ==
    /\ TypeOK
    /\ up => \A t \in Tickets \ missed :
        saver[t] = None =>
            IF There(t) THEN stored[t] \in {table[t], New}
            ELSE \/ stored[t] = None \/ age[t] = Expired
                 \/ verdict = [ticket |-> t, act |-> "purge"]

(* The report of a failed turn is dropped only on a ticket whose source    *)
(* has already been told something, a claimed send included (see Tell), or *)
(* that is gone: two deliveries, a late mark and the watchdog may race with*)
(* it ("Failure reports always go through", reply_ticket.py:763, is more   *)
(* than the code does).                                                    *)
NoSilentFailure ==
    [][\A c \in Callers :
          pc[c] = "failing" /\ pc'[c] = "idle" /\ up'
          => told[on[c]] # "nothing" \/ ~ There(on[c])]_vars

(* Closing a ticket, by a newer message or by the watchdog (the steps that *)
(* change saver or verdict), never shows as failed one whose report is     *)
(* known to have reached its source (reply_ticket.py:325).                 *)
ReportIsKept ==
    [][\A t \in Tickets :
          /\ There(t) /\ table[t].reported /\ table[t].status # "failed"
          /\ table'[t].status = "failed"
          => UNCHANGED <<saver, verdict>>]_vars

(* No ticket stays open for ever: what its turn, a crash or a lost input   *)
(* leaves behind, the watchdog closes (task_watchdog.py:26), though the    *)
(* store may lose what it writes.                                          *)
TicketCloses ==
    \A t \in Used : StillOpen(t) ~> ~ StillOpen(t)
===============================================================================
