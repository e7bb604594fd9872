-------------------------- MODULE ReplyTicketsProofs --------------------------
(***************************************************************************)
(* What the table of reply tickets and the state store say of an answer is *)
(* true, for all tickets, callers and bounds, and no report of a failure   *)
(* is dropped in silence.                                                  *)
(***************************************************************************)
EXTENDS ReplyTickets, TLAPS

(* The rows a step may make of a ticket's row, and what they claim.        *)
LEMMA RowFacts ==
    ASSUME NEW e \in Rows, e # None
    PROVE  /\ \A s \in Statuses : [e EXCEPT !.status = s] \in Rows
           /\ \A s \in Statuses \ {"delivered"} :
                 ClaimsAnswer([e EXCEPT !.status = s]) => ClaimsAnswer(e)
           /\ [e EXCEPT !.reported = TRUE] \in Rows
           /\ Closed(e) \in Rows /\ (ClaimsAnswer(Closed(e)) => ClaimsAnswer(e))
           /\ Answered(e) \in Rows
           /\ AfterFailedSend(e) \in Rows
           /\ (ClaimsAnswer(AfterFailedSend(e)) => ClaimsAnswer(e))
BY DEF Rows, Statuses, Final, None, ClaimsAnswer, Closed, Answered, AfterFailedSend

LEMMA PlainRows ==
    /\ None \in Rows /\ New \in Rows /\ New # None /\ Inserted \notin Rows /\ Inserted # None
    /\ ~ ClaimsAnswer(None) /\ ~ ClaimsAnswer(New) /\ ~ ClaimsAnswer(Inserted)
BY DEF Rows, Statuses, Final, None, New, Inserted, ClaimsAnswer

(* What a step of the store does to the row of each ticket: it is written, *)
(* or stays behind and is remembered as missed.                            *)
LEMMA StoreFacts ==
    ASSUME NEW behind \in SUBSET Tickets, NEW T \in SUBSET Tickets, NEW rows,
           StoreFrom(behind, T, rows)
    PROVE  \A t \in Tickets :
               /\ stored'[t] \in {stored[t], rows[t]}
               /\ t \in T => t \in missed' \/ stored'[t] = rows[t]
               /\ t \notin T => stored'[t] = stored[t] /\ (t \in missed' <=> t \in behind)
BY DEF StoreFrom

LEMMA StoreKeepsTypes ==
    ASSUME NEW behind \in SUBSET Tickets, NEW T \in SUBSET Tickets, NEW rows,
           StoreFrom(behind, T, rows), stored \in [Tickets -> Rows],
           \A t \in T : rows[t] \in Rows, lapses \in Nat
    PROVE  /\ stored' \in [Tickets -> Rows]
           /\ missed' \subseteq Tickets /\ lapses' \in 0 .. MaxLapses
BY BoundsAssumption DEF StoreFrom

TableOK ==
    /\ table \in [Tickets -> Rows]
    /\ stored \in [Tickets -> Rows]
    /\ age \in [Tickets -> Ages]
    /\ missed \in SUBSET Tickets /\ lapses \in 0 .. MaxLapses

CallersOK ==
    /\ pc \in [Callers -> {"idle", "told", "reported", "settled", "failing", "sending",
                           "sent"}]
    /\ on \in [Callers -> Tickets \cup {NoTicket}]
    /\ \A c \in Callers : (on[c] = NoTicket) <=> (pc[c] = "idle")
    /\ told \in [Tickets -> {"nothing", "claimed", "text"}]

RestOK ==
    /\ saver \in [Tickets -> Rows \cup {Inserted}]
    /\ born \subseteq Tickets
    /\ verdict \in Verdicts
    /\ up \in BOOLEAN
    /\ uses \in 0 .. MaxUses /\ crashes \in 0 .. MaxCrashes

LEMMA TypeParts == TypeOK <=> TableOK /\ CallersOK /\ RestOK
BY DEF TypeOK, TableOK, CallersOK, RestOK

(* A caller inside a call is at a ticket.                                  *)
LEMMA CallerHasTicket == CallersOK => \A c \in Callers : pc[c] # "idle" => on[c] \in Tickets
BY DEF CallersOK

LEMMA PutKeepsTable ==
    ASSUME TableOK, NEW t \in Tickets, NEW e \in Rows, Put(t, e)
    PROVE  TableOK'
<1>1. table' \in [Tickets -> Rows] /\ age' \in [Tickets -> Ages] /\ table'[t] = e
  BY DEF TableOK, Put, Ages
<1>2. /\ stored' \in [Tickets -> Rows]
      /\ missed' \subseteq Tickets /\ lapses' \in 0 .. MaxLapses
  <2>1. /\ StoreFrom(missed, {t}, table') /\ missed \in SUBSET Tickets
        /\ {t} \in SUBSET Tickets /\ lapses \in Nat /\ stored \in [Tickets -> Rows]
        /\ \A u \in {t} : table'[u] \in Rows
    BY <1>1, BoundsAssumption DEF TableOK, Put, Store
  <2> QED BY <2>1, StoreKeepsTypes
<1> QED BY <1>1, <1>2 DEF TableOK

LEMMA WithoutKeepsRows ==
    ASSUME NEW T, NEW rows \in [Tickets -> Rows]
    PROVE  Without(T, rows) \in [Tickets -> Rows]
BY PlainRows DEF Without

-------------------------------------------------------------------------------
LEMMA TableStep == TypeOK /\ [Next]_vars => TableOK'
<1> SUFFICES ASSUME TypeOK, [Next]_vars PROVE TableOK'
  OBVIOUS
<1>0. /\ TableOK /\ CallersOK /\ RestOK
      /\ table \in [Tickets -> Rows] /\ stored \in [Tickets -> Rows]
      /\ age \in [Tickets -> Ages]
      /\ \A t \in Tickets : table[t] \in Rows
  BY TypeParts DEF TableOK
<1>1. ASSUME NEW t \in Tickets, Create(t) PROVE TableOK'
  <2>1. PICK closing \in SUBSET Supersedable(t) :
          /\ table' = [After(closing) EXCEPT ![t] = New]
          /\ Store(closing \cup Prunable, After(closing))
          /\ age' = [u \in Tickets |-> IF u \in closing THEN Fresh ELSE age[u]]
    BY <1>1 DEF Create
  <2>2. \A u \in closing : u \in Tickets /\ Closed(table[u]) \in Rows
    BY <1>0, RowFacts DEF Supersedable, There
  <2>3. After(closing) \in [Tickets -> Rows]
    BY <1>0, <2>2, WithoutKeepsRows DEF After
  <2>4. closing \cup Prunable \in SUBSET Tickets
    BY <2>2 DEF Prunable
  <2>5. /\ stored' \in [Tickets -> Rows]
        /\ missed' \subseteq Tickets /\ lapses' \in 0 .. MaxLapses
    <3>1. /\ StoreFrom(missed, closing \cup Prunable, After(closing))
          /\ missed \in SUBSET Tickets /\ lapses \in Nat
          /\ \A u \in closing \cup Prunable : After(closing)[u] \in Rows
      BY <1>0, <2>1, <2>3, <2>4, BoundsAssumption DEF TableOK, Store
    <3> QED BY <1>0, <2>4, <3>1, StoreKeepsTypes
  <2>6. table' \in [Tickets -> Rows] /\ age' \in [Tickets -> Ages]
    BY <1>0, <2>1, <2>2, <2>3, PlainRows DEF Ages
  <2> QED BY <2>5, <2>6 DEF TableOK
<1>2. ASSUME NEW t \in Tickets, SaveCreated(t) PROVE TableOK'
  <2>1. saver[t] \in Rows
    BY <1>0, <1>2 DEF SaveCreated, RestOK
  <2>2. /\ stored' \in [Tickets -> Rows]
        /\ missed' \subseteq Tickets /\ lapses' \in 0 .. MaxLapses
    <3>1. /\ StoreFrom(missed, {t}, saver) /\ missed \in SUBSET Tickets
          /\ {t} \in SUBSET Tickets /\ lapses \in Nat
          /\ \A u \in {t} : saver[u] \in Rows
      BY <1>0, <1>2, <2>1, BoundsAssumption DEF SaveCreated, TableOK, Store
    <3> QED BY <1>0, <3>1, StoreKeepsTypes
  <2> QED BY <1>0, <1>2, <2>2 DEF SaveCreated, TableOK
<1>3. ASSUME NEW t \in Tickets, MarkCommand(t) \/ UpdatePlan(t) \/ MarkCompleted(t)
      PROVE TableOK'
  <2>1. table[t] \in Rows /\ table[t] # None
    BY <1>0, <1>3 DEF MarkCommand, UpdatePlan, MarkCompleted, Usable, There
  <2>2. PICK e \in Rows : Put(t, e)
    <3>1. CASE MarkCommand(t)
      BY <2>1, <3>1, RowFacts DEF MarkCommand, Statuses
    <3>2. CASE UpdatePlan(t)
      BY <2>1, <3>2 DEF UpdatePlan
    <3>3. CASE MarkCompleted(t)
      <4>1. table[t].status \in Statuses
        BY <2>1 DEF Rows
      <4> QED BY <2>1, <3>3, <4>1, RowFacts DEF MarkCompleted, Statuses, Final
    <3> QED BY <1>3, <3>1, <3>2, <3>3
  <2> QED BY <1>0, <2>2, PutKeepsTable
<1>4. ASSUME NEW c \in Callers, NEW t \in Tickets, Tell(c, t) PROVE TableOK'
  BY <1>0, <1>4 DEF Tell, Untouched, TableOK, store
<1>5. ASSUME NEW c \in Callers, NEW t \in Tickets, NEW quiet \in BOOLEAN, MarkFailed(c, t, quiet)
      PROVE TableOK'
  <2>1. [table[t] EXCEPT !.status = "failed"] \in Rows
    BY <1>0, <1>5, RowFacts DEF MarkFailed, Usable, There, Statuses, Final
  <2> QED BY <1>0, <1>5, <2>1, PutKeepsTable DEF MarkFailed
<1>6. ASSUME NEW c \in Callers, NEW t \in Tickets, Deliver(c, t) PROVE TableOK'
  <2>1. \/ Untouched
        \/ There(t) /\ Put(t, Answered(table[t]))
        \/ There(t) /\ Put(t, [table[t] EXCEPT !.status = "sending"])
    BY <1>6 DEF Deliver, Refused
  <2>2. There(t) => Answered(table[t]) \in Rows /\ [table[t] EXCEPT !.status = "sending"] \in Rows
    BY <1>0, RowFacts DEF There, Statuses
  <2> QED BY <1>0, <2>1, <2>2, PutKeepsTable DEF Untouched, TableOK, store
<1>7. ASSUME NEW c \in Callers, MarkReported(c) \/ MarkDelivered(c) \/ SendFails(c) PROVE TableOK'
  <2>1. on[c] \in Tickets
    BY <1>0, <1>7, CallerHasTicket DEF MarkReported, MarkDelivered, SendFails
  <2>2. There(on[c]) => /\ [table[on[c]] EXCEPT !.reported = TRUE] \in Rows
                        /\ Answered(table[on[c]]) \in Rows
                        /\ AfterFailedSend(table[on[c]]) \in Rows
    BY <1>0, <2>1, RowFacts DEF There
  <2>3. Untouched \/ \E e \in Rows : Put(on[c], e)
    BY <1>7, <2>2 DEF MarkReported, MarkDelivered, SendFails
  <2> QED BY <1>0, <2>1, <2>3, PutKeepsTable DEF Untouched, TableOK, store
<1>8. CASE CloseStale
  <2>1. verdict.ticket \in Tickets
    BY <1>0, <1>8 DEF CloseStale, RestOK, Verdicts, Decided
  <2>2. StillOpen(verdict.ticket) => Closed(table[verdict.ticket]) \in Rows
    BY <1>0, <2>1, RowFacts DEF StillOpen, There
  <2>3. Untouched \/ \E e \in Rows : Put(verdict.ticket, e)
    BY <1>8, <2>2 DEF CloseStale
  <2> QED BY <1>0, <2>1, <2>3, PutKeepsTable DEF Untouched, TableOK, store
<1>9. CASE RemoveExpired
  BY <1>0, <1>9, PlainRows DEF RemoveExpired, TableOK, store
<1>10. CASE Purge \/ Snapshot
  <2>1. \E T \in SUBSET Tickets : StoreFrom(missed, T, NoRows)
    <3>1. Purge => verdict.ticket \in Tickets
      BY <1>0 DEF Purge, RestOK, Verdicts, Decided
    <3>2. Prunable \in SUBSET Tickets
      BY DEF Prunable
    <3> QED BY <1>10, <3>1, <3>2 DEF Purge, Snapshot, Store
  <2>2. \A t \in Tickets : NoRows[t] \in Rows
    BY PlainRows DEF NoRows
  <2>3. /\ stored' \in [Tickets -> Rows]
        /\ missed' \subseteq Tickets /\ lapses' \in 0 .. MaxLapses
    BY <1>0, <2>1, <2>2, StoreKeepsTypes, BoundsAssumption DEF TableOK
  <2>4. table' \in [Tickets -> Rows] /\ age' = age
    BY <1>0, <1>10, WithoutKeepsRows DEF Purge, Snapshot
  <2> QED BY <1>0, <2>3, <2>4 DEF TableOK
<1>11. CASE Tick
  <2>1. age' \in [Tickets -> Ages]
    BY <1>0, <1>11 DEF Tick, Fresh, Stale, Expired, Ages
  <2> QED BY <1>0, <1>11, <2>1 DEF Tick, TableOK, store
<1>12. CASE Crash
  BY <1>0, <1>12, PlainRows DEF Crash, TableOK, store
<1>13. CASE UNCHANGED <<table, store, age>>
  BY <1>0, <1>13 DEF TableOK, store
<1>14. ASSUME NEW t \in Tickets, ReadForSave(t) \/ Judge(t) PROVE UNCHANGED <<table, store, age>>
  BY <1>14 DEF ReadForSave, Judge
<1>15. ASSUME NEW c \in Callers, EndCall(c) \/ Send(c) PROVE UNCHANGED <<table, store, age>>
  BY <1>15 DEF EndCall, Send, Untouched
<1>16. ASSUME NEW c \in Callers, pc[c] = "failing" /\ Deliver(c, on[c]) PROVE TableOK'
  BY <1>0, <1>6, <1>16, CallerHasTicket
<1>17. CASE Restart
  <2>1. CASE LoadFails
    <3>1. lapses' \in 0 .. MaxLapses
      BY <1>0, <2>1, BoundsAssumption DEF LoadFails, TableOK
    <3> QED BY <1>0, <2>1, <3>1 DEF LoadFails, TableOK
  <2>2. ASSUME NEW ages \in [Tickets -> Ages], Load(ages) PROVE TableOK'
    <3> DEFINE dead == {t \in Tickets : stored[t] # None /\ ages[t] = Expired}
    <3>1. dead \in SUBSET Tickets /\ {} \in SUBSET Tickets /\ (\A t \in dead : NoRows[t] \in Rows)
      BY PlainRows DEF NoRows
    <3>2. age' = ages /\ table' = Without(dead, stored) /\ StoreFrom({}, dead, NoRows)
      BY <2>2 DEF Load
    <3> HIDE DEF dead
    <3>3. /\ stored' \in [Tickets -> Rows]
          /\ missed' \subseteq Tickets /\ lapses' \in 0 .. MaxLapses
      <4>1. lapses \in Nat
        BY <1>0, BoundsAssumption DEF TableOK
      <4> QED BY <1>0, <3>1, <3>2, <4>1, StoreKeepsTypes
    <3> QED BY <1>0, <3>2, <3>3, WithoutKeepsRows DEF TableOK
  <2> QED BY <1>17, <2>1, <2>2 DEF Restart
<1> QED
  BY <1>1, <1>2, <1>3, <1>4, <1>5, <1>6, <1>7, <1>8, <1>9, <1>10, <1>11, <1>12, <1>13, <1>14,
     <1>15, <1>16, <1>17
     DEF Next, CallerStep, WatchdogActs, vars, store

(* The steps of callers, and the ones that leave the callers alone.        *)
LEMMA CallersStep == TypeOK /\ [Next]_vars => CallersOK'
<1> SUFFICES ASSUME TypeOK, [Next]_vars PROVE CallersOK'
  OBVIOUS
<1>0. CallersOK
  BY TypeParts
<1>1. ASSUME NEW c \in Callers, NEW t \in Tickets, Tell(c, t) PROVE CallersOK'
  BY <1>0, <1>1, SentinelAssumption DEF Tell, Goes, CallersOK
<1>2. ASSUME NEW c \in Callers, NEW t \in Tickets, NEW quiet \in BOOLEAN, MarkFailed(c, t, quiet)
      PROVE CallersOK'
  BY <1>0, <1>2, SentinelAssumption DEF MarkFailed, Goes, CallersOK
<1>3. ASSUME NEW c \in Callers, NEW t \in Tickets, Deliver(c, t) PROVE CallersOK'
  <2>1. UNCHANGED told /\ (Leaves(c) \/ Goes(c, "sending", t))
    BY <1>3 DEF Deliver
  <2> QED BY <1>0, <2>1, SentinelAssumption DEF Leaves, Goes, CallersOK
<1>4. ASSUME NEW c \in Callers, MarkReported(c) \/ MarkDelivered(c) PROVE CallersOK'
  <2>1. UNCHANGED told /\ (Leaves(c) \/ Goes(c, "reported", on[c]) \/ Goes(c, "settled", on[c]))
    BY <1>4 DEF MarkReported, MarkDelivered
  <2>2. on[c] \in Tickets
    BY <1>0, <1>4, CallerHasTicket DEF MarkReported, MarkDelivered
  <2> QED BY <1>0, <2>1, <2>2, SentinelAssumption DEF Leaves, Goes, CallersOK
<1>5. ASSUME NEW c \in Callers, EndCall(c) \/ SendFails(c) PROVE CallersOK'
  BY <1>0, <1>5 DEF EndCall, SendFails, Leaves, Goes, CallersOK
<1>6. ASSUME NEW c \in Callers, Send(c) PROVE CallersOK'
  BY <1>0, <1>6 DEF Send, CallersOK
<1>7. CASE Crash
  BY <1>0, <1>7 DEF Crash, CallersOK
<1>8. CASE UNCHANGED <<pc, on, told>>
  BY <1>0, <1>8 DEF CallersOK
<1>9. ASSUME NEW t \in Tickets,
             \/ Create(t) \/ ReadForSave(t) \/ SaveCreated(t) \/ Judge(t)
             \/ MarkCommand(t) \/ UpdatePlan(t) \/ MarkCompleted(t)
      PROVE UNCHANGED <<pc, on, told>>
  BY <1>9 DEF Create, ReadForSave, SaveCreated, Judge, MarkCommand, UpdatePlan, MarkCompleted
<1>10. Snapshot \/ WatchdogActs \/ Tick \/ Restart => UNCHANGED <<pc, on, told>>
  BY DEF Snapshot, WatchdogActs, CloseStale, RemoveExpired, Purge, Tick, Restart
<1>11. ASSUME NEW c \in Callers, pc[c] = "failing" /\ Deliver(c, on[c]) PROVE CallersOK'
  BY <1>0, <1>3, <1>11, CallerHasTicket
<1> QED
  BY <1>1, <1>2, <1>3, <1>4, <1>5, <1>6, <1>7, <1>8, <1>9, <1>10, <1>11
     DEF Next, CallerStep, vars

LEMMA RestStep == TypeOK /\ [Next]_vars => RestOK'
<1> SUFFICES ASSUME TypeOK, [Next]_vars PROVE RestOK'
  OBVIOUS
<1>0. TableOK /\ RestOK
  BY TypeParts
<1>1. ASSUME NEW t \in Tickets, Create(t) PROVE RestOK'
  BY <1>0, <1>1 DEF Create, RestOK
<1>2. ASSUME NEW t \in Tickets, ReadForSave(t) \/ SaveCreated(t) PROVE RestOK'
  BY <1>0, <1>2, PlainRows DEF ReadForSave, SaveCreated, RestOK, TableOK
<1>3. ASSUME NEW t \in Tickets, MarkCommand(t) \/ UpdatePlan(t) \/ MarkCompleted(t) PROVE RestOK'
  BY <1>0, <1>3, BoundsAssumption
     DEF MarkCommand, UpdatePlan, MarkCompleted, Use, Same, RestOK
<1>4. ASSUME NEW c \in Callers, NEW t \in Tickets,
             Tell(c, t) \/ (\E quiet \in BOOLEAN : MarkFailed(c, t, quiet)) \/ Deliver(c, t)
      PROVE RestOK'
  BY <1>0, <1>4, BoundsAssumption DEF Tell, MarkFailed, Deliver, Use, Same, RestOK
<1>5. ASSUME NEW c \in Callers,
             MarkReported(c) \/ MarkDelivered(c) \/ EndCall(c) \/ Send(c) \/ SendFails(c)
      PROVE RestOK'
  BY <1>0, <1>5 DEF MarkReported, MarkDelivered, EndCall, Send, SendFails, Same, RestOK
<1>6. ASSUME NEW c \in Callers, pc[c] = "failing" /\ Deliver(c, on[c]) PROVE RestOK'
  BY <1>0, <1>6, BoundsAssumption DEF Deliver, Use, Same, RestOK
<1>7. ASSUME NEW t \in Tickets, Judge(t) PROVE RestOK'
  <2>1. Verdict(t) \in {"close", "remove"}
    BY <1>7 DEF Judge, Verdict
  <2> QED BY <1>0, <1>7, <2>1 DEF Judge, RestOK, Verdicts
<1>8. CASE CloseStale \/ Purge \/ Tick
  BY <1>0, <1>8 DEF CloseStale, Purge, Tick, RestOK, Verdicts
<1>9. CASE RemoveExpired
  <2>1. verdict \in [ticket : Tickets, act : {"close", "remove", "purge"}]
    BY <1>0, <1>9 DEF RemoveExpired, RestOK, Verdicts, Decided
  <2> QED BY <1>0, <1>9, <2>1 DEF RemoveExpired, RestOK, Verdicts
<1>10. CASE Crash
  <2>1. saver' \in [Tickets -> Rows \cup {Inserted}]
    BY <1>10, PlainRows DEF Crash
  <2>2. crashes' \in 0 .. MaxCrashes
    BY <1>0, <1>10, BoundsAssumption DEF Crash, RestOK
  <2> QED BY <1>0, <1>10, <2>1, <2>2 DEF Crash, RestOK, Verdicts
<1>11. CASE Snapshot \/ Restart \/ UNCHANGED vars
  BY <1>0, <1>11 DEF Snapshot, Restart, vars, RestOK
<1> QED
  BY <1>1, <1>2, <1>3, <1>4, <1>5, <1>6, <1>7, <1>8, <1>9, <1>10, <1>11
     DEF Next, CallerStep, WatchdogActs

LEMMA TypeStep == TypeOK /\ [Next]_vars => TypeOK'
BY TableStep, CallersStep, RestStep, TypeParts DEF TypeOK, TableOK, CallersOK, RestOK

LEMMA TypeInit == Init => TypeOK
BY BoundsAssumption, PlainRows DEF Init, TypeOK, Verdicts, Decided, Ages

(* Table, store, callers and watchdog keep their types.                    *)
THEOREM TypeCorrect == Spec => []TypeOK
BY TypeInit, TypeStep, PTL DEF Spec

-------------------------------------------------------------------------------
(* The inductive core: whoever is about to mark a ticket as answered has   *)
(* told its source something, and so has the creator's payload.            *)
CallersTold ==
    \A c \in Callers :
        pc[c] \in {"told", "reported", "settled", "sent"} => told[on[c]] # "nothing"

SaverTrue == \A t \in Tickets : ClaimsAnswer(saver[t]) => told[t] # "nothing"

TableTrue == \A t \in Tickets : ClaimsAnswer(table[t]) => told[t] # "nothing"

StoreTrue == \A t \in Tickets : ClaimsAnswer(stored[t]) => told[t] # "nothing"

TruthInv == TypeOK /\ CallersTold /\ SaverTrue /\ TableTrue /\ StoreTrue

(* What was told stays told.                                               *)
LEMMA ToldGrows ==
    TypeOK /\ [Next]_vars => \A t \in Tickets : told[t] # "nothing" => told'[t] # "nothing"
<1> SUFFICES ASSUME TypeOK, [Next]_vars, NEW t \in Tickets, told[t] # "nothing" PROVE told'[t] # "nothing"
  OBVIOUS
<1>0. told \in [Tickets -> {"nothing", "claimed", "text"}]
  BY DEF TypeOK
<1>1. ASSUME NEW c \in Callers, Send(c) \/ \E u \in Tickets : Tell(c, u) PROVE told'[t] # "nothing"
  BY <1>0, <1>1 DEF Send, Tell
<1>2. CASE UNCHANGED told
  BY <1>2
<1>3. ASSUME NEW u \in Tickets,
             \/ Create(u) \/ ReadForSave(u) \/ SaveCreated(u) \/ Judge(u)
             \/ MarkCommand(u) \/ UpdatePlan(u) \/ MarkCompleted(u)
      PROVE UNCHANGED told
  BY <1>3 DEF Create, ReadForSave, SaveCreated, Judge, MarkCommand, UpdatePlan, MarkCompleted
<1>4. ASSUME NEW c \in Callers,
             \/ \E u \in Tickets : Deliver(c, u) \/ \E quiet \in BOOLEAN : MarkFailed(c, u, quiet)
             \/ Deliver(c, on[c])
             \/ MarkReported(c) \/ MarkDelivered(c) \/ EndCall(c) \/ SendFails(c)
      PROVE UNCHANGED told
  BY <1>4 DEF Deliver, MarkFailed, MarkReported, MarkDelivered, EndCall, SendFails
<1>5. Snapshot \/ WatchdogActs \/ Tick \/ Crash \/ Restart => UNCHANGED told
  BY DEF Snapshot, WatchdogActs, CloseStale, RemoveExpired, Purge, Tick, Crash, Restart
<1> QED BY <1>1, <1>2, <1>3, <1>4, <1>5 DEF Next, CallerStep, vars

(* A step of the store takes in only rows that are true.                   *)
LEMMA StoreStaysTrue ==
    ASSUME StoreTrue, NEW behind \in SUBSET Tickets, NEW T \in SUBSET Tickets, NEW rows,
           StoreFrom(behind, T, rows),
           \A u \in T : ClaimsAnswer(rows[u]) => told'[u] # "nothing",
           \A u \in Tickets : told[u] # "nothing" => told'[u] # "nothing"
    PROVE  StoreTrue'
<1>1. \A u \in Tickets : stored'[u] = stored[u] \/ (u \in T /\ stored'[u] = rows[u])
  BY StoreFacts
<1> QED BY <1>1 DEF StoreTrue

LEMMA PutTrue ==
    ASSUME TypeOK, TableTrue, StoreTrue, NEW t \in Tickets, NEW e \in Rows, Put(t, e),
           ClaimsAnswer(e) => told'[t] # "nothing",
           \A u \in Tickets : told[u] # "nothing" => told'[u] # "nothing"
    PROVE  (TableTrue /\ StoreTrue)'
<1>1. TableTrue' /\ table'[t] = e
  BY DEF TypeOK, TableTrue, Put
<1>2. StoreTrue'
  <2>1. /\ StoreFrom(missed, {t}, table') /\ missed \in SUBSET Tickets
        /\ {t} \in SUBSET Tickets
        /\ \A u \in {t} : ClaimsAnswer(table'[u]) => told'[u] # "nothing"
    BY <1>1 DEF TypeOK, Put, Store
  <2> QED BY <2>1, StoreStaysTrue
<1> QED BY <1>1, <1>2

LEMMA CallersToldStep == TruthInv /\ [Next]_vars => CallersTold'
<1> SUFFICES ASSUME TruthInv, [Next]_vars PROVE CallersTold'
  OBVIOUS
<1>0. /\ CallersOK /\ CallersTold
      /\ pc \in [Callers -> {"idle", "told", "reported", "settled", "failing", "sending", "sent"}]
      /\ on \in [Callers -> Tickets \cup {NoTicket}]
      /\ told \in [Tickets -> {"nothing", "claimed", "text"}]
  BY TypeParts DEF TruthInv, CallersOK
<1>1. ASSUME NEW c \in Callers, NEW t \in Tickets, Tell(c, t) PROVE CallersTold'
  <2>1. /\ told'[t] # "nothing"
        /\ \A u \in Tickets : told[u] # "nothing" => told'[u] # "nothing"
    BY <1>0, <1>1 DEF Tell
  <2>2. Goes(c, "told", t)
    BY <1>1 DEF Tell
  <2>3. \A d \in Callers : pc[d] # "idle" => on[d] \in Tickets
    BY <1>0, CallerHasTicket
  <2> QED BY <1>0, <2>1, <2>2, <2>3 DEF Goes, CallersTold
<1>2. ASSUME NEW c \in Callers, NEW t \in Tickets, NEW quiet \in BOOLEAN, MarkFailed(c, t, quiet)
      PROVE CallersTold'
  BY <1>0, <1>2 DEF MarkFailed, Goes, CallersTold
<1>3. ASSUME NEW c \in Callers, NEW t \in Tickets, Deliver(c, t) PROVE CallersTold'
  <2>1. UNCHANGED told /\ (Leaves(c) \/ Goes(c, "sending", t))
    BY <1>3 DEF Deliver
  <2> QED BY <1>0, <2>1 DEF Leaves, Goes, CallersTold
<1>4. ASSUME NEW c \in Callers, MarkReported(c) \/ MarkDelivered(c) PROVE CallersTold'
  <2>1. UNCHANGED told /\ (Leaves(c) \/ Goes(c, "reported", on[c]) \/ Goes(c, "settled", on[c]))
    BY <1>4 DEF MarkReported, MarkDelivered
  <2>2. told[on[c]] # "nothing"
    BY <1>0, <1>4 DEF MarkReported, MarkDelivered, CallersTold
  <2> QED BY <1>0, <2>1, <2>2 DEF Leaves, Goes, CallersTold
<1>5. ASSUME NEW c \in Callers, EndCall(c) \/ SendFails(c) PROVE CallersTold'
  BY <1>0, <1>5 DEF EndCall, SendFails, Leaves, Goes, CallersTold
<1>6. ASSUME NEW c \in Callers, Send(c) PROVE CallersTold'
  <2>1. on[c] \in Tickets
    BY <1>0, <1>6, CallerHasTicket DEF Send
  <2> QED BY <1>0, <1>6, <2>1 DEF Send, CallersTold
<1>7. CASE Crash
  BY <1>0, <1>7 DEF Crash, CallersTold
<1>8. CASE UNCHANGED <<pc, on, told>>
  BY <1>0, <1>8 DEF CallersTold
<1>9. ASSUME NEW t \in Tickets,
             \/ Create(t) \/ ReadForSave(t) \/ SaveCreated(t) \/ Judge(t)
             \/ MarkCommand(t) \/ UpdatePlan(t) \/ MarkCompleted(t)
      PROVE UNCHANGED <<pc, on, told>>
  BY <1>9 DEF Create, ReadForSave, SaveCreated, Judge, MarkCommand, UpdatePlan, MarkCompleted
<1>10. Snapshot \/ WatchdogActs \/ Tick \/ Restart => UNCHANGED <<pc, on, told>>
  BY DEF Snapshot, WatchdogActs, CloseStale, RemoveExpired, Purge, Tick, Restart
<1>11. ASSUME NEW c \in Callers, pc[c] = "failing" /\ Deliver(c, on[c]) PROVE CallersTold'
  BY <1>0, <1>3, <1>11, CallerHasTicket
<1> QED
  BY <1>1, <1>2, <1>3, <1>4, <1>5, <1>6, <1>7, <1>8, <1>9, <1>10, <1>11
     DEF Next, CallerStep, vars

LEMMA SaverTrueStep == TruthInv /\ [Next]_vars => SaverTrue'
<1> SUFFICES ASSUME TruthInv, [Next]_vars PROVE SaverTrue'
  OBVIOUS
<1>0. /\ SaverTrue /\ TableTrue
      /\ saver \in [Tickets -> Rows \cup {Inserted}]
      /\ \A u \in Tickets : told[u] # "nothing" => told'[u] # "nothing"
  BY ToldGrows, TypeParts DEF TruthInv, RestOK
<1>1. ASSUME NEW t \in Tickets, Create(t) PROVE SaverTrue'
  BY <1>0, <1>1, PlainRows DEF Create, SaverTrue
<1>2. ASSUME NEW t \in Tickets, ReadForSave(t) PROVE SaverTrue'
  BY <1>0, <1>2 DEF ReadForSave, SaverTrue, TableTrue
<1>3. ASSUME NEW t \in Tickets, SaveCreated(t) PROVE SaverTrue'
  BY <1>0, <1>3, PlainRows DEF SaveCreated, SaverTrue
<1>4. CASE Crash
  BY <1>0, <1>4, PlainRows DEF Crash, SaverTrue
<1>5. CASE UNCHANGED saver
  BY <1>0, <1>5 DEF SaverTrue
<1>6. ASSUME NEW t \in Tickets, MarkCommand(t) \/ UpdatePlan(t) \/ MarkCompleted(t) \/ Judge(t)
      PROVE UNCHANGED saver
  BY <1>6 DEF MarkCommand, UpdatePlan, MarkCompleted, Judge, Same
<1>7. ASSUME NEW c \in Callers, NEW t \in Tickets,
             Tell(c, t) \/ (\E quiet \in BOOLEAN : MarkFailed(c, t, quiet)) \/ Deliver(c, t)
      PROVE UNCHANGED saver
  BY <1>7 DEF Tell, MarkFailed, Deliver, Same
<1>8. ASSUME NEW c \in Callers, CallerStep(c) PROVE UNCHANGED saver
  BY <1>8 DEF CallerStep, Deliver, MarkReported, MarkDelivered, EndCall, Send, SendFails, Same
<1>9. Snapshot \/ WatchdogActs \/ Tick \/ Restart => UNCHANGED saver
  BY DEF Snapshot, WatchdogActs, CloseStale, RemoveExpired, Purge, Tick, Restart
<1> QED
  BY <1>1, <1>2, <1>3, <1>4, <1>5, <1>6, <1>7, <1>8, <1>9 DEF Next, vars

LEMMA RowsTrueStep == TruthInv /\ [Next]_vars => (TableTrue /\ StoreTrue)'
<1> SUFFICES ASSUME TruthInv, [Next]_vars PROVE (TableTrue /\ StoreTrue)'
  OBVIOUS
<1>0. /\ TypeOK /\ CallersTold /\ SaverTrue /\ TableTrue /\ StoreTrue
      /\ table \in [Tickets -> Rows] /\ stored \in [Tickets -> Rows]
      /\ \A u \in Tickets : table[u] \in Rows
      /\ \A u \in Tickets : told[u] # "nothing" => told'[u] # "nothing"
      /\ \A u \in Tickets : ClaimsAnswer(table[u]) => told'[u] # "nothing"
      /\ \A u \in Tickets : ClaimsAnswer(stored[u]) => told'[u] # "nothing"
  BY ToldGrows DEF TruthInv, TypeOK, TableTrue, StoreTrue
<1>a. ASSUME NEW t \in Tickets, NEW e \in Rows, Put(t, e), ClaimsAnswer(e) => told'[t] # "nothing"
      PROVE  (TableTrue /\ StoreTrue)'
  BY <1>0, <1>a, PutTrue
<1>b. ASSUME NEW t \in Tickets, There(t)
      PROVE  /\ table[t] \in Rows /\ table[t] # None
             /\ \A s \in Statuses : [table[t] EXCEPT !.status = s] \in Rows
             /\ \A s \in Statuses \ {"delivered"} :
                   ClaimsAnswer([table[t] EXCEPT !.status = s]) => told'[t] # "nothing"
             /\ Closed(table[t]) \in Rows /\ (ClaimsAnswer(Closed(table[t])) => told'[t] # "nothing")
             /\ Answered(table[t]) \in Rows
             /\ [table[t] EXCEPT !.reported = TRUE] \in Rows
             /\ AfterFailedSend(table[t]) \in Rows
             /\ (ClaimsAnswer(AfterFailedSend(table[t])) => told'[t] # "nothing")
  BY <1>0, <1>b, RowFacts DEF There
<1>c. ASSUME UNCHANGED <<table, stored>> PROVE (TableTrue /\ StoreTrue)'
  BY <1>0, <1>c DEF TableTrue, StoreTrue
<1>d. ASSUME NEW behind \in SUBSET Tickets, NEW T \in SUBSET Tickets,
             StoreFrom(behind, T, NoRows)
      PROVE  StoreTrue'
  <2>1. \A u \in T : ~ ClaimsAnswer(NoRows[u])
    BY PlainRows DEF NoRows
  <2> QED BY <1>0, <1>d, <2>1, StoreStaysTrue
<1>1. ASSUME NEW t \in Tickets, Create(t) PROVE (TableTrue /\ StoreTrue)'
  <2>1. PICK closing \in SUBSET Supersedable(t) :
          /\ table' = [After(closing) EXCEPT ![t] = New]
          /\ Store(closing \cup Prunable, After(closing))
    BY <1>1 DEF Create
  <2>2. \A u \in closing : u \in Tickets /\ (ClaimsAnswer(Closed(table[u])) => told'[u] # "nothing")
    BY <1>b DEF Supersedable
  <2>3. \A u \in Tickets : ClaimsAnswer(After(closing)[u]) => told'[u] # "nothing"
    BY <1>0, <2>2, PlainRows DEF After, Without
  <2>4. \A u \in Tickets : table'[u] = After(closing)[u] \/ table'[u] = New
    BY <2>1 DEF After
  <2>5. closing \cup Prunable \in SUBSET Tickets
    BY <2>2 DEF Prunable
  <2>6. StoreTrue'
    BY <1>0, <2>1, <2>3, <2>5, StoreStaysTrue DEF TypeOK, Store
  <2> QED BY <2>3, <2>4, <2>6, PlainRows DEF TableTrue
<1>2. ASSUME NEW t \in Tickets, SaveCreated(t) PROVE (TableTrue /\ StoreTrue)'
  <2>1. StoreTrue'
    BY <1>0, <1>2, StoreStaysTrue DEF SaveCreated, SaverTrue, TypeOK, Store
  <2> QED BY <1>0, <1>2, <2>1 DEF SaveCreated, TableTrue
<1>3. ASSUME NEW t \in Tickets, MarkCommand(t) \/ UpdatePlan(t) \/ MarkCompleted(t)
      PROVE (TableTrue /\ StoreTrue)'
  <2>1. There(t)
    BY <1>3 DEF MarkCommand, UpdatePlan, MarkCompleted, Usable
  <2>2. CASE MarkCommand(t)
    BY <1>a, <1>b, <2>1, <2>2 DEF MarkCommand, Statuses
  <2>3. CASE UpdatePlan(t)
    BY <1>0, <1>a, <2>3 DEF UpdatePlan
  <2>4. CASE MarkCompleted(t)
    <3>1. CASE table[t].status = "delivered"
      <4>1. told'[t] # "nothing"
        BY <1>0, <3>1 DEF ClaimsAnswer
      <4>2. Put(t, [table[t] EXCEPT !.status = "delivered"])
        BY <2>4, <3>1 DEF MarkCompleted
      <4> QED BY <1>a, <1>b, <2>1, <4>1, <4>2 DEF Statuses, Final
    <3>2. CASE table[t].status # "delivered"
      <4>1. Put(t, [table[t] EXCEPT !.status = "completed"])
        BY <2>4, <3>2 DEF MarkCompleted
      <4> QED BY <1>a, <1>b, <2>1, <4>1 DEF Statuses
    <3> QED BY <3>1, <3>2
  <2> QED BY <1>3, <2>2, <2>3, <2>4
<1>4. ASSUME NEW c \in Callers, NEW t \in Tickets, NEW quiet \in BOOLEAN, MarkFailed(c, t, quiet)
      PROVE (TableTrue /\ StoreTrue)'
  BY <1>a, <1>b, <1>4 DEF MarkFailed, Usable, Statuses, Final
<1>5. ASSUME NEW c \in Callers, NEW t \in Tickets, Deliver(c, t) PROVE (TableTrue /\ StoreTrue)'
  <2>1. \/ Untouched
        \/ There(t) /\ table[t].reported /\ Put(t, Answered(table[t]))
        \/ There(t) /\ Put(t, [table[t] EXCEPT !.status = "sending"])
    BY <1>5 DEF Deliver, Refused, Finalized
  <2>2. table[t].reported => told'[t] # "nothing"
    BY <1>0 DEF ClaimsAnswer
  <2>3. CASE Untouched
    BY <1>c, <2>3 DEF Untouched, store
  <2>4. CASE There(t) /\ table[t].reported /\ Put(t, Answered(table[t]))
    BY <1>a, <1>b, <2>2, <2>4
  <2>5. CASE There(t) /\ Put(t, [table[t] EXCEPT !.status = "sending"])
    BY <1>a, <1>b, <2>5 DEF Statuses
  <2> QED BY <2>1, <2>3, <2>4, <2>5
<1>6. ASSUME NEW c \in Callers, MarkReported(c) \/ MarkDelivered(c) \/ SendFails(c)
      PROVE (TableTrue /\ StoreTrue)'
  <2>1. on[c] \in Tickets
    BY <1>0, <1>6, CallerHasTicket, TypeParts DEF MarkReported, MarkDelivered, SendFails
  <2>2. CASE MarkReported(c)
    <3>1. told'[on[c]] # "nothing"
      BY <1>0, <2>1, <2>2 DEF MarkReported, CallersTold
    <3>2. Untouched \/ (There(on[c]) /\ Put(on[c], [table[on[c]] EXCEPT !.reported = TRUE]))
      BY <2>2 DEF MarkReported
    <3> QED BY <1>a, <1>b, <1>c, <2>1, <3>1, <3>2 DEF Untouched, store
  <2>3. CASE MarkDelivered(c)
    <3>1. told'[on[c]] # "nothing"
      BY <1>0, <2>1, <2>3 DEF MarkDelivered, CallersTold
    <3>2. Untouched \/ (There(on[c]) /\ Put(on[c], Answered(table[on[c]])))
      BY <2>3 DEF MarkDelivered
    <3> QED BY <1>a, <1>b, <1>c, <2>1, <3>1, <3>2 DEF Untouched, store
  <2>4. CASE SendFails(c)
    <3>1. Untouched \/ (There(on[c]) /\ Put(on[c], AfterFailedSend(table[on[c]])))
      BY <2>4 DEF SendFails
    <3> QED BY <1>a, <1>b, <1>c, <2>1, <3>1 DEF Untouched, store
  <2> QED BY <1>6, <2>2, <2>3, <2>4
<1>7. CASE CloseStale
  <2>1. CASE StillOpen(verdict.ticket)
    <3>1. verdict.ticket \in Tickets /\ There(verdict.ticket)
      BY <1>0, <1>7, <2>1, TypeParts DEF CloseStale, StillOpen, RestOK, Verdicts, Decided
    <3> QED BY <1>a, <1>b, <1>7, <2>1, <3>1 DEF CloseStale
  <2>2. CASE ~ StillOpen(verdict.ticket)
    BY <1>c, <1>7, <2>2 DEF CloseStale, Untouched, store
  <2> QED BY <2>1, <2>2
<1>8. CASE RemoveExpired
  BY <1>0, <1>8, PlainRows DEF RemoveExpired, store, TableTrue, StoreTrue
<1>9. CASE Purge \/ Snapshot
  <2>1. \E T \in SUBSET Tickets : StoreFrom(missed, T, NoRows)
    <3>1. Purge => verdict.ticket \in Tickets
      BY <1>0, TypeParts DEF Purge, RestOK, Verdicts, Decided
    <3>2. Prunable \in SUBSET Tickets
      BY DEF Prunable
    <3> QED BY <1>9, <3>1, <3>2 DEF Purge, Snapshot, Store
  <2>2. TableTrue'
    BY <1>0, <1>9, PlainRows DEF Purge, Snapshot, Without, TableTrue
  <2> QED BY <1>0, <1>d, <2>1, <2>2 DEF TypeOK
<1>15. CASE Restart
  <2>1. CASE LoadFails
    BY <1>c, <2>1 DEF LoadFails
  <2>2. ASSUME NEW ages \in [Tickets -> Ages], Load(ages) PROVE (TableTrue /\ StoreTrue)'
    <3> DEFINE dead == {t \in Tickets : stored[t] # None /\ ages[t] = Expired}
    <3>1. table' = Without(dead, stored) /\ StoreFrom({}, dead, NoRows) /\ dead \in SUBSET Tickets
      BY <2>2 DEF Load
    <3> HIDE DEF dead
    <3>2. TableTrue'
      BY <1>0, <3>1, PlainRows DEF Without, TableTrue
    <3> QED BY <1>d, <3>1, <3>2
  <2> QED BY <1>15, <2>1, <2>2 DEF Restart
<1>10. CASE Crash
  BY <1>0, <1>10, PlainRows DEF Crash, store, TableTrue, StoreTrue
<1>11. ASSUME NEW t \in Tickets, ReadForSave(t) \/ Judge(t) PROVE UNCHANGED <<table, stored>>
  BY <1>11 DEF ReadForSave, Judge, store
<1>12. ASSUME NEW c \in Callers, EndCall(c) \/ Send(c) \/ \E t \in Tickets : Tell(c, t)
       PROVE UNCHANGED <<table, stored>>
  BY <1>12 DEF EndCall, Send, Tell, Untouched, store
<1>13. Tick \/ UNCHANGED vars => UNCHANGED <<table, stored>>
  BY DEF Tick, vars, store
<1>14. ASSUME NEW c \in Callers, pc[c] = "failing" /\ Deliver(c, on[c])
       PROVE (TableTrue /\ StoreTrue)'
  <2>1. on[c] \in Tickets
    BY <1>0, <1>14, CallerHasTicket, TypeParts
  <2> QED BY <1>5, <1>14, <2>1
<1> QED
  BY <1>c, <1>1, <1>2, <1>3, <1>4, <1>5, <1>6, <1>7, <1>8, <1>9, <1>10, <1>11, <1>12, <1>13, <1>14,
     <1>15
     DEF Next, CallerStep, WatchdogActs

LEMMA TruthStep == TruthInv /\ [Next]_vars => TruthInv'
BY TypeStep, CallersToldStep, SaverTrueStep, RowsTrueStep DEF TruthInv

LEMMA TruthInit == Init => TruthInv
BY TypeInit, PlainRows DEF Init, TruthInv, CallersTold, SaverTrue, TableTrue, StoreTrue

LEMMA TruthAlways == Spec => []TruthInv
BY TruthInit, TruthStep, PTL DEF Spec

(* A ticket shown as answered has been answered, in the table and in the   *)
(* store, through failed sends, superseding, the watchdog and crashes.     *)
THEOREM AnswersAreTrue == Spec => []DeliveredWasTold
<1>1. TruthInv => DeliveredWasTold
  BY DEF TruthInv, TableTrue, StoreTrue, DeliveredWasTold
<1> QED BY <1>1, TruthAlways, PTL

-------------------------------------------------------------------------------
(* The report of a failed turn is not dropped without a word to the source.*)
THEOREM NoFailureIsSilent == Spec => NoSilentFailure
<1> DEFINE Drops(c) == pc[c] = "failing" /\ pc'[c] = "idle" /\ up'
<1>1. ASSUME TruthInv, Next, NEW c \in Callers, Drops(c) PROVE told[on[c]] # "nothing" \/ ~ There(on[c])
  <2>0. /\ pc \in [Callers -> {"idle", "told", "reported", "settled", "failing", "sending", "sent"}]
        /\ \A t \in Tickets : ClaimsAnswer(table[t]) => told[t] # "nothing"
    BY <1>1 DEF TruthInv, TypeOK, TableTrue
  <2>1. on[c] \in Tickets
    BY <1>1, CallerHasTicket, TypeParts DEF TruthInv
  <2>2. ASSUME NEW t \in Tickets, Deliver(c, t) PROVE told[on[c]] # "nothing" \/ ~ There(on[c])
    <3>1. on[c] = t /\ (Refused(t) \/ Finalized(t))
      BY <1>1, <2>0, <2>2 DEF Deliver, Goes
    <3> QED BY <2>0, <3>1 DEF Refused, Finalized, ClaimsAnswer
  <2>3. ASSUME NEW d \in Callers \ {c}, NEW t \in Tickets,
               Deliver(d, t) \/ Tell(d, t) \/ \E quiet \in BOOLEAN : MarkFailed(d, t, quiet)
        PROVE FALSE
    BY <1>1, <2>0, <2>3 DEF Deliver, Tell, MarkFailed, Goes, Leaves
  <2>4. ASSUME NEW t \in Tickets, Tell(c, t) \/ \E quiet \in BOOLEAN : MarkFailed(c, t, quiet)
        PROVE FALSE
    BY <1>1, <2>4 DEF Tell, MarkFailed
  <2>5. ASSUME NEW d \in Callers,
               MarkReported(d) \/ MarkDelivered(d) \/ EndCall(d) \/ Send(d) \/ SendFails(d)
        PROVE FALSE
    <3>1. pc[d] # "failing"
      BY <2>5 DEF MarkReported, MarkDelivered, EndCall, Send, SendFails
    <3>2. pc'[c] = pc[c]
      BY <1>1, <2>0, <2>5, <3>1
         DEF MarkReported, MarkDelivered, EndCall, Send, SendFails, Goes, Leaves
    <3> QED BY <1>1, <3>2
  <2>6. ASSUME NEW t \in Tickets,
               \/ Create(t) \/ ReadForSave(t) \/ SaveCreated(t) \/ Judge(t)
               \/ MarkCommand(t) \/ UpdatePlan(t) \/ MarkCompleted(t)
        PROVE UNCHANGED pc
    BY <2>6 DEF Create, ReadForSave, SaveCreated, Judge, MarkCommand, UpdatePlan, MarkCompleted
  <2>7. Snapshot \/ WatchdogActs \/ Tick \/ Restart => UNCHANGED pc
    BY DEF Snapshot, WatchdogActs, CloseStale, RemoveExpired, Purge, Tick, Restart
  <2>8. ~ Crash
    BY <1>1 DEF Crash
  <2>9. ASSUME NEW d \in Callers, pc[d] = "failing" /\ Deliver(d, on[d]) PROVE on[d] \in Tickets
    BY <1>1, <2>9, CallerHasTicket, TypeParts DEF TruthInv
  <2>10. pc' # pc
    BY <1>1
  <2> QED
    BY <1>1, <2>2, <2>3, <2>4, <2>5, <2>6, <2>7, <2>8, <2>9, <2>10 DEF Next, CallerStep
<1>2. TruthInv /\ [Next]_vars
        => [\A c \in Callers : Drops(c) => told[on[c]] # "nothing" \/ ~ There(on[c])]_vars
  BY <1>1
<1> QED BY <1>2, TruthAlways, PTL DEF Spec, NoSilentFailure

(* Nobody who closes a ticket shows as failed one that is known to have    *)
(* reached its source: such a ticket fails only by a step of its users.    *)
THEOREM ReportsAreKept == Spec => ReportIsKept
<1> DEFINE Loses(t) == /\ There(t) /\ table[t].reported /\ table[t].status # "failed"
                       /\ table'[t].status = "failed"
<1>1. ASSUME TypeOK, Next, NEW t \in Tickets, Loses(t) PROVE UNCHANGED <<saver, verdict>>
  <2>0. /\ table \in [Tickets -> Rows] /\ stored \in [Tickets -> Rows] /\ None.status # "failed"
        /\ Closed(table[t]).status = "delivered" /\ New.status # "failed"
    BY <1>1 DEF TypeOK, Rows, None, New, Closed, There
  <2>1. ASSUME NEW u \in Tickets, Create(u) PROVE FALSE
    <3>1. PICK closing \in SUBSET Supersedable(u) :
            table' = [After(closing) EXCEPT ![u] = New]
      BY <2>1 DEF Create
    <3>2. table'[t] = After(closing)[t] \/ table'[t] = New
      BY <3>1 DEF After
    <3>3. After(closing)[t] \in {Closed(table[t]), None, table[t]}
      BY DEF After, Without
    <3> QED BY <1>1, <2>0, <3>2, <3>3
  <2>2. ASSUME CloseStale PROVE FALSE
    BY <1>1, <2>0, <2>2 DEF CloseStale, Put, Untouched
  <2>3. ASSUME RemoveExpired \/ Purge PROVE FALSE
    BY <1>1, <2>0, <2>3 DEF RemoveExpired, Purge
  <2>4. ASSUME Snapshot PROVE FALSE
    BY <1>1, <2>0, <2>4 DEF Snapshot, Without
  <2>5. ASSUME Crash \/ Tick PROVE FALSE
    BY <1>1, <2>0, <2>5 DEF Crash, Tick
  <2>6. ASSUME NEW u \in Tickets, ReadForSave(u) \/ SaveCreated(u) \/ Judge(u) PROVE FALSE
    BY <1>1, <2>6 DEF ReadForSave, SaveCreated, Judge
  <2>7. ASSUME NEW u \in Tickets, MarkCommand(u) \/ UpdatePlan(u) \/ MarkCompleted(u)
        PROVE UNCHANGED <<saver, verdict>>
    BY <2>7 DEF MarkCommand, UpdatePlan, MarkCompleted, Same
  <2>8. ASSUME NEW c \in Callers, NEW u \in Tickets,
               Tell(c, u) \/ (\E quiet \in BOOLEAN : MarkFailed(c, u, quiet)) \/ Deliver(c, u)
        PROVE UNCHANGED <<saver, verdict>>
    BY <2>8 DEF Tell, MarkFailed, Deliver, Same
  <2>9. ASSUME NEW c \in Callers, CallerStep(c) PROVE UNCHANGED <<saver, verdict>>
    BY <2>9 DEF CallerStep, Deliver, MarkReported, MarkDelivered, EndCall, Send, SendFails, Same
  <2>10. Restart => UNCHANGED <<saver, verdict>>
    BY DEF Restart
  <2> QED
    BY <1>1, <2>1, <2>2, <2>3, <2>4, <2>5, <2>6, <2>7, <2>8, <2>9, <2>10 DEF Next, WatchdogActs
<1>2. TypeOK /\ [Next]_vars
        => [\A t \in Tickets : Loses(t) => UNCHANGED <<saver, verdict>>]_vars
  BY <1>1
<1> QED BY <1>2, TypeCorrect, PTL DEF Spec, ReportIsKept

-------------------------------------------------------------------------------
(* The inductive invariant of StoreIsCurrent.  What anybody knows of a     *)
(* ticket is known of one that was created ...                             *)
Rooted(t) ==
    /\ \/ There(t) \/ stored[t] # None \/ saver[t] # None
       \/ \E c \in Callers : on[c] = t
       \/ verdict.act # "none" /\ verdict.ticket = t
       => t \in born
    /\ verdict = [ticket |-> t, act |-> "purge"] => ~ There(t)
    /\ ~ up => ~ There(t) /\ saver[t] = None /\ verdict = Decided

Kept(t) ==
    t \notin missed =>
        IF There(t) THEN stored[t] \in {table[t], New}
        ELSE \/ stored[t] = None \/ age[t] = Expired
             \/ verdict = [ticket |-> t, act |-> "purge"]

(* ... and until its creator has stored it, nobody uses it: it is as it    *)
(* was created, or closed for good by others, and the creator has read it  *)
(* before or after; it goes only when it has expired, for the second time  *)
(* with the creator's late row, which the next prune takes away.           *)
Saving(t) ==
    /\ \A c \in Callers : on[c] # t
    /\ There(t) => \/ table[t].status \in Final /\ saver[t] \in {Inserted, New, table[t]}
                   \/ table[t] = New /\ saver[t] \in {Inserted, New}
    /\ ~ There(t) \/ verdict = [ticket |-> t, act |-> "remove"] => age[t] = Expired

Current(t) ==
    /\ Rooted(t)
    /\ up /\ saver[t] = None => Kept(t)
    /\ up /\ saver[t] # None => Saving(t)

CurrentInv == TypeOK /\ \A t \in Tickets : Current(t)

(* A ticket that a step leaves alone.                                      *)
LEMMA CurrentFrame ==
    ASSUME NEW t \in Tickets, Current(t), t \in born => t \in born', up' = up,
           table'[t] = table[t], stored'[t] = stored[t], age'[t] = age[t],
           saver'[t] = saver[t], t \in missed => t \in missed',
           \A c \in Callers : on'[c] = t => on[c] = t \/ (saver[t] = None /\ There(t)),
           \/ verdict' = verdict
           \/ verdict.ticket # t /\ verdict'.ticket # t /\ up
    PROVE  Current(t)'
<1> USE DEF Current, Rooted, Kept, Saving, There, Decided
<1>1. CASE verdict' = verdict
  BY <1>1
<1>2. CASE verdict.ticket # t /\ verdict'.ticket # t /\ up
  BY <1>2
<1> QED BY <1>1, <1>2

(* One that a user, having its id, puts: table and store agree, unless the *)
(* store has swallowed the write.                                          *)
LEMMA CurrentPut ==
    ASSUME TypeOK, \A t \in Tickets : Current(t),
           NEW u \in Tickets, There(u), saver[u] = None, up, NEW e \in Rows, e # None, Put(u, e),
           UNCHANGED <<born, up, saver, verdict>>,
           \A c \in Callers, t \in Tickets : on'[c] = t => on[c] = t \/ u = t
    PROVE  \A t \in Tickets : Current(t)'
<1> SUFFICES ASSUME NEW t \in Tickets PROVE Current(t)'
  OBVIOUS
<1>0. table \in [Tickets -> Rows] /\ stored \in [Tickets -> Rows] /\ age \in [Tickets -> Ages]
  BY DEF TypeOK
<1>s. /\ table'[u] = e /\ (u \in missed' \/ stored'[u] = table'[u])
      /\ t # u => stored'[t] = stored[t] /\ (t \in missed' <=> t \in missed)
  <2>1. /\ StoreFrom(missed, {u}, table') /\ missed \in SUBSET Tickets
        /\ {u} \in SUBSET Tickets /\ table'[u] = e
    BY <1>0 DEF TypeOK, Put, Store
  <2> QED BY <2>1 DEF StoreFrom
<1>1. CASE t = u
  <2>1. table'[t] = e /\ (t \in missed' \/ stored'[t] = e)
    BY <1>s, <1>1
  <2>2. t \in born /\ verdict # [ticket |-> t, act |-> "purge"]
    BY <1>1 DEF Current, Rooted
  <2> QED BY <1>1, <2>1, <2>2 DEF Current, Rooted, Kept, There
<1>2. CASE t # u
  <2>1. /\ table'[t] = table[t] /\ stored'[t] = stored[t] /\ age'[t] = age[t]
        /\ t \in missed => t \in missed'
    BY <1>0, <1>s, <1>2 DEF Put
  <2> QED BY <1>2, <2>1, CurrentFrame
<1> QED BY <1>1, <1>2

(* One that is taken out of table and store when it has expired.           *)
LEMMA CurrentPruned ==
    ASSUME TypeOK, NEW t \in Tickets, Current(t), up, up',
           table'[t] = Without(Prunable, table)[t],
           t \in Prunable => stored'[t] = None \/ t \in missed',
           t \notin Prunable => stored'[t] = stored[t] /\ (t \in missed => t \in missed'),
           age'[t] = age[t],
           saver'[t] = saver[t], t \in born => t \in born', UNCHANGED <<on, verdict>>
    PROVE  Current(t)'
<1>1. CASE t \in Prunable
  <2>1. /\ table'[t] = None /\ (stored'[t] = None \/ t \in missed')
        /\ There(t) /\ age[t] = Expired
    BY <1>1 DEF Without, Prunable
  <2> QED BY <1>1, <2>1 DEF Current, Rooted, Kept, Saving, There
<1>2. CASE t \notin Prunable
  <2>1. table'[t] = table[t]
    BY <1>2 DEF Without
  <2> QED BY <1>2, <2>1, CurrentFrame
<1> QED BY <1>1, <1>2

LEMMA CurrentCreate ==
    ASSUME CurrentInv, NEW u \in Tickets, Create(u), NEW t \in Tickets
    PROVE  Current(t)'
<1>0. /\ table \in [Tickets -> Rows] /\ stored \in [Tickets -> Rows]
      /\ saver \in [Tickets -> Rows \cup {Inserted}] /\ Current(t) /\ up /\ up'
  BY DEF CurrentInv, TypeOK, Create
<1>1. PICK closing \in SUBSET Supersedable(u) :
         /\ table' = [After(closing) EXCEPT ![u] = New]
         /\ Store(closing \cup Prunable, After(closing))
         /\ age' = [v \in Tickets |-> IF v \in closing THEN Fresh ELSE age[v]]
  BY DEF Create
<1>2. /\ u \notin born /\ born' = born \cup {u} /\ UNCHANGED <<on, verdict>>
      /\ saver' = [saver EXCEPT ![u] = Inserted]
  BY DEF Create
<1>s. /\ \A v \in closing : v \in Tickets /\ There(v) /\ age[v] # Expired
      /\ t \in closing \cup Prunable
           => t \in missed' \/ stored'[t] = After(closing)[t]
      /\ t \notin closing \cup Prunable
           => stored'[t] = stored[t] /\ (t \in missed' <=> t \in missed)
  <2>1. \A v \in closing : v \in Tickets /\ There(v) /\ age[v] # Expired
    BY DEF Supersedable
  <2>2. closing \cup Prunable \in SUBSET Tickets
    BY <2>1 DEF Prunable
  <2>3. /\ StoreFrom(missed, closing \cup Prunable, After(closing))
        /\ missed \in SUBSET Tickets
    BY <1>1 DEF Store, CurrentInv, TypeOK
  <2> QED BY <2>1, <2>2, <2>3 DEF StoreFrom
<1>3. CASE t = u
  <2>1. ~ (t \in born) /\ t \notin closing
    BY <1>2, <1>3 DEF Supersedable
  <2>2. stored[t] = None /\ stored'[t] = None
    BY <1>0, <1>s, <2>1 DEF Prunable, Current, Rooted
  <2>3. table'[t] = New /\ saver'[t] = Inserted
    BY <1>0, <1>1, <1>2, <1>3 DEF After
  <2>4. t \in born' /\ There(t)'
    BY <1>2, <1>3, <2>3, PlainRows DEF There
  <2>5. Saving(t)' /\ saver'[t] # None
    BY <1>2, <2>1, <2>3, <2>4, <1>0, PlainRows DEF Current, Rooted, Saving
  <2>6. Rooted(t)'
    BY <1>0, <1>2, <2>1, <2>4 DEF Current, Rooted
  <2> QED BY <2>5, <2>6 DEF Current
<1>4. CASE t # u /\ t \in closing
  <2>1. /\ There(t) /\ age[t] # Expired /\ table[t].status \notin Final
    BY <1>4 DEF Supersedable
  <2>2. /\ table'[t] = Closed(table[t]) /\ saver'[t] = saver[t]
        /\ t \in missed' \/ stored'[t] = Closed(table[t])
    BY <1>0, <1>1, <1>2, <1>s, <1>4 DEF After
  <2>3. Closed(table[t]) # None /\ Closed(table[t]).status \in Final
    BY <1>0, <2>1 DEF Closed, None, Final, Rows, There
  <2> QED BY <1>0, <1>2, <1>4, <2>1, <2>2, <2>3 DEF Current, Rooted, Kept, Saving, There
<1>5. CASE t # u /\ t \notin closing
  <2>1. /\ table'[t] = Without(Prunable, table)[t]
        /\ saver'[t] = saver[t] /\ age'[t] = age[t]
        /\ t \in Prunable => t \in missed' \/ stored'[t] = None
        /\ t \notin Prunable => stored'[t] = stored[t] /\ (t \in missed => t \in missed')
    BY <1>0, <1>1, <1>2, <1>s, <1>5 DEF After, Without
  <2> QED BY <1>0, <1>2, <2>1, CurrentPruned DEF CurrentInv
<1> QED BY <1>3, <1>4, <1>5

LEMMA CurrentSave ==
    ASSUME CurrentInv, NEW u \in Tickets, ReadForSave(u) \/ SaveCreated(u), NEW t \in Tickets
    PROVE  Current(t)'
<1>0. /\ table \in [Tickets -> Rows] /\ stored \in [Tickets -> Rows]
      /\ saver \in [Tickets -> Rows \cup {Inserted}] /\ Current(t)
  BY DEF CurrentInv, TypeOK
<1>1. CASE t # u
  <2>1. /\ UNCHANGED <<table, age, born, on, verdict, up>>
        /\ stored'[t] = stored[t] /\ saver'[t] = saver[t] /\ (t \in missed => t \in missed')
    <3>1. CASE ReadForSave(u)
      BY <1>0, <1>1, <3>1 DEF ReadForSave, store
    <3>2. CASE SaveCreated(u)
      <4>1. stored'[t] = stored[t] /\ (t \in missed' <=> t \in missed)
        BY <1>1, <3>2, StoreFacts DEF SaveCreated, Store, CurrentInv, TypeOK
      <4> QED BY <1>0, <1>1, <3>2, <4>1 DEF SaveCreated
    <3> QED BY <3>1, <3>2
  <2> QED BY <1>0, <2>1, CurrentFrame
<1>2. CASE t = u /\ ReadForSave(u)
  <2>1. /\ UNCHANGED <<table, store, age, born, on, verdict, up>>
        /\ saver[t] = Inserted /\ saver'[t] = table[t] /\ up
    BY <1>0, <1>2 DEF ReadForSave
  <2>2. Saving(t)
    BY <1>0, <2>1, PlainRows DEF Current
  <2> QED BY <1>0, <2>1, <2>2 DEF Current, Rooted, Kept, Saving, There, store
<1>3. CASE t = u /\ SaveCreated(u)
  <2>0. t \in missed' \/ stored'[t] = saver[t]
    BY <1>3, StoreFacts DEF SaveCreated, Store, CurrentInv, TypeOK
  <2>1. /\ UNCHANGED <<table, age, born, on, verdict, up>>
        /\ saver[t] \notin {None, Inserted} /\ saver'[t] = None /\ up
        /\ t \in missed' \/ stored'[t] = saver[t]
    BY <1>0, <1>3, <2>0 DEF SaveCreated
  <2>2. Saving(t)
    BY <1>0, <2>1 DEF Current
  <2> QED BY <1>0, <2>1, <2>2 DEF Current, Rooted, Kept, Saving, There
<1> QED BY <1>1, <1>2, <1>3

(* The calls of users, who hold an id whose creator has stored the ticket. *)
LEMMA CurrentUse ==
    ASSUME CurrentInv, NEW c, NEW u \in Tickets,
           \/ MarkCommand(u) \/ UpdatePlan(u) \/ MarkCompleted(u)
           \/ /\ c \in Callers
              /\ \/ Tell(c, u) \/ Deliver(c, u)
                 \/ \E quiet \in BOOLEAN : MarkFailed(c, u, quiet)
    PROVE  \A t \in Tickets : Current(t)'
<1>0. /\ table \in [Tickets -> Rows] /\ on \in [Callers -> Tickets \cup {NoTicket}]
      /\ TypeOK /\ \A t \in Tickets : Current(t)
  BY DEF CurrentInv, TypeOK
<1>1. up /\ UNCHANGED <<saver, born, verdict, up>>
  BY DEF MarkCommand, UpdatePlan, MarkCompleted, Tell, Deliver, MarkFailed, Usable, Same
<1>2. saver[u] = None
  <2>1. CASE Usable(u)
    BY <2>1 DEF Usable
  <2>2. CASE c \in Callers /\ on[c] = u
    BY <1>0, <1>1, <2>2 DEF Current, Saving
  <2> QED BY <2>1, <2>2 DEF MarkCommand, UpdatePlan, MarkCompleted, Tell, Deliver, MarkFailed
<1>3. \A d \in Callers, t \in Tickets : on'[d] = t => on[d] = t \/ u = t
  BY <1>0, SentinelAssumption
     DEF MarkCommand, UpdatePlan, MarkCompleted, Tell, Deliver, MarkFailed, Goes, Leaves
<1>4. ASSUME NEW e \in Rows, e # None, There(u), Put(u, e) PROVE \A t \in Tickets : Current(t)'
  BY <1>0, <1>1, <1>2, <1>3, <1>4, CurrentPut
<1>5. ASSUME Untouched, There(u) \/ on' = [on EXCEPT ![c] = NoTicket]
      PROVE \A t \in Tickets : Current(t)'
  <2>1. \A t \in Tickets, d \in Callers : on'[d] = t => on[d] = t \/ (saver[t] = None /\ There(t))
    BY <1>0, <1>2, <1>3, <1>5, SentinelAssumption
  <2> QED BY <1>0, <1>1, <1>5, <2>1, CurrentFrame DEF Untouched, store
<1>6. ASSUME There(u), NEW s \in Statuses, NEW e \in Rows, e = [table[u] EXCEPT !.status = s] PROVE e # None
  BY <1>6 DEF Statuses, Final, None
<1>7. There(u) => table[u] \in Rows /\ table[u] # None
  BY <1>0 DEF There
<1>8. CASE MarkCommand(u)
  BY <1>4, <1>6, <1>7, <1>8, RowFacts DEF MarkCommand, Usable, Statuses
<1>9. CASE UpdatePlan(u)
  BY <1>4, <1>7, <1>9 DEF UpdatePlan, Usable
<1>10. CASE MarkCompleted(u)
  <2>1. \/ Put(u, [table[u] EXCEPT !.status = "delivered"])
        \/ Put(u, [table[u] EXCEPT !.status = "completed"])
    BY <1>10 DEF MarkCompleted
  <2> QED BY <1>4, <1>6, <1>7, <1>10, <2>1, RowFacts DEF MarkCompleted, Usable, Statuses, Final
<1>11. CASE Tell(c, u)
  BY <1>5, <1>11 DEF Tell, Usable
<1>12. CASE Deliver(c, u)
  <2>1. CASE Refused(u)
    BY <1>5, <1>12, <2>1 DEF Deliver, Leaves, Goes
  <2>2. CASE ~ Refused(u)
    <3>1. There(u) /\ \/ Put(u, [table[u] EXCEPT !.status = "delivered"])
                      \/ Put(u, [table[u] EXCEPT !.status = "sending"])
      BY <1>12, <2>2 DEF Deliver, Refused, Answered
    <3> QED BY <1>4, <1>6, <1>7, <3>1, RowFacts DEF Statuses, Final
  <2> QED BY <2>1, <2>2
<1>13. CASE \E quiet \in BOOLEAN : MarkFailed(c, u, quiet)
  <2>1. There(u) /\ Put(u, [table[u] EXCEPT !.status = "failed"])
    BY <1>13 DEF MarkFailed, Usable
  <2> QED BY <1>4, <1>6, <1>7, <2>1, RowFacts DEF Statuses, Final
<1> QED BY <1>8, <1>9, <1>10, <1>11, <1>12, <1>13

LEMMA CurrentCaller ==
    ASSUME CurrentInv, NEW c \in Callers, CallerStep(c)
    PROVE  \A t \in Tickets : Current(t)'
<1>0. /\ table \in [Tickets -> Rows] /\ on \in [Callers -> Tickets \cup {NoTicket}]
      /\ TypeOK /\ \A t \in Tickets : Current(t)
  BY DEF CurrentInv, TypeOK
<1>1. on[c] \in Tickets
  BY <1>0, CallerHasTicket, TypeParts
     DEF CallerStep, MarkReported, MarkDelivered, EndCall, Send, SendFails
<1>2. CASE pc[c] = "failing" /\ Deliver(c, on[c])
  BY <1>1, <1>2, CurrentUse
<1>3. CASE MarkReported(c) \/ MarkDelivered(c) \/ EndCall(c) \/ Send(c) \/ SendFails(c)
  <2>1. up /\ UNCHANGED <<saver, born, verdict, up>>
    BY <1>3 DEF MarkReported, MarkDelivered, EndCall, Send, SendFails, Same
  <2>2. saver[on[c]] = None
    BY <1>0, <1>1, <2>1 DEF Current, Saving
  <2>3. \A d \in Callers, t \in Tickets : on'[d] = t => on[d] = t
    BY <1>0, <1>3, SentinelAssumption
       DEF MarkReported, MarkDelivered, EndCall, Send, SendFails, Goes, Leaves
  <2>4. CASE Untouched
    BY <1>0, <2>1, <2>3, <2>4, CurrentFrame DEF Untouched, store
  <2>5. ASSUME NEW e \in Rows, e # None, There(on[c]), Put(on[c], e)
        PROVE \A t \in Tickets : Current(t)'
    BY <1>0, <1>1, <2>1, <2>2, <2>3, <2>5, CurrentPut
  <2>6. CASE MarkReported(c) /\ ~ Untouched
    <3>1. There(on[c]) /\ Put(on[c], [table[on[c]] EXCEPT !.reported = TRUE])
      BY <2>6 DEF MarkReported
    <3>2. [table[on[c]] EXCEPT !.reported = TRUE] # None
      BY <1>0, <1>1, <3>1 DEF There, Rows, None, Statuses, Final
    <3> QED BY <1>0, <1>1, <2>5, <3>1, <3>2, RowFacts DEF There
  <2>7. CASE (MarkDelivered(c) \/ SendFails(c)) /\ ~ Untouched
    <3>1. PICK e \in {Answered(table[on[c]]), AfterFailedSend(table[on[c]])} :
             There(on[c]) /\ Put(on[c], e)
      BY <2>7 DEF MarkDelivered, SendFails
    <3>2. e # None
      BY <1>0, <1>1, <3>1 DEF There, Rows, None, Answered, AfterFailedSend
    <3> QED BY <1>0, <1>1, <2>5, <3>1, <3>2, RowFacts DEF There
  <2> QED BY <1>3, <2>4, <2>6, <2>7 DEF EndCall, Send
<1> QED BY <1>2, <1>3 DEF CallerStep

(* The watchdog, the prunes, the clock and the ends of the backend.        *)
LEMMA CurrentWatch ==
    ASSUME CurrentInv,
           \/ \E u \in Tickets : Judge(u)
           \/ WatchdogActs \/ Snapshot \/ Tick \/ Crash \/ Restart \/ UNCHANGED vars
    PROVE  \A t \in Tickets : Current(t)'
<1>0. /\ table \in [Tickets -> Rows] /\ stored \in [Tickets -> Rows]
      /\ age \in [Tickets -> Ages] /\ verdict \in Verdicts
      /\ TypeOK /\ \A t \in Tickets : Current(t)
  BY DEF CurrentInv, TypeOK
<1> SUFFICES ASSUME NEW t \in Tickets PROVE Current(t)'
  OBVIOUS
<1>1. ASSUME NEW u \in Tickets, Judge(u) PROVE Current(t)'
  <2>1. /\ UNCHANGED <<table, stored, missed, age, saver, born, on, up>> /\ There(u) /\ up
        /\ verdict.act = "none" /\ verdict' = [ticket |-> u, act |-> Verdict(u)]
        /\ Verdict(u) \in {"close", "remove"} /\ (Verdict(u) = "remove" => age[u] = Expired)
    BY <1>1 DEF Judge, Verdict, Fresh, Stale, Expired, store
  <2>2. u \in born
    BY <1>0, <2>1 DEF Current, Rooted
  <2> QED BY <1>0, <2>1, <2>2 DEF Current, Rooted, Kept, Saving, There
<1>2. CASE CloseStale
  <2>1. /\ verdict.act = "close" /\ verdict' = Decided /\ up /\ UNCHANGED <<saver, born, on, up>>
    BY <1>2 DEF CloseStale
  <2>2. verdict.ticket \in Tickets
    BY <1>0, <2>1 DEF Verdicts, Decided
  <2>3. CASE StillOpen(verdict.ticket) /\ t = verdict.ticket
    <3>0. t \in missed' \/ stored'[t] = table'[t]
      <4>1. /\ StoreFrom(missed, {t}, table') /\ missed \in SUBSET Tickets
            /\ {t} \in SUBSET Tickets
        BY <1>0, <1>2, <2>3 DEF CloseStale, Put, Store, TypeOK
      <4> QED BY <4>1, StoreFacts
    <3>1. /\ There(t) /\ table[t].status \notin Final
          /\ table'[t] = Closed(table[t]) /\ (t \in missed' \/ stored'[t] = Closed(table[t]))
      BY <1>0, <1>2, <2>3, <3>0 DEF CloseStale, StillOpen, Put
    <3>2. Closed(table[t]) # None /\ Closed(table[t]).status \in Final
      BY <1>0, <3>1 DEF Closed, None, Final, Rows, There
    <3> QED BY <1>0, <2>1, <3>1, <3>2 DEF Current, Rooted, Kept, Saving, There, Decided
  <2>4. CASE ~ StillOpen(verdict.ticket) \/ t # verdict.ticket
    <3>0. stored'[t] = stored[t] /\ (t \in missed => t \in missed')
      <4>1. CASE StillOpen(verdict.ticket)
        BY <1>0, <1>2, <2>2, <2>4, <4>1, StoreFacts DEF CloseStale, Put, Store, TypeOK
      <4>2. CASE ~ StillOpen(verdict.ticket)
        BY <1>2, <4>2 DEF CloseStale, Untouched, store
      <4> QED BY <4>1, <4>2
    <3>1. /\ table'[t] = table[t] /\ stored'[t] = stored[t] /\ age'[t] = age[t]
          /\ t \in missed => t \in missed'
      BY <1>0, <1>2, <2>4, <3>0 DEF CloseStale, Put, Untouched
    <3> QED BY <1>0, <2>1, <3>1 DEF Current, Rooted, Kept, Saving, There, Decided
  <2> QED BY <2>3, <2>4
<1>3. CASE RemoveExpired
  <2>1. /\ verdict.act = "remove" /\ verdict' = [verdict EXCEPT !.act = "purge"] /\ up
        /\ UNCHANGED <<stored, missed, age, saver, born, on, up>>
        /\ table' = [table EXCEPT ![verdict.ticket] = None]
    BY <1>3 DEF RemoveExpired, store
  <2>2. /\ verdict = [ticket |-> verdict.ticket, act |-> "remove"]
        /\ verdict' = [ticket |-> verdict.ticket, act |-> "purge"]
        /\ verdict.ticket \in Tickets
    BY <1>0, <2>1 DEF Verdicts, Decided
  <2>3. CASE t = verdict.ticket
    <3>1. table'[t] = None
      BY <1>0, <2>1, <2>3
    <3> QED BY <1>0, <2>1, <2>2, <2>3, <3>1 DEF Current, Rooted, Kept, Saving, There
  <2>4. CASE t # verdict.ticket
    <3>1. table'[t] = table[t]
      BY <1>0, <2>1, <2>4
    <3> QED BY <1>0, <2>1, <2>2, <2>4, <3>1, CurrentFrame
  <2> QED BY <2>3, <2>4
<1>4. CASE Purge
  <2>1. /\ verdict.act = "purge" /\ verdict' = Decided /\ up
        /\ UNCHANGED <<table, age, saver, born, on, up>>
        /\ Store({verdict.ticket}, NoRows)
    BY <1>4 DEF Purge
  <2>2. /\ verdict = [ticket |-> verdict.ticket, act |-> "purge"]
        /\ verdict.ticket \in Tickets
    BY <1>0, <2>1 DEF Verdicts, Decided
  <2>s. /\ stored'[t] \in {stored[t], None}
        /\ t = verdict.ticket => t \in missed' \/ stored'[t] = None
        /\ t # verdict.ticket => stored'[t] = stored[t] /\ (t \in missed' <=> t \in missed)
    BY <2>1, <2>2, StoreFacts DEF Store, NoRows, CurrentInv, TypeOK
  <2>3. CASE t = verdict.ticket
    <3>1. (t \in missed' \/ stored'[t] = None) /\ stored'[t] \in {stored[t], None} /\ ~ There(t)
      BY <1>0, <2>1, <2>2, <2>s, <2>3 DEF Current, Rooted
    <3> QED BY <1>0, <2>1, <2>2, <2>3, <3>1 DEF Current, Rooted, Kept, Saving, There, Decided
  <2>4. CASE t # verdict.ticket
    <3>1. stored'[t] = stored[t] /\ verdict'.ticket # t /\ (t \in missed => t \in missed')
      BY <1>0, <2>1, <2>s, <2>4, SentinelAssumption DEF Decided
    <3> QED BY <1>0, <2>1, <2>4, <3>1, CurrentFrame
  <2> QED BY <2>3, <2>4
<1>5. CASE Snapshot
  <2>1. /\ up /\ table' = Without(Prunable, table)
        /\ UNCHANGED <<age, saver, born, on, verdict, up>>
        /\ t \in Prunable => stored'[t] = None \/ t \in missed'
        /\ t \notin Prunable => stored'[t] = stored[t] /\ (t \in missed <=> t \in missed')
    <3>1. Prunable \in SUBSET Tickets /\ missed \in SUBSET Tickets /\ NoRows[t] = None
      BY <1>0 DEF Prunable, NoRows, TypeOK
    <3>2. up /\ table' = Without(Prunable, table) /\ StoreFrom(missed, Prunable, NoRows)
          /\ UNCHANGED <<age, saver, born, on, verdict, up>>
      BY <1>5 DEF Snapshot, Store
    <3> QED BY <3>1, <3>2, StoreFacts
  <2> QED BY <1>0, <2>1, CurrentPruned
<1>6. CASE Tick
  <2>1. /\ UNCHANGED <<table, stored, missed, saver, born, on, verdict, up>>
        /\ age[t] = Expired => age'[t] = Expired
    BY <1>0, <1>6 DEF Tick, Fresh, Stale, Expired, Ages, store
  <2> QED BY <1>0, <2>1 DEF Current, Rooted, Kept, Saving, There
<1>7. CASE Crash
  <2>1. /\ ~ up' /\ verdict' = Decided /\ table'[t] = None /\ saver'[t] = None
        /\ \A c \in Callers : on'[c] = NoTicket
        /\ UNCHANGED <<stored, born>>
    BY <1>7 DEF Crash, store
  <2> QED BY <1>0, <2>1, SentinelAssumption DEF Current, Rooted, There, Decided
<1>8. CASE Restart
  <2>1. ~ up /\ up' /\ UNCHANGED <<saver, born, on, verdict>>
    BY <1>8 DEF Restart
  <2>2. saver[t] = None /\ verdict = Decided /\ ~ There(t)
    BY <1>0, <2>1 DEF Current, Rooted
  <2>3. /\ stored'[t] \in {stored[t], None} /\ table'[t] \in {stored[t], None}
        /\ t \in missed' \/ table'[t] = stored'[t]
    <3>1. CASE LoadFails
      BY <2>2, <3>1 DEF LoadFails, There
    <3>2. ASSUME NEW ages \in [Tickets -> Ages], Load(ages)
          PROVE  /\ stored'[t] \in {stored[t], None} /\ table'[t] \in {stored[t], None}
                 /\ t \in missed' \/ table'[t] = stored'[t]
      <4> DEFINE dead == {v \in Tickets : stored[v] # None /\ ages[v] = Expired}
      <4>1. /\ table' = Without(dead, stored) /\ StoreFrom({}, dead, NoRows)
            /\ dead \in SUBSET Tickets /\ {} \in SUBSET Tickets /\ NoRows[t] = None
        BY <3>2 DEF Load, NoRows
      <4> HIDE DEF dead
      <4>2. table'[t] = IF t \in dead THEN None ELSE stored[t]
        BY <4>1 DEF Without
      <4>3. /\ stored'[t] \in {stored[t], None}
            /\ t \in dead => t \in missed' \/ stored'[t] = None
            /\ t \notin dead => stored'[t] = stored[t]
        BY <4>1 DEF StoreFrom
      <4> QED BY <4>2, <4>3
    <3> QED BY <1>8, <3>1, <3>2 DEF Restart
  <2> QED BY <1>0, <2>1, <2>2, <2>3 DEF Current, Rooted, Kept, There, Decided
<1>9. CASE UNCHANGED vars
  BY <1>0, <1>9, CurrentFrame DEF vars, store
<1> QED BY <1>1, <1>2, <1>3, <1>4, <1>5, <1>6, <1>7, <1>8, <1>9 DEF WatchdogActs

LEMMA CurrentStep == CurrentInv /\ [Next]_vars => CurrentInv'
<1> SUFFICES ASSUME CurrentInv, [Next]_vars PROVE CurrentInv'
  OBVIOUS
<1>1. TypeOK'
  BY TypeStep DEF CurrentInv
<1>2. \A t \in Tickets : Current(t)'
  <2>1. ASSUME NEW u \in Tickets, MarkCommand(u) \/ UpdatePlan(u) \/ MarkCompleted(u)
        PROVE \A t \in Tickets : Current(t)'
    BY <2>1, CurrentUse
  <2> QED
    BY <2>1, CurrentCreate, CurrentSave, CurrentUse, CurrentCaller, CurrentWatch DEF Next
<1> QED BY <1>1, <1>2 DEF CurrentInv

(* What a restart reads is what the table says, or the ticket as it was    *)
(* created; and of a ticket that is gone, nothing the restart would keep.  *)
THEOREM StoreKeepsUp == Spec => []StoreIsCurrent
<1>1. Init => CurrentInv
  <2>1. Init => \A t \in Tickets : Current(t)
    BY SentinelAssumption DEF Init, Current, Rooted, Kept, There, Decided
  <2> QED BY <2>1, TypeInit DEF CurrentInv
<1>2. CurrentInv => StoreIsCurrent
  BY DEF CurrentInv, Current, Kept, StoreIsCurrent
<1> QED BY <1>1, <1>2, CurrentStep, PTL DEF Spec
===============================================================================
