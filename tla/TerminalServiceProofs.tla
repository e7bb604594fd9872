------------------------ MODULE TerminalServiceProofs ------------------------
(***************************************************************************)
(* The daemon's terminal, first among any clients and then driven by the   *)
(* backend, whose callers, sockets, late answers and crashes take steps of *)
(* DaemonNext only: what holds among arbitrary clients holds in the        *)
(* composed system.  For all session ids, starts, callers and sockets.     *)
(***************************************************************************)
EXTENDS TerminalService, FiniteSetTheorems, SequenceTheorems, TLAPS

-------------------------------------------------------------------------------
(* The daemon among any clients.                                           *)

(* What the steps do to the record of one terminal keeps its type.         *)
LEMMA RecordTypes ==
    ASSUME NEW t \in Terminals
    PROVE  /\ [t EXCEPT !.status = "waiting_backend", !.starter = "waiting"] \in Terminals
           /\ [t EXCEPT !.child = "exited"] \in Terminals
           /\ [t EXCEPT !.reader = "done", !.status = "stopped"] \in Terminals
           /\ [t EXCEPT !.reader = "gave_up", !.status = "stopped"] \in Terminals
           /\ [t EXCEPT !.reader = "died"] \in Terminals
           /\ [t EXCEPT !.starter = "done", !.status = "running"] \in Terminals
           /\ Killed(t) \in Terminals /\ Killed(t).child # "alive"
BY DEF Terminals, Statuses, LiveStatuses, Killed

LEMMA NewTypes ==
    /\ Blank \in Terminals
    /\ [Blank EXCEPT !.status = "starting", !.child = "alive", !.reader = "reading"] \in Terminals
    /\ \A child \in {"none", "alive"}, reader \in {"none", "reading"} :
          [Blank EXCEPT !.status = "error", !.child = child, !.reader = reader] \in Terminals
BY DEF Terminals, Statuses, LiveStatuses, Blank

(* A failure that is still allowed leaves the count within its bound.      *)
LEMMA FailureBound ==
    ASSUME failures \in 0 .. MaxFailures, MayFail
    PROVE  failures + 1 \in 0 .. MaxFailures /\ failures + 1 > 0
<1> DEFINE lost == {g \in Gens : term[g].reader \in {"died", "gave_up"}}
<1>1. IsFiniteSet(Gens)
  BY BoundAssumption, FS_Interval DEF Gens
<1>2. Cardinality(lost) \in Nat
  BY <1>1, FS_Subset, FS_CardinalityType
<1>3. failures + Cardinality(lost) < MaxFailures
  BY DEF MayFail
<1> HIDE DEF lost
<1> QED BY <1>2, <1>3, BoundAssumption

LEMMA ShellTypeStep == DaemonTypeOK /\ [DaemonNext]_daemonVars => ShellTypeOK'
<1> SUFFICES ASSUME DaemonTypeOK, [DaemonNext]_daemonVars PROVE ShellTypeOK'
  OBVIOUS
<1>0. /\ terminals \in Gens \cup {None} /\ term \in [Gens -> Terminals]
      /\ starts \in 0 .. MaxStarts /\ loop \in Gens \cup {None}
      /\ token \in Gens \cup {None} /\ failures \in 0 .. MaxFailures
  BY DEF DaemonTypeOK, ShellTypeOK
<1>1. CASE Start
  <2>1. New \in Gens /\ starts' \in 0 .. MaxStarts
    BY <1>0, <1>1, BoundAssumption DEF Start, CanStart, New, Gens
  <2> QED BY <1>0, <1>1, <2>1, NewTypes DEF Start, ShellTypeOK
<1>2. CASE Started
  <2>1. term' = [term EXCEPT ![loop] =
                   [term[loop] EXCEPT !.status = "waiting_backend", !.starter = "waiting"]]
    BY <1>0, <1>2 DEF Started
  <2>2. loop \in Gens /\ term[loop] \in Terminals
    BY <1>0, <1>2 DEF Started
  <2>3. term' \in [Gens -> Terminals]
    BY <1>0, <2>1, <2>2, RecordTypes
  <2>4. loop' = None /\ UNCHANGED <<terminals, starts, token, failures>>
    BY <1>2 DEF Started
  <2> QED BY <1>0, <2>3, <2>4 DEF ShellTypeOK
<1>3. CASE StartFails
  <2>1. New \in Gens /\ starts' \in 0 .. MaxStarts /\ failures' \in 0 .. MaxFailures
    BY <1>0, <1>3, BoundAssumption, FailureBound DEF StartFails, CanStart, New, Gens
  <2>2. PICK child \in {"none", "alive"}, reader \in {"none", "reading"} :
          term' = [term EXCEPT ![New] = [Blank EXCEPT !.status = "error",
                                         !.child = child, !.reader = reader]]
    BY <1>3 DEF StartFails
  <2>3. term' \in [Gens -> Terminals]
    BY <1>0, <2>1, <2>2, NewTypes
  <2> QED BY <1>0, <1>3, <2>1, <2>3 DEF StartFails, ShellTypeOK
<1>9. CASE CreateFails
  <2>1. failures' \in 0 .. MaxFailures
    BY <1>0, <1>9, FailureBound DEF CreateFails
  <2> QED BY <1>0, <1>9, <2>1 DEF CreateFails, ShellTypeOK
<1>4. CASE Stop
  BY <1>0, <1>4, RecordTypes DEF Stop, ShellTypeOK
<1>5. ASSUME NEW g \in Gens, ShellExits(g) PROVE ShellTypeOK'
  <2>1. term' = [term EXCEPT ![g] = [term[g] EXCEPT !.child = "exited"]]
    BY <1>5 DEF ShellExits
  <2>2. term' \in [Gens -> Terminals]
    BY <1>0, <2>1, RecordTypes
  <2>3. UNCHANGED <<terminals, starts, loop, token, failures>>
    BY <1>5 DEF ShellExits
  <2> QED BY <1>0, <2>2, <2>3 DEF ShellTypeOK
<1>6. ASSUME NEW g \in Gens, ReaderFails(g) \/ TerminalThreads(g) PROVE ShellTypeOK'
  <2>1. \/ term' = [term EXCEPT ![g] = [term[g] EXCEPT !.reader = "gave_up", !.status = "stopped"]]
        \/ term' = [term EXCEPT ![g] = [term[g] EXCEPT !.reader = "died"]]
        \/ term' = [term EXCEPT ![g] = [term[g] EXCEPT !.reader = "done", !.status = "stopped"]]
        \/ term' = [term EXCEPT ![g] = [term[g] EXCEPT !.starter = "done", !.status = "running"]]
    BY <1>0, <1>6 DEF ReaderFails, TerminalThreads, ReaderEnds, WatchdogMarks, SetRunning
  <2>2. UNCHANGED <<terminals, starts, loop, token, failures>>
    BY <1>6 DEF ReaderFails, TerminalThreads, ReaderEnds, WatchdogMarks, SetRunning
  <2>3. term[g] \in Terminals
    BY <1>0
  <2>4. term' \in [Gens -> Terminals]
    BY <1>0, <2>1, <2>3, RecordTypes
  <2> QED BY <1>0, <2>2, <2>4 DEF ShellTypeOK
<1>7. CASE UNCHANGED shellVars
  BY <1>0, <1>7 DEF shellVars, ShellTypeOK
<1>8. (\E s \in Sids : Arrive(s) \/ (\E t \in Gens : Connect(s, t)) \/ Disconnect(s) \/ CloseSocket(s))
      \/ (\E closed \in SUBSET Sids : Cut(closed)) \/ UNCHANGED daemonVars
      => UNCHANGED shellVars
  BY DEF Arrive, Connect, Disconnect, CloseSocket, Cut, daemonVars
<1> QED BY <1>1, <1>2, <1>3, <1>9, <1>4, <1>5, <1>6, <1>7, <1>8 DEF DaemonNext

LEMMA RoomTypeStep == DaemonTypeOK /\ [DaemonNext]_daemonVars => RoomTypeOK'
<1> SUFFICES ASSUME DaemonTypeOK, [DaemonNext]_daemonVars PROVE RoomTypeOK'
  OBVIOUS
<1> USE DEF DaemonTypeOK, RoomTypeOK
<1>1. CASE Start \/ StartFails \/ CreateFails
  BY <1>1 DEF Start, StartFails, CreateFails
<1>2. CASE Stop
  BY <1>2 DEF Stop, CloseConnections, DestroyRoom
<1>3. ASSUME NEW s \in Sids, Arrive(s) PROVE RoomTypeOK'
  BY <1>3 DEF Arrive
<1>4. ASSUME NEW s \in Sids, NEW t \in Gens, Connect(s, t) PROVE RoomTypeOK'
  BY <1>4 DEF Connect
<1>5. ASSUME NEW s \in Sids, Disconnect(s) \/ CloseSocket(s) PROVE RoomTypeOK'
  BY <1>5 DEF Disconnect, CloseSocket, Gone, Forgotten
<1>6. ASSUME NEW closed \in SUBSET Sids, Cut(closed) PROVE RoomTypeOK'
  BY <1>6 DEF Cut
<1>7. CASE UNCHANGED roomVars
  BY <1>7 DEF roomVars
<1> QED
  BY <1>1, <1>2, <1>3, <1>4, <1>5, <1>6, <1>7
     DEF DaemonNext, Started, ShellExits, ReaderFails, TerminalThreads, ReaderEnds, WatchdogMarks, SetRunning, daemonVars

LEMMA InitTypes == DaemonInit => DaemonTypeOK
<1> SUFFICES ASSUME DaemonInit PROVE DaemonTypeOK
  OBVIOUS
<1>1. ShellTypeOK
  BY NewTypes, BoundAssumption DEF DaemonInit, ShellTypeOK, Gens, None
<1>2. RoomTypeOK
  BY DEF DaemonInit, RoomTypeOK
<1> QED BY <1>1, <1>2 DEF DaemonTypeOK

(* Table, threads, room and sockets keep their types.                      *)
THEOREM DaemonTypeCorrect == DaemonSpec => []DaemonTypeOK
<1>1. DaemonInit => DaemonTypeOK
  BY InitTypes
<1>2. DaemonTypeOK /\ [DaemonNext]_daemonVars => DaemonTypeOK'
  BY ShellTypeStep, RoomTypeStep DEF DaemonTypeOK
<1> QED BY <1>1, <1>2, PTL DEF DaemonSpec

-------------------------------------------------------------------------------
(* Threads of a terminal write its record only, and the status in passing. *)
LEMMA ThreadsWriteTheirOwn ==
    ASSUME term \in [Gens -> Terminals], NEW g \in Gens, ShellExits(g) \/ ReaderFails(g) \/ TerminalThreads(g)
    PROVE  /\ UNCHANGED <<terminals, starts, loop, token, failures, roomVars>>
           /\ \A h \in Gens \ {g} : term'[h] = term[h]
           /\ term'[g].status \in {term[g].status, "stopped", "running"}
           /\ term'[g].child \in {term[g].child, "exited"}
           /\ term'[g].child = "alive" => \/ term'[g].reader = "gave_up"
                                          \/ term'[g].status \in {term[g].status, "running"}
           /\ term[g].reader = "gave_up" => term'[g].reader = "gave_up"
           /\ term'[g].starter = "none" <=> term[g].starter = "none"
<1>0. term[g] \in Terminals
  OBVIOUS
<1>1. CASE ShellExits(g)
  <2>1. term' = [term EXCEPT ![g] = [term[g] EXCEPT !.child = "exited"]]
    BY <1>1 DEF ShellExits
  <2>2. term'[g] = [term[g] EXCEPT !.child = "exited"] /\ \A h \in Gens \ {g} : term'[h] = term[h]
    BY <2>1
  <2> QED BY <1>0, <1>1, <2>2 DEF ShellExits, Terminals
<1>2. CASE ReaderEnds(g)
  <2>1. term' = [term EXCEPT ![g] = [term[g] EXCEPT !.reader = "done", !.status = "stopped"]]
    BY <1>2 DEF ReaderEnds
  <2>2. term'[g] = [term[g] EXCEPT !.reader = "done", !.status = "stopped"] /\ \A h \in Gens \ {g} : term'[h] = term[h]
    BY <2>1
  <2> QED BY <1>0, <1>2, <2>2 DEF ReaderEnds, Terminals
<1>3. CASE SetRunning(g)
  <2>1. term' = [term EXCEPT ![g] = [term[g] EXCEPT !.starter = "done", !.status = "running"]]
    BY <1>3 DEF SetRunning
  <2>2. term'[g] = [term[g] EXCEPT !.starter = "done", !.status = "running"] /\ \A h \in Gens \ {g} : term'[h] = term[h]
    BY <2>1
  <2> QED BY <1>0, <1>3, <2>2 DEF SetRunning, Terminals
<1>4. CASE WatchdogMarks(g)
  <2>1. term' = [term EXCEPT ![g] = [term[g] EXCEPT !.reader = "gave_up", !.status = "stopped"]]
    BY <1>4 DEF WatchdogMarks
  <2>2. term'[g] = [term[g] EXCEPT !.reader = "gave_up", !.status = "stopped"] /\ \A h \in Gens \ {g} : term'[h] = term[h]
    BY <2>1
  <2> QED BY <1>0, <1>4, <2>2 DEF WatchdogMarks, Terminals
<1>5. CASE ReaderFails(g)
  <2>1. PICK r \in {[term[g] EXCEPT !.reader = "gave_up", !.status = "stopped"],
                    [term[g] EXCEPT !.reader = "died"]} : term' = [term EXCEPT ![g] = r]
    BY <1>5 DEF ReaderFails
  <2>2. term'[g] = r /\ \A h \in Gens \ {g} : term'[h] = term[h]
    BY <2>1
  <2> QED BY <1>0, <1>5, <2>1, <2>2 DEF ReaderFails, Terminals
<1> QED BY <1>1, <1>2, <1>3, <1>4, <1>5 DEF TerminalThreads

(* The table names the terminal created last.                              *)
TableIsLatest == terminals \in {None, starts}

LEMMA TableStep == TableIsLatest /\ [DaemonNext]_daemonVars => TableIsLatest'
BY DEF TableIsLatest, DaemonNext, Start, Started, StartFails, CreateFails, Stop, ShellExits,
       ReaderFails, TerminalThreads, ReaderEnds, WatchdogMarks, SetRunning, Arrive, Connect,
       Disconnect, CloseSocket, Cut, New, daemonVars, shellVars

LEMMA TokenStep ==
    DaemonTypeOK /\ TableIsLatest /\ TokenOfTerminal /\ [DaemonNext]_daemonVars => TokenOfTerminal'
<1> SUFFICES ASSUME DaemonTypeOK, TableIsLatest, TokenOfTerminal, [DaemonNext]_daemonVars
             PROVE TokenOfTerminal'
  OBVIOUS
<1>0. /\ term \in [Gens -> Terminals] /\ token \in Gens \cup {None}
      /\ terminals \in Gens \cup {None} /\ failures \in 0 .. MaxFailures
  BY DEF DaemonTypeOK, ShellTypeOK
<1>1. CASE Start
  <2>1. starts + 1 \in Gens
    BY <1>1, BoundAssumption DEF Start, CanStart, DaemonTypeOK, ShellTypeOK, Gens
  <2> QED BY <1>0, <1>1, <2>1 DEF Start, New, TokenOfTerminal, Blank
<1>2. CASE Started
  BY <1>0, <1>2 DEF Started, TokenOfTerminal
<1>3. CASE StartFails \/ Stop
  BY <1>3 DEF StartFails, Stop, TokenOfTerminal
<1>6. CASE CreateFails
  <2>1. failures' > 0
    BY <1>0, <1>6, FailureBound DEF CreateFails
  <2> QED BY <1>0, <1>6, <2>1 DEF CreateFails, TableIsLatest, TokenOfTerminal
<1>4. ASSUME NEW g \in Gens, ShellExits(g) \/ ReaderFails(g) \/ TerminalThreads(g) PROVE TokenOfTerminal'
  BY <1>0, <1>4, ThreadsWriteTheirOwn DEF TokenOfTerminal, None
<1>5. CASE UNCHANGED shellVars
  BY <1>5 DEF shellVars, TokenOfTerminal
<1> QED
  BY <1>1, <1>2, <1>3, <1>4, <1>5, <1>6
     DEF DaemonNext, Arrive, Connect, Disconnect, CloseSocket, Cut, daemonVars

LEMMA RoomStep == LiveHasRoom /\ [DaemonNext]_daemonVars => LiveHasRoom'
<1> SUFFICES ASSUME LiveHasRoom, [DaemonNext]_daemonVars PROVE LiveHasRoom'
  OBVIOUS
<1>1. CASE Start \/ StartFails \/ CreateFails \/ Stop
  BY <1>1 DEF Start, StartFails, CreateFails, Stop, LiveHasRoom
<1>2. CASE Started \/ \E g \in Gens : ShellExits(g) \/ ReaderFails(g) \/ TerminalThreads(g)
  BY <1>2 DEF Started, ShellExits, ReaderFails, TerminalThreads, ReaderEnds, WatchdogMarks, SetRunning, roomVars, LiveHasRoom
<1>3. ASSUME NEW s \in Sids,
             Arrive(s) \/ (\E t \in Gens : Connect(s, t)) \/ Disconnect(s) \/ CloseSocket(s)
      PROVE LiveHasRoom'
  BY <1>3 DEF Arrive, Connect, Disconnect, CloseSocket, shellVars, LiveHasRoom
<1>4. CASE (\E closed \in SUBSET Sids : Cut(closed)) \/ UNCHANGED daemonVars
  BY <1>4 DEF Cut, daemonVars, shellVars, roomVars, LiveHasRoom
<1> QED BY <1>1, <1>2, <1>3, <1>4 DEF DaemonNext

(* A socket stays in the server's room only as long as the list of members *)
(* or the closing in the background knows it.                              *)
LEMMA HeardStep == DaemonTypeOK /\ Heard /\ [DaemonNext]_daemonVars => Heard'
<1> SUFFICES ASSUME DaemonTypeOK, Heard, [DaemonNext]_daemonVars PROVE Heard'
  OBVIOUS
<1>1. CASE Start
  BY <1>1 DEF Start, Heard
<1>2. CASE StartFails \/ CreateFails
  <2>1. failures' # 0
    BY <1>2 DEF StartFails, CreateFails, DaemonTypeOK, ShellTypeOK
  <2> QED BY <2>1 DEF Heard
<1>3. CASE Stop
  BY <1>3 DEF Stop, CloseConnections, DestroyRoom, Heard
<1>4. CASE Started \/ \E g \in Gens : ShellExits(g) \/ ReaderFails(g) \/ TerminalThreads(g)
  BY <1>4 DEF Started, ShellExits, ReaderFails, TerminalThreads, ReaderEnds, WatchdogMarks, SetRunning, roomVars, Heard
<1>5. ASSUME NEW s \in Sids, Arrive(s) \/ \E t \in Gens : Connect(s, t) PROVE Heard'
  BY <1>5 DEF Arrive, Connect, shellVars, Heard
<1>6. ASSUME NEW s \in Sids, Disconnect(s) \/ CloseSocket(s) PROVE Heard'
  BY <1>6 DEF Disconnect, CloseSocket, Gone, Forgotten, shellVars, Heard
<1>7. CASE (\E closed \in SUBSET Sids : Cut(closed)) \/ UNCHANGED daemonVars
  BY <1>7 DEF Cut, daemonVars, shellVars, roomVars, Heard
<1> QED BY <1>1, <1>2, <1>3, <1>4, <1>5, <1>6, <1>7 DEF DaemonNext

InStep == DaemonTypeOK /\ TableIsLatest /\ DaemonInStep

(* However clients come, show old tokens, vanish and are thrown out, and   *)
(* whatever starts fail: the token admits to the terminal in the table, or *)
(* when creating the next one has raised to the latest that was there; it  *)
(* has its room, and no listener is overlooked before the first failure    *)
(* (socket_routes.py:305-412, socket_service.py:59-101).                   *)
THEOREM DaemonStaysInStep == DaemonSpec => []DaemonInStep
<1>1. DaemonInit => InStep
  BY InitTypes
     DEF DaemonInit, InStep, TableIsLatest, DaemonInStep, TokenOfTerminal, LiveHasRoom, Heard
<1>2. InStep /\ [DaemonNext]_daemonVars => InStep'
  BY ShellTypeStep, RoomTypeStep, TableStep, TokenStep, RoomStep, HeardStep
     DEF InStep, DaemonInStep, DaemonTypeOK
<1>3. InStep => DaemonInStep
  BY DEF InStep
<1> QED BY <1>1, <1>2, <1>3, PTL DEF DaemonSpec

-------------------------------------------------------------------------------
(* The inductive core of NoOrphanShell: a shell that lives keeps its       *)
(* terminal from being started again, unless its reader gave up on it or   *)
(* its start went only half-way.                                           *)
AliveIsLive ==
    \A g \in Gens :
        term[g].child = "alive" /\ term[g].starter # "none"
        => term[g].reader = "gave_up" \/ term[g].status \in LiveStatuses

ShellInv == DaemonTypeOK /\ AliveIsLive /\ NoOrphanShell

(* When another terminal may be started, no live shell is the business of  *)
(* the one in the table only.                                              *)
LEMMA CanStartLeavesNone ==
    ASSUME ShellInv, CanStart, NEW g \in Gens, term[g].child = "alive"
    PROVE  term[g].reader = "gave_up" \/ term[g].starter = "none"
<1>1. terminals = g \/ term[g].reader = "gave_up" \/ term[g].starter = "none"
  BY DEF ShellInv, NoOrphanShell, HalfStarted
<1>2. terminals = g => term[g].status \notin LiveStatuses
  BY DEF CanStart, Running, Gens, None
<1> QED BY <1>1, <1>2 DEF ShellInv, AliveIsLive

LEMMA ShellStep == ShellInv /\ [DaemonNext]_daemonVars => (AliveIsLive /\ NoOrphanShell)'
<1> SUFFICES ASSUME ShellInv, [DaemonNext]_daemonVars PROVE (AliveIsLive /\ NoOrphanShell)'
  OBVIOUS
<1>0. /\ term \in [Gens -> Terminals] /\ terminals \in Gens \cup {None}
      /\ loop \in Gens \cup {None} /\ AliveIsLive /\ NoOrphanShell
  BY DEF ShellInv, DaemonTypeOK, ShellTypeOK
<1> USE DEF AliveIsLive, NoOrphanShell, HalfStarted
<1>1. CASE Start \/ StartFails
  <2>1. New \in Gens /\ CanStart /\ loop = None
    BY <1>1, BoundAssumption
       DEF Start, StartFails, CanStart, New, ShellInv, DaemonTypeOK, ShellTypeOK, Gens
  <2>2. \A g \in Gens : term[g].child = "alive"
                         => term[g].reader = "gave_up" \/ term[g].starter = "none"
    BY <2>1, CanStartLeavesNone
  <2>3. \A g \in Gens \ {New} : term'[g] = term[g]
    BY <1>0, <1>1 DEF Start, StartFails
  <2>4. term'[New].starter = "none" /\ terminals' = New /\ loop' \in {None, New}
    BY <1>0, <1>1, <2>1 DEF Start, StartFails, Blank
  <2> QED BY <2>1, <2>2, <2>3, <2>4 DEF Gens, None
<1>2. CASE Started
  <2>1. \A g \in Gens \ {loop} : term'[g] = term[g]
    BY <1>0, <1>2 DEF Started
  <2>2. term'[loop] = [term[loop] EXCEPT !.status = "waiting_backend", !.starter = "waiting"]
    BY <1>0, <1>2 DEF Started
  <2>3. loop \in Gens /\ term[loop] \in Terminals /\ loop' = None /\ terminals' = terminals
    BY <1>0, <1>2 DEF Started
  <2>4. /\ term'[loop].child = term[loop].child /\ term'[loop].reader = term[loop].reader
        /\ term'[loop].status \in LiveStatuses
    BY <2>2, <2>3 DEF Terminals, LiveStatuses
  <2> QED BY <1>0, <2>1, <2>3, <2>4 DEF Gens, None
<1>3. CASE CreateFails
  <2>1. CanStart /\ UNCHANGED <<term, loop>> /\ loop = None
    BY <1>3 DEF CreateFails, CanStart
  <2>2. \A g \in Gens : term[g].child = "alive"
                         => term[g].reader = "gave_up" \/ term[g].starter = "none"
    BY <2>1, CanStartLeavesNone
  <2> QED BY <1>0, <2>1, <2>2 DEF Gens, None
<1>4. CASE Stop
  <2>1. term' = [term EXCEPT ![terminals] = Killed(term[terminals])] /\ loop' = loop
    BY <1>0, <1>4 DEF Stop
  <2>2. terminals \in Gens /\ Killed(term[terminals]).child # "alive"
    BY <1>0, <1>4, RecordTypes DEF Stop
  <2> QED BY <1>0, <2>1, <2>2
<1>5. ASSUME NEW g \in Gens, ShellExits(g) \/ ReaderFails(g) \/ TerminalThreads(g)
      PROVE (AliveIsLive /\ NoOrphanShell)'
  BY <1>0, <1>5, ThreadsWriteTheirOwn DEF LiveStatuses
<1>6. CASE UNCHANGED shellVars
  <2>1. UNCHANGED <<term, terminals, loop>>
    BY <1>6 DEF shellVars
  <2> QED BY <1>0, <2>1
<1> QED
  BY <1>1, <1>2, <1>3, <1>4, <1>5, <1>6
     DEF DaemonNext, Arrive, Connect, Disconnect, CloseSocket, Cut, daemonVars

(* Stopping the terminal in the table stops every shell of the item but    *)
(* those of starts that failed half-way and those whose reader gave up on  *)
(* them (terminal_manager.py:231-264, 341-405, 422-460).                   *)
THEOREM NoShellIsOrphaned == DaemonSpec => []NoOrphanShell
<1>1. DaemonInit => ShellInv
  BY InitTypes DEF DaemonInit, ShellInv, AliveIsLive, NoOrphanShell, Blank
<1>2. ShellInv /\ [DaemonNext]_daemonVars => ShellInv'
  BY ShellTypeStep, RoomTypeStep, ShellStep DEF ShellInv, DaemonTypeOK
<1>3. ShellInv => NoOrphanShell
  BY DEF ShellInv
<1> QED BY <1>1, <1>2, <1>3, PTL DEF DaemonSpec

-------------------------------------------------------------------------------
(* The inductive core of ConnectedIsHeard: the socket the pool names is in *)
(* the server's room, and among the members if there are any.  The members *)
(* themselves may be long gone.                                            *)
PooledIsHeard ==
    listen # NoSid => /\ listen \in inroom
                      /\ link[listen] # "free"
                      /\ members # {} => listen \in members

PoolInv == DaemonTypeOK /\ PooledIsHeard

LEMMA PoolStep == PoolInv /\ [DaemonNext]_daemonVars => PooledIsHeard'
<1> SUFFICES ASSUME PoolInv, [DaemonNext]_daemonVars PROVE PooledIsHeard'
  OBVIOUS
<1>0. PooledIsHeard /\ listen \in Sids \cup {NoSid} /\ link \in [Sids -> {"free", "up", "cut"}]
  BY DEF PoolInv, DaemonTypeOK, RoomTypeOK
<1> USE DEF PooledIsHeard
<1>1. CASE Start \/ StartFails \/ CreateFails
  BY <1>0, <1>1 DEF Start, StartFails, CreateFails
<1>2. CASE Stop
  BY <1>2 DEF Stop, CloseConnections, DestroyRoom
<1>3. CASE Started \/ \E g \in Gens : ShellExits(g) \/ ReaderFails(g) \/ TerminalThreads(g)
  <2>1. UNCHANGED roomVars
    BY <1>3 DEF Started, ShellExits, ReaderFails, TerminalThreads, ReaderEnds, WatchdogMarks, SetRunning
  <2> QED BY <1>0, <2>1 DEF roomVars
<1>4. ASSUME NEW s \in Sids, Arrive(s) PROVE PooledIsHeard'
  BY <1>0, <1>4 DEF Arrive, Unused
<1>5. ASSUME NEW s \in Sids, NEW t \in Gens, Connect(s, t) PROVE PooledIsHeard'
  BY <1>0, <1>5 DEF Connect
<1>6. ASSUME NEW s \in Sids, Disconnect(s) \/ CloseSocket(s) PROVE PooledIsHeard'
  <2>1. Gone(s) /\ (listen = s => listen' = NoSid) /\ (listen # s => UNCHANGED <<listen, members>>)
    BY <1>6 DEF Disconnect, CloseSocket, Gone, Forgotten
  <2>2. CASE listen = s
    BY <2>1, <2>2
  <2>3. CASE listen # s
    BY <1>0, <2>1, <2>3 DEF Gone
  <2> QED BY <2>2, <2>3
<1>7. ASSUME NEW closed \in SUBSET Sids, Cut(closed) PROVE PooledIsHeard'
  BY <1>0, <1>7 DEF Cut
<1>8. CASE UNCHANGED daemonVars
  BY <1>0, <1>8 DEF daemonVars, roomVars
<1> QED BY <1>1, <1>2, <1>3, <1>4, <1>5, <1>6, <1>7, <1>8 DEF DaemonNext

(* When the daemon calls the backend connected, a socket whose loss nobody *)
(* has noticed listens in the room, whatever stale members it holds.       *)
THEOREM ConnectedIsReallyHeard == DaemonSpec => []ConnectedIsHeard
<1>1. DaemonInit => PoolInv
  BY InitTypes DEF DaemonInit, PoolInv, PooledIsHeard
<1>2. PoolInv /\ [DaemonNext]_daemonVars => PoolInv'
  BY ShellTypeStep, RoomTypeStep, PoolStep DEF PoolInv, DaemonTypeOK
<1>3. PoolInv => ConnectedIsHeard
  BY DEF PoolInv, PooledIsHeard, ConnectedIsHeard, BackendRoomConnected
<1> QED BY <1>1, <1>2, <1>3, PTL DEF DaemonSpec

-------------------------------------------------------------------------------
(* The backend with its sockets drives it.                                 *)

SocketTypes ==
    /\ sockets \in Objs \cup {NoObj}
    /\ sock \in [Objs -> Sockets]
    /\ got \in [Callers -> Gens \cup {None}]

LEMMA FreshTypes ==
    /\ Fresh \in Sockets
    /\ \A t \in Gens \cup {None} : [Fresh EXCEPT !.token = t] \in Sockets
BY DEF Fresh, Sockets, None

LEMMA SocketChanges ==
    ASSUME NEW k \in Sockets
    PROVE  /\ [k EXCEPT !.wired = TRUE] \in Sockets
           /\ \A st \in {"stopped", "starting", "running", "error"} : [k EXCEPT !.status = st] \in Sockets
           /\ \A s \in Sids \cup {NoSid} :
                 /\ \A st \in {"stopped", "starting", "running", "error"}, a \in BOOLEAN :
                       [k EXCEPT !.sid = s, !.status = st, !.auto = a] \in Sockets
           /\ k.sid \in Sids \cup {NoSid} /\ k.token \in Gens \cup {None}
           /\ k.status \in {"stopped", "starting", "running", "error"}
BY DEF Sockets

(* Connections that the backend closes, or loses all at once.              *)
LEMMA CutSteps ==
    ASSUME DaemonTypeOK
    PROVE  /\ Cut(Sids) => DaemonNext
           /\ \A s \in Sids \cup {NoSid} : Cut({s}) => [DaemonNext]_daemonVars
<1>1. link \in [Sids -> {"free", "up", "cut"}]
  BY DEF DaemonTypeOK, RoomTypeOK
<1>2. Cut(Sids) => DaemonNext
  BY DEF DaemonNext
<1>3. ASSUME NEW s \in Sids, Cut({s}) PROVE DaemonNext
  <2>1. {s} \in SUBSET Sids
    OBVIOUS
  <2> QED BY <1>3, <2>1 DEF DaemonNext
<1>4. ASSUME Cut({NoSid}) PROVE UNCHANGED daemonVars
  <2>1. link' = [s \in Sids |-> link[s]]
    BY <1>4, SidAssumption DEF Cut
  <2>2. link' = link
    BY <1>1, <2>1
  <2> QED BY <1>4, <2>2 DEF Cut, daemonVars, roomVars
<1> QED BY <1>2, <1>3, <1>4

LEMMA ServiceStep ==
    ASSUME DaemonTypeOK, SocketTypes, [Next]_vars
    PROVE  [DaemonNext]_daemonVars /\ SocketTypes'
<1>0. /\ sockets \in Objs \cup {NoObj} /\ sock \in [Objs -> Sockets]
      /\ got \in [Callers -> Gens \cup {None}]
      /\ token \in Gens \cup {None} /\ loop \in Gens \cup {None} /\ terminals \in Gens \cup {None}
  BY DEF SocketTypes, DaemonTypeOK, ShellTypeOK
<1>a. ASSUME UNCHANGED <<sockets, sock, got>> PROVE SocketTypes'
  BY <1>a DEF SocketTypes
<1>b. ASSUME NEW value \in Gens \cup {None}, Reply(value) PROVE SocketTypes'
  <2>1. UNCHANGED <<sockets, sock>>
    BY <1>b DEF Reply, KeepSockets
  <2>2. got' = got \/ \E c : got' = [got EXCEPT ![c] = value]
    BY <1>b DEF Reply
  <2>3. got' \in [Callers -> Gens \cup {None}]
    BY <1>0, <2>2
  <2> QED BY <1>0, <2>1, <2>3 DEF SocketTypes
<1>c. ASSUME NEW c \in Callers, Finish(c) \/ UNCHANGED got, UNCHANGED sockets,
             sock' \in [Objs -> Sockets]
      PROVE  SocketTypes'
  <2>1. got' \in [Callers -> Gens \cup {None}]
    BY <1>0, <1>c DEF Finish, None
  <2> QED BY <1>0, <1>c, <2>1 DEF SocketTypes
<1>1. ASSUME NEW c \in Callers, NEW op \in DOMAIN Waits, Ask(c, op)
      PROVE  [DaemonNext]_daemonVars /\ SocketTypes'
  BY <1>1, <1>a DEF Ask, Sent, KeepSockets
<1>2. ASSUME NEW c \in Callers, Timeout(c)
      PROVE  [DaemonNext]_daemonVars /\ SocketTypes'
  BY <1>2, <1>a DEF Timeout, KeepSockets
<1>3. ASSUME NEW c \in Callers, CallerStep(c)
      PROVE  [DaemonNext]_daemonVars /\ SocketTypes'
  <2>1. CASE Reuse(c)
    <3>1. sock' \in [Objs -> Sockets]
      BY <1>0, <2>1, SocketChanges DEF Reuse, Wired
    <3> QED BY <2>1, <1>c, <3>1 DEF Reuse
  <2>2. CASE ConnectAgain(c) \/ FindNone(c)
    BY <2>2, <1>a DEF ConnectAgain, FindNone, GoTo, KeepSockets
  <2>3. CASE Make(c)
    <3>1. PICK o \in Objs : sock' = [sock EXCEPT ![o] = [Fresh EXCEPT !.token = got[c]]] /\ sockets' = o
                            /\ UNCHANGED <<got, daemonVars>>
      BY <2>3 DEF Make, GoTo
    <3>2. got[c] \in Gens \cup {None}
      BY <1>0
    <3>3. sock' \in [Objs -> Sockets]
      BY <1>0, <3>1, <3>2, FreshTypes
    <3> QED BY <1>0, <3>1, <3>3 DEF SocketTypes
  <2>4. CASE OpenFails(c)
    <3>1. sock' \in [Objs -> Sockets]
      BY <1>0, <2>4, SocketChanges DEF OpenFails
    <3> QED BY <2>4, <1>c, <3>1 DEF OpenFails
  <2>5. CASE Open(c)
    <3>1. PICK s \in Sids : Arrive(s) /\ sock' = [sock EXCEPT ![using[c]].sid = s,
                                ![using[c]].status = "starting", ![using[c]].auto = TRUE]
      BY <2>5 DEF Open, ComesUp, Spare
    <3>2. sock' \in [Objs -> Sockets]
      BY <1>0, <3>1, SocketChanges
    <3>3. DaemonNext
      BY <3>1 DEF DaemonNext
    <3> QED BY <2>5, <1>c, <3>2, <3>3 DEF Open, GoTo
  <2>6. CASE StartAgain(c)
    BY <2>6, <1>a DEF StartAgain, Sent, KeepSockets
  <2>7. CASE Joined(c)
    <3>1. sock' \in [Objs -> Sockets]
      BY <1>0, <2>7, SocketChanges DEF Joined, Wired
    <3> QED BY <2>7, <1>c, <3>1 DEF Joined
  <2>8. CASE NotJoined(c)
    <3>1. sock' \in [Objs -> Sockets]
      BY <1>0, <2>8, SocketChanges DEF NotJoined
    <3> QED BY <2>8, <1>c, <3>1 DEF NotJoined
  <2>9. CASE CleanUp(c)
    <3>1. sockets' = NoObj /\ Finish(c)
      BY <2>9 DEF CleanUp
    <3>2. got' \in [Callers -> Gens \cup {None}]
      BY <1>0, <3>1 DEF Finish, None
    <3>3. CASE sockets = NoObj
      BY <1>0, <2>9, <3>1, <3>2, <3>3 DEF CleanUp, SocketTypes
    <3>4. CASE sockets # NoObj
      <4>1. /\ sockets \in Objs /\ Cut({sock[sockets].sid})
            /\ sock' = [sock EXCEPT ![sockets] = [Fresh EXCEPT !.token = sock[sockets].token]]
        BY <1>0, <2>9, <3>4 DEF CleanUp, Disposed
      <4>2. sock[sockets].sid \in Sids \cup {NoSid} /\ sock[sockets].token \in Gens \cup {None}
        BY <1>0, <4>1, SocketChanges
      <4>3. [DaemonNext]_daemonVars
        BY <4>1, <4>2, CutSteps
      <4>4. sock' \in [Objs -> Sockets]
        BY <1>0, <4>1, <4>2, FreshTypes
      <4> QED BY <3>1, <3>2, <4>3, <4>4 DEF SocketTypes
    <3> QED BY <3>3, <3>4
  <2> QED BY <1>3, <2>1, <2>2, <2>3, <2>4, <2>5, <2>6, <2>7, <2>8, <2>9 DEF CallerStep
<1>4. CASE DaemonStarts
  BY <1>4, <1>a DEF DaemonStarts, serviceVars, DaemonNext
<1>5. CASE DaemonStarted
  BY <1>0, <1>5, <1>b DEF DaemonStarted, DaemonNext
<1>6. CASE DaemonFailsToStart
  BY <1>6, <1>b DEF DaemonFailsToStart, DaemonNext
<1>7. CASE DaemonHasStarted
  BY <1>0, <1>7, <1>b DEF DaemonHasStarted
<1>8. CASE DaemonStops
  BY <1>8, <1>b DEF DaemonStops, DaemonNext
<1>9. CASE DaemonTells
  BY <1>0, <1>9, <1>b DEF DaemonTells
<1>10. ASSUME NEW o \in Objs, DropSocket(o) PROVE [DaemonNext]_daemonVars /\ SocketTypes'
  <2>1. sock[o].sid \in Sids \cup {NoSid} /\ Cut({sock[o].sid}) /\ Lost(o, TRUE)
    BY <1>0, <1>10, SocketChanges DEF DropSocket
  <2>2. sock' = [sock EXCEPT ![o].sid = NoSid, ![o].status = "stopped", ![o].auto = TRUE]
        /\ UNCHANGED <<sockets, got>>
    BY <2>1 DEF Lost
  <2>3. sock' \in [Objs -> Sockets]
    BY <1>0, <2>2, SocketChanges
  <2> QED BY <1>0, <2>1, <2>2, <2>3, CutSteps DEF SocketTypes
<1>11. ASSUME NEW o \in Objs, SocketStep(o) PROVE [DaemonNext]_daemonVars /\ SocketTypes'
  <2>1. CASE DaemonAdmits(o)
    <3>1. UNCHANGED <<sockets, sock, got>>
      BY <2>1 DEF DaemonAdmits
    <3>2. sock[o].sid \in Sids
      BY <1>0, <2>1, SocketChanges DEF DaemonAdmits
    <3>3. CASE Admits(sock[o].token)
      <4>1. Connect(sock[o].sid, sock[o].token) /\ sock[o].token \in Gens
        BY <1>0, <2>1, <3>3 DEF DaemonAdmits, Admits
      <4> QED BY <1>a, <3>1, <3>2, <4>1 DEF DaemonNext
    <3>4. CASE ~ Admits(sock[o].token)
      BY <1>a, <2>1, <3>1, <3>4 DEF DaemonAdmits
    <3> QED BY <3>3, <3>4
  <2>2. CASE Hear(o)
    <3>1. sock' \in [Objs -> Sockets]
      BY <1>0, <2>2, SocketChanges DEF Hear
    <3> QED BY <1>0, <2>2, <3>1 DEF Hear, SocketTypes
  <2>3. CASE ClosedByDaemon(o)
    <3>1. sock' = [sock EXCEPT ![o].sid = NoSid, ![o].status = "stopped", ![o].auto = FALSE]
          /\ UNCHANGED <<sockets, got, daemonVars>>
      BY <2>3 DEF ClosedByDaemon, Lost
    <3>2. sock' \in [Objs -> Sockets]
      BY <1>0, <3>1, SocketChanges
    <3> QED BY <1>0, <3>1, <3>2 DEF SocketTypes
  <2>4. CASE Reconnect(o)
    <3>1. PICK s \in Sids : Arrive(s) /\ sock' = [sock EXCEPT ![o].sid = s,
                                ![o].status = sock[o].status, ![o].auto = TRUE]
      BY <2>4 DEF Reconnect, ComesUp, Spare
    <3>2. sock' \in [Objs -> Sockets]
      BY <1>0, <3>1, SocketChanges
    <3>3. DaemonNext
      BY <3>1 DEF DaemonNext
    <3> QED BY <1>0, <2>4, <3>2, <3>3 DEF Reconnect, SocketTypes
  <2> QED BY <1>11, <2>1, <2>2, <2>3, <2>4 DEF SocketStep
<1>12. CASE DaemonWorks \/ TerminalEnds
  BY <1>12, <1>a DEF DaemonWorks, TerminalEnds, serviceVars, DaemonNext
<1>13. CASE Crash
  <2>1. SocketTypes'
    BY <1>0, <1>13, FreshTypes DEF Crash, SocketTypes, None
  <2> QED BY <1>13, <2>1, CutSteps DEF Crash
<1>14. CASE UNCHANGED vars
  BY <1>14, <1>a DEF vars, serviceVars
<1> QED
  BY <1>1, <1>2, <1>3, <1>4, <1>5, <1>6, <1>7, <1>8, <1>9, <1>10, <1>11, <1>12, <1>13, <1>14
     DEF Next, DaemonAnswers

LEMMA ServiceInit == Init => DaemonInit /\ DaemonTypeOK /\ SocketTypes
<1>1. Init => DaemonInit /\ DaemonTypeOK
  BY InitTypes DEF Init
<1>2. Init => SocketTypes
  BY FreshTypes DEF Init, SocketTypes, None
<1> QED BY <1>1, <1>2

(* The backend's callers, sockets, late answers and crashes drive the      *)
(* daemon through steps of its own only: the composition refines it.       *)
THEOREM DaemonIsDrivenWell == Spec => DaemonSteps
<1>1. DaemonTypeOK /\ SocketTypes /\ [Next]_vars => DaemonTypeOK' /\ SocketTypes'
  BY ServiceStep, ShellTypeStep, RoomTypeStep DEF DaemonTypeOK
<1>2. DaemonTypeOK /\ SocketTypes /\ [Next]_vars => [DaemonNext]_daemonVars
  BY ServiceStep
<1> QED BY <1>1, <1>2, ServiceInit, PTL DEF Spec, DaemonSteps

(* So what the daemon promises among arbitrary clients it keeps here.      *)
THEOREM ComposedDaemonKeepsItsWord ==
    Spec => []DaemonInStep /\ []NoOrphanShell /\ []ConnectedIsHeard
<1>1. Spec => DaemonSpec
  BY DaemonIsDrivenWell DEF DaemonSteps, DaemonSpec
<1> QED BY <1>1, DaemonStaysInStep, NoShellIsOrphaned, ConnectedIsReallyHeard, PTL

-------------------------------------------------------------------------------
(* Callers and their requests.                                             *)
WaitPlaces == {"starting", "stopping", "restarting", "restoring"}

(* Where a caller has been told a token, and where the stop has succeeded. *)
Informed == {"looking", "making", "connecting", "awaiting"}

Cleaning == {"cleaning", "recleaning"}

UserPlaces == {"starting", "stopping", "restarting", "stopped"} \cup Cleaning

PlacesOK ==
    /\ pc \in [Callers -> {"idle", "restoring"} \cup Informed \cup UserPlaces]
    /\ using \in [Callers -> Objs \cup {NoObj}]
    /\ \A c \in Callers :
          /\ using[c] # NoObj <=> pc[c] \in {"connecting", "awaiting"}
          /\ pc[c] \in Informed => got[c] # None
          /\ pc[c] \in UserPlaces => c \in Users

Requests == [caller : Callers, op : DOMAIN Waits, waited : BOOLEAN]

(* A caller waits just when one request of its own is under way that it    *)
(* waits for, and just this one.                                           *)
MailOK ==
    /\ mail \in Seq(Requests)
    /\ \A i \in 1 .. Len(mail) :
          /\ mail[i].op = "status" <=> mail[i].caller \in Restorers
          /\ mail[i].waited => pc[mail[i].caller] = Waits[mail[i].op]
    /\ \A i, j \in 1 .. Len(mail) :
          mail[i].waited /\ mail[j].waited /\ mail[i].caller = mail[j].caller => i = j
    /\ \A c \in Callers :
          pc[c] \in WaitPlaces => \E i \in 1 .. Len(mail) : mail[i].caller = c /\ mail[i].waited
    /\ loop # None => mail # <<>> /\ mail[1].op = "start"

ServiceTypes ==
    /\ DaemonTypeOK /\ SocketTypes /\ PlacesOK /\ MailOK
    /\ answer \in [Sids -> {"none", "asked", "joined", "heard", "refused"}]
    /\ faults \subseteq {"timeout", "drop", "crash"}

LEMMA WaitFacts ==
    /\ DOMAIN Waits = {"start", "stop", "restart", "status"}
    /\ Waits["start"] = "starting" /\ Waits["stop"] = "stopping"
    /\ Waits["restart"] = "restarting" /\ Waits["status"] = "restoring"
    /\ \A op \in DOMAIN Waits : Waits[op] \in WaitPlaces
    /\ \A c : Waiting(c) <=> pc[c] \in WaitPlaces
BY DEF Waits, Waiting, WaitPlaces

LEMMA GoesOnFacts ==
    /\ GoesOn["starting"] = "looking" /\ GoesOn["restoring"] = "looking"
    /\ GoesOn["stopping"] = "cleaning" /\ GoesOn["restarting"] = "recleaning"
BY DEF GoesOn

LEMMA RequestTypes ==
    ASSUME NEW r \in Requests
    PROVE  /\ r.caller \in Callers /\ r.op \in DOMAIN Waits /\ r.waited \in BOOLEAN
           /\ [r EXCEPT !.waited = FALSE] \in Requests
           /\ [r EXCEPT !.waited = FALSE].caller = r.caller
           /\ [r EXCEPT !.waited = FALSE].op = r.op
           /\ ~ [r EXCEPT !.waited = FALSE].waited
BY DEF Requests

(* The same requests, some of which nobody waits for any more.             *)
LEMMA MailKept ==
    ASSUME MailOK, mail' \in Seq(Requests), Len(mail') = Len(mail),
           \A i \in 1 .. Len(mail) :
              /\ mail'[i].caller = mail[i].caller /\ mail'[i].op = mail[i].op
              /\ mail'[i].waited => mail[i].waited /\ pc'[mail[i].caller] = pc[mail[i].caller]
           ,
           \A c \in Callers : pc'[c] \in WaitPlaces =>
              /\ pc[c] \in WaitPlaces
              /\ \A i \in 1 .. Len(mail) :
                    mail[i].caller = c /\ mail[i].waited => mail'[i].waited
           ,
           loop' # None => mail # <<>> /\ mail[1].op = "start"
    PROVE  MailOK'
<1>1. mail' # <<>> <=> mail # <<>>
  BY DEF MailOK
<1>2. mail # <<>> => 1 \in 1 .. Len(mail)
  BY DEF MailOK
<1>3. \A c \in Callers : pc'[c] \in WaitPlaces
         => \E i \in 1 .. Len(mail') : mail'[i].caller = c /\ mail'[i].waited
  BY DEF MailOK
<1> QED BY <1>1, <1>2, <1>3 DEF MailOK

(* One request less, whose caller, if it waited, does not wait any more.   *)
LEMMA MailLess ==
    ASSUME MailOK, NEW k \in 1 .. Len(mail),
           mail' \in Seq(Requests), Len(mail') = Len(mail) - 1,
           \A i \in 1 .. Len(mail') : mail'[i] = mail[IF i < k THEN i ELSE i + 1],
           mail[k].waited => pc'[mail[k].caller] \notin WaitPlaces,
           ~ mail[k].waited => pc' = pc,
           \A c \in Callers \ {mail[k].caller} : pc'[c] = pc[c],
           loop' # None => loop # None /\ k # 1
    PROVE  MailOK'
<1> DEFINE old(i) == IF i < k THEN i ELSE i + 1
<1>0. Len(mail) \in Nat /\ Len(mail') \in Nat
  BY DEF MailOK
<1>1. \A i \in 1 .. Len(mail') : old(i) \in 1 .. Len(mail) /\ old(i) # k /\ mail'[i] = mail[old(i)]
  BY <1>0
<1>2. \A i \in 1 .. Len(mail') : /\ mail[old(i)] \in Requests
                                 /\ mail[old(i)].caller \in Callers
                                 /\ mail[old(i)].waited => pc'[mail[old(i)].caller] = pc[mail[old(i)].caller]
  <2> SUFFICES ASSUME NEW i \in 1 .. Len(mail')
               PROVE  /\ mail[old(i)] \in Requests
                      /\ mail[old(i)].caller \in Callers
                      /\ mail[old(i)].waited => pc'[mail[old(i)].caller] = pc[mail[old(i)].caller]
    OBVIOUS
  <2>1. mail[old(i)] \in Requests
    BY <1>1 DEF MailOK
  <2>2. mail[old(i)].caller \in Callers
    BY <2>1, RequestTypes
  <2>3. mail[old(i)].waited /\ mail[k].waited => mail[old(i)].caller # mail[k].caller
    BY <1>1 DEF MailOK
  <2> QED BY <2>1, <2>2, <2>3
<1>3. \A i \in 1 .. Len(mail) : i # k => \E j \in 1 .. Len(mail') : old(j) = i
  <2> SUFFICES ASSUME NEW i \in 1 .. Len(mail), i # k PROVE \E j \in 1 .. Len(mail') : old(j) = i
    OBVIOUS
  <2>1. CASE i < k
    <3>1. i \in 1 .. Len(mail')
      BY <1>0, <2>1
    <3> QED BY <2>1, <3>1
  <2>2. CASE i > k
    <3>1. i - 1 \in 1 .. Len(mail') /\ ~ (i - 1 < k) /\ i - 1 + 1 = i
      BY <1>0, <2>2
    <3> QED BY <3>1
  <2> QED BY <1>0, <2>1, <2>2
<1>4. \A c \in Callers : pc'[c] \in WaitPlaces
         => \E i \in 1 .. Len(mail') : mail'[i].caller = c /\ mail'[i].waited
  <2> SUFFICES ASSUME NEW c \in Callers, pc'[c] \in WaitPlaces
               PROVE  \E i \in 1 .. Len(mail') : mail'[i].caller = c /\ mail'[i].waited
    OBVIOUS
  <2>1. pc[c] = pc'[c] /\ ~ (mail[k].waited /\ mail[k].caller = c)
    OBVIOUS
  <2>2. PICK i \in 1 .. Len(mail) : mail[i].caller = c /\ mail[i].waited
    BY <2>1 DEF MailOK
  <2>3. i # k
    BY <2>1, <2>2
  <2>4. PICK j \in 1 .. Len(mail') : old(j) = i
    BY <1>3, <2>3
  <2>5. mail'[j] = mail[i]
    BY <1>1, <2>4
  <2> QED BY <2>2, <2>5
<1>5. loop' # None => mail' # <<>> /\ mail'[1].op = "start"
  <2>1. loop' # None => 1 \in 1 .. Len(mail') /\ old(1) = 1
    BY <1>0
  <2> QED BY <1>1, <2>1 DEF MailOK
<1>6. \A i, j \in 1 .. Len(mail') : old(i) = old(j) => i = j
  BY <1>0
<1>7. \A i, j \in 1 .. Len(mail') :
         mail'[i].waited /\ mail'[j].waited /\ mail'[i].caller = mail'[j].caller => i = j
  <2> SUFFICES ASSUME NEW i \in 1 .. Len(mail'), NEW j \in 1 .. Len(mail'),
                      mail'[i].waited, mail'[j].waited, mail'[i].caller = mail'[j].caller
               PROVE  i = j
    OBVIOUS
  <2>1. PICK m \in 1 .. Len(mail) : m = old(i) /\ mail'[i] = mail[m]
    BY <1>1
  <2>2. PICK n \in 1 .. Len(mail) : n = old(j) /\ mail'[j] = mail[n]
    BY <1>1
  <2>3. m = n
    BY <2>1, <2>2 DEF MailOK
  <2> QED BY <1>6, <2>1, <2>2, <2>3
<1>8. \A i \in 1 .. Len(mail') :
          /\ mail'[i].op = "status" <=> mail'[i].caller \in Restorers
          /\ mail'[i].waited => pc'[mail'[i].caller] = Waits[mail'[i].op]
  <2> SUFFICES ASSUME NEW i \in 1 .. Len(mail')
               PROVE  /\ mail'[i].op = "status" <=> mail'[i].caller \in Restorers
                      /\ mail'[i].waited => pc'[mail'[i].caller] = Waits[mail'[i].op]
    OBVIOUS
  <2>1. PICK n \in 1 .. Len(mail) : n = old(i) /\ mail'[i] = mail[n]
    BY <1>1
  <2>2. /\ mail[n].op = "status" <=> mail[n].caller \in Restorers
        /\ mail[n].waited => pc[mail[n].caller] = Waits[mail[n].op]
    BY DEF MailOK
  <2>3. mail[n].waited => pc'[mail[n].caller] = pc[mail[n].caller]
    BY <1>2, <2>1
  <2> QED BY <2>1, <2>2, <2>3
<1> QED BY <1>4, <1>5, <1>7, <1>8 DEF MailOK

LEMMA MailMore ==
    ASSUME MailOK, PlacesOK, NEW c \in Callers, NEW op \in DOMAIN Waits, Sent(c, op),
           op = "status" <=> c \in Restorers, pc[c] \notin WaitPlaces
    PROVE  MailOK'
<1> DEFINE r == [caller |-> c, op |-> op, waited |-> TRUE]
<1>0. /\ mail' = Append(mail, r) /\ pc' = [pc EXCEPT ![c] = Waits[op]] /\ loop' = loop
      /\ mail \in Seq(Requests) /\ Len(mail) \in Nat
  BY DEF Sent, MailOK, daemonVars, shellVars
<1>1. r \in Requests /\ r.caller = c /\ r.op = op /\ r.waited
  BY DEF Requests
<1>2. /\ mail' \in Seq(Requests) /\ Len(mail') = Len(mail) + 1 /\ mail'[Len(mail) + 1] = r
      /\ \A i \in 1 .. Len(mail) : mail'[i] = mail[i]
  BY <1>0, <1>1
<1>3. pc'[c] = Waits[op] /\ \A d \in Callers \ {c} : pc'[d] = pc[d]
  BY <1>0 DEF PlacesOK
<1>4. \A i \in 1 .. Len(mail) : mail[i].caller \in Callers /\ (mail[i].waited => mail[i].caller # c)
  <2> SUFFICES ASSUME NEW i \in 1 .. Len(mail)
               PROVE mail[i].caller \in Callers /\ (mail[i].waited => mail[i].caller # c)
    OBVIOUS
  <2>1. mail[i] \in Requests
    BY <1>0
  <2>2. mail[i].waited => pc[mail[i].caller] \in WaitPlaces
    <3>1. mail[i].waited => pc[mail[i].caller] = Waits[mail[i].op]
      BY DEF MailOK
    <3>2. mail[i].op \in DOMAIN Waits
      BY <2>1, RequestTypes
    <3> QED BY <3>1, <3>2, WaitFacts
  <2> QED BY <2>1, <2>2, RequestTypes
<1>5. \A i \in 1 .. Len(mail') : i \in 1 .. Len(mail) \/ i = Len(mail) + 1
  BY <1>0, <1>2
<1>6. \A d \in Callers : pc'[d] \in WaitPlaces
         => \E i \in 1 .. Len(mail') : mail'[i].caller = d /\ mail'[i].waited
  <2> SUFFICES ASSUME NEW d \in Callers, pc'[d] \in WaitPlaces
               PROVE  \E i \in 1 .. Len(mail') : mail'[i].caller = d /\ mail'[i].waited
    OBVIOUS
  <2>1. CASE d = c
    <3>1. Len(mail) + 1 \in 1 .. Len(mail')
      BY <1>0, <1>2
    <3> QED BY <1>1, <1>2, <2>1, <3>1
  <2>2. CASE d # c
    <3>1. PICK i \in 1 .. Len(mail) : mail[i].caller = d /\ mail[i].waited
      BY <1>3, <2>2 DEF MailOK
    <3>2. i \in 1 .. Len(mail')
      BY <1>0, <1>2
    <3> QED BY <1>2, <3>1, <3>2
  <2> QED BY <2>1, <2>2
<1>7. loop' # None => mail' # <<>> /\ mail'[1].op = "start"
  <2>1. mail # <<>> => 1 \in 1 .. Len(mail)
    BY <1>0
  <2> QED BY <1>0, <1>2, <2>1 DEF MailOK
<1>8. \A i, j \in 1 .. Len(mail') :
         mail'[i].waited /\ mail'[j].waited /\ mail'[i].caller = mail'[j].caller => i = j
  BY <1>1, <1>2, <1>4, <1>5 DEF MailOK
<1>9. \A i \in 1 .. Len(mail') :
          /\ mail'[i].op = "status" <=> mail'[i].caller \in Restorers
          /\ mail'[i].waited => pc'[mail'[i].caller] = Waits[mail'[i].op]
  BY <1>1, <1>2, <1>3, <1>4, <1>5 DEF MailOK
<1> QED BY <1>2, <1>6, <1>7, <1>8, <1>9 DEF MailOK

(* A caller that does not wait goes on to a place where it does not wait.  *)
LEMMA FinishPlaces ==
    ASSUME PlacesOK, NEW c \in Callers, pc[c] \in Informed \cup Cleaning, Finish(c)
    PROVE  /\ PlacesOK' /\ pc[c] \notin WaitPlaces /\ pc'[c] \in {"idle", "stopped"}
           /\ \A d \in Callers \ {c} : pc'[d] = pc[d] /\ got'[d] = got[d] /\ using'[d] = using[d]
<1>1. Ended(c) = "idle" \/ (Ended(c) = "stopped" /\ pc[c] \in Cleaning)
  BY DEF Ended, Informed, Cleaning
<1>2. /\ pc' = [pc EXCEPT ![c] = Ended(c)] /\ using' = [using EXCEPT ![c] = NoObj]
      /\ \A d \in Callers \ {c} : got'[d] = got[d]
  BY DEF Finish
<1>3. c \in Users \/ Ended(c) = "idle"
  BY <1>1 DEF PlacesOK, UserPlaces
<1> QED BY <1>1, <1>2, <1>3 DEF PlacesOK, Informed, Cleaning, WaitPlaces, UserPlaces

LEMMA GoToPlaces ==
    ASSUME PlacesOK, NEW c \in Callers, pc[c] \in Informed, NEW o \in Objs \cup {NoObj},
           NEW place \in {"making", "connecting", "awaiting"}, o # NoObj <=> place # "making",
           GoTo(c, place, o)
    PROVE  /\ PlacesOK' /\ pc[c] \notin WaitPlaces /\ pc'[c] = place /\ using'[c] = o
           /\ \A d \in Callers \ {c} : pc'[d] = pc[d] /\ using'[d] = using[d]
BY DEF GoTo, PlacesOK, Informed, Cleaning, WaitPlaces, UserPlaces

LEMMA MailUntouched ==
    ASSUME MailOK, PlacesOK, mail' = mail, loop' # None => loop' = loop \/ (mail # <<>> /\ mail[1].op = "start"),
           \A c \in Callers : pc'[c] = pc[c] \/ (pc[c] \notin WaitPlaces /\ pc'[c] \notin WaitPlaces)
    PROVE  MailOK'
<1>1. mail \in Seq(Requests) /\ (loop' # None => mail # <<>> /\ mail[1].op = "start")
  BY DEF MailOK
<1>2. ASSUME NEW i \in 1 .. Len(mail)
      PROVE mail[i].waited => pc'[mail[i].caller] = pc[mail[i].caller]
  <2>1. mail[i] \in Requests
    BY <1>1
  <2>2. mail[i].caller \in Callers /\ mail[i].op \in DOMAIN Waits
    BY <2>1, RequestTypes
  <2>3. mail[i].waited => pc[mail[i].caller] \in WaitPlaces
    BY <2>2, WaitFacts DEF MailOK
  <2> QED BY <2>2, <2>3
<1> QED BY <1>1, <1>2, MailKept

LEMMA CallerMoves ==
    ASSUME ServiceTypes, NEW c \in Callers, CallerStep(c), ~ StartAgain(c)
    PROVE  PlacesOK' /\ MailOK' /\ UNCHANGED <<mail, loop>>
<1>0. PlacesOK /\ MailOK /\ sockets \in Objs \cup {NoObj} /\ NoObj \notin Objs
  BY ObjAssumption DEF ServiceTypes, SocketTypes
<1>1. UNCHANGED <<mail, loop>>
  BY DEF CallerStep, Reuse, ConnectAgain, FindNone, Make, OpenFails, Open, ComesUp, Arrive, Joined,
         NotJoined, CleanUp, Disposed, Cut, daemonVars, shellVars
<1>2. ASSUME Finish(c), pc[c] \in Informed \cup Cleaning PROVE PlacesOK' /\ MailOK'
  <2>1. /\ PlacesOK' /\ pc[c] \notin WaitPlaces /\ pc'[c] \notin WaitPlaces
        /\ \A d \in Callers \ {c} : pc'[d] = pc[d]
    BY <1>0, <1>2, FinishPlaces DEF WaitPlaces
  <2> QED BY <1>0, <1>1, <2>1, MailUntouched
<1>3. ASSUME NEW o \in Objs \cup {NoObj}, NEW place \in {"making", "connecting", "awaiting"},
             o # NoObj <=> place # "making", GoTo(c, place, o), pc[c] \in Informed
      PROVE PlacesOK' /\ MailOK'
  <2>1. /\ PlacesOK' /\ pc[c] \notin WaitPlaces /\ pc'[c] \notin WaitPlaces
        /\ \A d \in Callers \ {c} : pc'[d] = pc[d]
    BY <1>0, <1>3, GoToPlaces DEF WaitPlaces
  <2> QED BY <1>0, <1>1, <2>1, MailUntouched
<1>4. CASE Reuse(c) \/ OpenFails(c) \/ Joined(c) \/ NotJoined(c) \/ CleanUp(c)
  BY <1>1, <1>2, <1>4 DEF Reuse, OpenFails, Joined, NotJoined, CleanUp, Informed, Cleaning
<1>5. CASE ConnectAgain(c)
  BY <1>1, <1>0, <1>3, <1>5 DEF ConnectAgain, Informed
<1>6. CASE FindNone(c)
  BY <1>1, <1>0, <1>3, <1>6 DEF FindNone, Informed
<1>7. CASE Make(c)
  BY <1>1, <1>0, <1>3, <1>7 DEF Make, Informed
<1>8. CASE Open(c)
  <2>1. using[c] \in Objs \cup {NoObj} /\ using[c] # NoObj
    BY <1>0, <1>8 DEF Open, PlacesOK
  <2> QED BY <1>1, <1>3, <1>8, <2>1 DEF Open, Informed
<1> QED BY <1>1, <1>4, <1>5, <1>6, <1>7, <1>8 DEF CallerStep

(* The answer to the first request.                                        *)
LEMMA ReplyMoves ==
    ASSUME ServiceTypes, mail # <<>>, NEW value \in Gens \cup {None}, Reply(value), loop' = None
    PROVE  /\ PlacesOK' /\ MailOK' /\ Len(mail') = Len(mail) - 1 /\ 1 \in 1 .. Len(mail)
           /\ \A i \in 1 .. Len(mail') : mail'[i] = mail[i + 1]
           /\ mail[1] \in Requests /\ using' = using
           /\ \A c \in Callers \ {mail[1].caller} : pc'[c] = pc[c] /\ got'[c] = got[c]
           /\ ~ mail[1].waited => UNCHANGED <<pc, got>>
           /\ mail[1].waited =>
                 LET c == mail[1].caller IN
                 /\ got'[c] = value
                 /\ mail[1].op \in {"start", "status"} =>
                        pc'[c] = IF value = None THEN "idle" ELSE "looking"
                 /\ mail[1].op = "stop" => pc'[c] = "cleaning"
                 /\ mail[1].op = "restart" => pc'[c] = "recleaning"
<1> DEFINE m == mail[1]
           c == mail[1].caller
<1>0. /\ PlacesOK /\ MailOK /\ mail \in Seq(Requests) /\ got \in [Callers -> Gens \cup {None}]
      /\ pc \in [Callers -> {"idle", "restoring"} \cup Informed \cup UserPlaces]
  BY DEF ServiceTypes, SocketTypes, MailOK, PlacesOK
<1>1. /\ 1 \in 1 .. Len(mail) /\ Head(mail) = m /\ mail' = Tail(mail) /\ using' = using
  BY <1>0 DEF Reply
<1>2. /\ mail' \in Seq(Requests) /\ Len(mail') = Len(mail) - 1
      /\ \A i \in 1 .. Len(mail') : mail'[i] = mail[i + 1]
  BY <1>0, <1>1
<1>3. m \in Requests /\ c \in Callers /\ m.op \in DOMAIN Waits /\ m.waited \in BOOLEAN
  <2>1. m \in Requests
    BY <1>0, <1>1
  <2> QED BY <2>1, RequestTypes
<1>4. ~ m.waited => UNCHANGED <<pc, got>>
  BY <1>1 DEF Reply
<1>5. ASSUME m.waited
      PROVE  /\ pc' = [pc EXCEPT ![c] = IF value = None /\ m.op \in {"start", "status"}
                                        THEN "idle" ELSE GoesOn[pc[c]]]
             /\ got' = [got EXCEPT ![c] = value]
             /\ pc[c] = Waits[m.op]
  BY <1>0, <1>1, <1>5 DEF Reply, MailOK
<1>6. ASSUME m.waited
      PROVE  /\ got'[c] = value /\ \A d \in Callers \ {c} : got'[d] = got[d]
             /\ m.op \in {"start", "status"} => pc'[c] = IF value = None THEN "idle" ELSE "looking"
             /\ m.op = "stop" => pc'[c] = "cleaning"
             /\ m.op = "restart" => pc'[c] = "recleaning"
             /\ \A d \in Callers \ {c} : pc'[d] = pc[d]
             /\ pc' \in [Callers -> {"idle", "restoring"} \cup Informed \cup UserPlaces]
  <2>1. /\ m.op = "start" => GoesOn[pc[c]] = "looking"
        /\ m.op = "status" => GoesOn[pc[c]] = "looking"
        /\ m.op = "stop" => GoesOn[pc[c]] = "cleaning"
        /\ m.op = "restart" => GoesOn[pc[c]] = "recleaning"
    BY <1>5, <1>6, WaitFacts, GoesOnFacts
  <2>2. m.op \in {"start", "status", "stop", "restart"}
    BY <1>3, WaitFacts
  <2> QED BY <1>0, <1>3, <1>5, <1>6, <2>1, <2>2 DEF Informed, UserPlaces, Cleaning
<1>7. MailOK'
  <2>1. m.waited => pc'[c] \notin WaitPlaces
    <3>1. m.op \in {"start", "status", "stop", "restart"}
      BY <1>3, WaitFacts
    <3> QED BY <1>6, <3>1 DEF WaitPlaces
  <2>2. \A d \in Callers \ {c} : pc'[d] = pc[d]
    BY <1>3, <1>4, <1>6
  <2>3. \A i \in 1 .. Len(mail') : mail'[i] = mail[IF i < 1 THEN i ELSE i + 1]
    BY <1>0, <1>2
  <2>4. ~ m.waited => pc' = pc
    BY <1>4
  <2> HIDE DEF c, m
  <2> QED BY <1>0, <1>1, <1>2, <2>1, <2>2, <2>3, <2>4, MailLess DEF c, m
<1>8. PlacesOK'
  <2>1. CASE ~ m.waited
    BY <1>0, <1>1, <1>4, <2>1 DEF PlacesOK
  <2>2. CASE m.waited
    <3>1. m.op \in {"start", "status", "stop", "restart"}
      BY <1>3, WaitFacts
    <3>2. pc[c] \in WaitPlaces
      BY <1>3, <1>5, <2>2, WaitFacts
    <3>3. using[c] = NoObj
      BY <1>0, <1>3, <3>2 DEF PlacesOK, WaitPlaces
    <3>4. m.op \in {"stop", "restart"} => c \in Users
      BY <1>0, <1>3, <1>5, <2>2, WaitFacts DEF PlacesOK, UserPlaces
    <3>5. pc'[c] \notin {"connecting", "awaiting"} /\ (pc'[c] \in Informed => got'[c] # None)
          /\ (pc'[c] \in UserPlaces => c \in Users)
      BY <1>6, <2>2, <3>1, <3>4 DEF Informed, UserPlaces, Cleaning
    <3> QED BY <1>0, <1>1, <1>6, <2>2, <3>3, <3>5 DEF PlacesOK
  <2> QED BY <2>1, <2>2
<1> QED BY <1>1, <1>2, <1>3, <1>4, <1>6, <1>7, <1>8

LEMMA AskMoves ==
    ASSUME ServiceTypes, NEW c \in Callers, NEW op \in DOMAIN Waits, Sent(c, op),
           op = "status" <=> c \in Restorers, pc[c] \in {"idle", "stopped"}
    PROVE  PlacesOK' /\ MailOK'
<1>1. PlacesOK /\ MailOK /\ pc[c] \notin WaitPlaces
  BY DEF ServiceTypes, WaitPlaces
<1>2. MailOK'
  BY <1>1, MailMore
<1>3. /\ pc' = [pc EXCEPT ![c] = Waits[op]] /\ UNCHANGED <<using, got>>
  BY DEF Sent
<1>4. Waits[op] \in WaitPlaces /\ (op # "status" => c \in Users)
      /\ (op = "status" => Waits[op] = "restoring")
  BY WaitFacts DEF Callers
<1> QED
  BY <1>1, <1>2, <1>3, <1>4 DEF PlacesOK, WaitPlaces, Informed, UserPlaces, Cleaning

(* A sequence without one of its entries.                                  *)
LEMMA RemoveProperties ==
    ASSUME NEW S, NEW s \in Seq(S), NEW k \in 1 .. Len(s)
    PROVE  /\ RemoveAt(s, k) \in Seq(S) /\ Len(RemoveAt(s, k)) = Len(s) - 1
           /\ \A i \in 1 .. Len(s) - 1 : RemoveAt(s, k)[i] = s[IF i < k THEN i ELSE i + 1]
<1> DEFINE left == SubSeq(s, 1, k - 1)
           right == SubSeq(s, k + 1, Len(s))
<1>1. Len(s) \in Nat /\ k \in Nat /\ 1 <= k /\ k <= Len(s) /\ \A i \in 1 .. Len(s) : s[i] \in S
  BY LenProperties, ElementOfSeq
<1>2. left \in Seq(S) /\ Len(left) = k - 1 /\ \A i \in 1 .. k - 1 : left[i] = s[i]
  <2>1. /\ left \in Seq(S) /\ Len(left) = IF 1 <= k - 1 THEN k - 1 - 1 + 1 ELSE 0
        /\ \A i \in 1 .. k - 1 - 1 + 1 : left[i] = s[1 + i - 1]
    BY <1>1, SubSeqProperties
  <2>2. \A i \in 1 .. k - 1 : i \in 1 .. k - 1 - 1 + 1 /\ 1 + i - 1 = i
    BY <1>1
  <2> QED BY <1>1, <2>1, <2>2
<1>3. /\ right \in Seq(S) /\ Len(right) = Len(s) - k
      /\ \A i \in 1 .. Len(s) - k : right[i] = s[k + i]
  <2>1. /\ right \in Seq(S)
        /\ Len(right) = IF k + 1 <= Len(s) THEN Len(s) - (k + 1) + 1 ELSE 0
        /\ \A i \in 1 .. Len(s) - (k + 1) + 1 : right[i] = s[(k + 1) + i - 1]
    BY <1>1, SubSeqProperties
  <2> HIDE DEF right
  <2>2. \A i \in 1 .. Len(s) - k : i \in 1 .. Len(s) - (k + 1) + 1 /\ (k + 1) + i - 1 = k + i
    BY <1>1
  <2>3. Len(right) = Len(s) - k
    BY <1>1, <2>1
  <2> QED BY <2>1, <2>2, <2>3
<1> HIDE DEF left, right
<1>4. /\ left \o right \in Seq(S) /\ Len(left \o right) = Len(left) + Len(right)
      /\ \A i \in 1 .. Len(left) + Len(right) :
            (left \o right)[i] = IF i <= Len(left) THEN left[i] ELSE right[i - Len(left)]
  BY <1>2, <1>3, ConcatProperties
<1>5. RemoveAt(s, k) = left \o right
  BY DEF RemoveAt, left, right
<1>6. Len(left) + Len(right) = Len(s) - 1
  BY <1>1, <1>2, <1>3
<1>7. ASSUME NEW i \in 1 .. Len(s) - 1 PROVE (left \o right)[i] = s[IF i < k THEN i ELSE i + 1]
  <2>1. CASE i < k
    <3>1. i \in 1 .. k - 1 /\ i <= Len(left) /\ i \in 1 .. Len(left) + Len(right)
      BY <1>1, <1>2, <1>6, <2>1
    <3> QED BY <1>2, <1>4, <2>1, <3>1
  <2>2. CASE ~ (i < k)
    <3>1. /\ i - (k - 1) \in 1 .. Len(s) - k /\ ~ (i <= Len(left))
          /\ i \in 1 .. Len(left) + Len(right) /\ k + (i - (k - 1)) = i + 1
      BY <1>1, <1>2, <1>6, <2>2
    <3> QED BY <1>2, <1>3, <1>4, <2>2, <3>1
  <2> QED BY <2>1, <2>2
<1> QED BY <1>4, <1>5, <1>6, <1>7

LEMMA TimeoutMoves ==
    ASSUME ServiceTypes, NEW c \in Callers, Timeout(c)
    PROVE  PlacesOK' /\ MailOK'
<1>0. /\ PlacesOK /\ MailOK /\ mail \in Seq(Requests) /\ Len(mail) \in Nat
      /\ UNCHANGED <<got, using, loop>>
  BY DEF ServiceTypes, MailOK, Timeout, daemonVars, shellVars
<1>1. pc[c] \in WaitPlaces /\ pc' = [pc EXCEPT ![c] = Ended(c)]
  BY WaitFacts DEF Timeout
<1>2. Ended(c) = "idle" \/ (Ended(c) = "stopped" /\ c \in Users)
  BY <1>0 DEF Ended, PlacesOK, UserPlaces, Cleaning
<1>3. PlacesOK' /\ pc'[c] \notin WaitPlaces /\ \A d \in Callers \ {c} : pc'[d] = pc[d]
  BY <1>0, <1>1, <1>2 DEF PlacesOK, WaitPlaces, Informed, UserPlaces, Cleaning
<1>4. PICK k \in 1 .. Len(mail) :
         /\ mail[k].caller = c /\ mail[k].waited
         /\ \/ (loop # None => k # 1) /\ mail' = RemoveAt(mail, k)
            \/ mail' = [mail EXCEPT ![k].waited = FALSE]
  BY <1>0 DEF Timeout
<1>5. CASE (loop # None => k # 1) /\ mail' = RemoveAt(mail, k)
  <2>2. /\ mail' \in Seq(Requests) /\ Len(mail') = Len(mail) - 1
        /\ \A i \in 1 .. Len(mail') : mail'[i] = mail[IF i < k THEN i ELSE i + 1]
    BY <1>0, <1>5, RemoveProperties
  <2> QED BY <1>0, <1>3, <1>4, <1>5, <2>2, MailLess
<1>6. CASE mail' = [mail EXCEPT ![k].waited = FALSE]
  <2>1. mail[k] \in Requests /\ mail' = [mail EXCEPT ![k] = [mail[k] EXCEPT !.waited = FALSE]]
    BY <1>0, <1>6
  <2>2. [mail[k] EXCEPT !.waited = FALSE] \in Requests
    BY <2>1, RequestTypes
  <2> DEFINE freed == [mail[k] EXCEPT !.waited = FALSE]
  <2>a. freed \in Requests /\ mail' = [mail EXCEPT ![k] = freed]
    BY <2>1, <2>2
  <2>b. freed = [mail[k] EXCEPT !.waited = FALSE]
    OBVIOUS
  <2> HIDE DEF freed
  <2>c. /\ [mail EXCEPT ![k] = freed] \in Seq(Requests)
        /\ Len([mail EXCEPT ![k] = freed]) = Len(mail)
        /\ \A i \in 1 .. Len(mail) : [mail EXCEPT ![k] = freed][i] = IF i = k THEN freed ELSE mail[i]
    BY <1>0, <2>a, ExceptSeq
  <2>3. /\ mail' \in Seq(Requests) /\ Len(mail') = Len(mail)
        /\ mail'[k] = [mail[k] EXCEPT !.waited = FALSE]
        /\ \A i \in 1 .. Len(mail) : i # k => mail'[i] = mail[i]
    BY <2>a, <2>b, <2>c
  <2>4. mail'[k].caller = mail[k].caller /\ mail'[k].op = mail[k].op /\ ~ mail'[k].waited
    BY <2>1, <2>3, RequestTypes
  <2>5. ASSUME NEW i \in 1 .. Len(mail)
        PROVE  /\ mail'[i].caller = mail[i].caller /\ mail'[i].op = mail[i].op
               /\ mail'[i].waited => mail[i].waited /\ pc'[mail[i].caller] = pc[mail[i].caller]
    <3>1. mail[i] \in Requests
      BY <1>0
    <3>2. mail[i].caller \in Callers
      BY <3>1, RequestTypes
    <3>3. i # k /\ mail[i].waited => mail[i].caller # c
      BY <1>0, <1>4 DEF MailOK
    <3> QED BY <1>3, <2>3, <2>4, <3>2, <3>3
  <2>6. \A d \in Callers : pc'[d] \in WaitPlaces =>
           /\ pc[d] \in WaitPlaces
           /\ \A i \in 1 .. Len(mail) : mail[i].caller = d /\ mail[i].waited => mail'[i].waited
    BY <1>3, <1>4, <2>3
  <2>7. loop' # None => mail # <<>> /\ mail[1].op = "start"
    BY <1>0 DEF MailOK
  <2> QED BY <1>0, <1>3, <2>3, <2>5, <2>6, <2>7, MailKept
<1> QED BY <1>4, <1>5, <1>6

LEMMA CrashMoves ==
    ASSUME ServiceTypes, Crash
    PROVE  /\ PlacesOK' /\ MailOK' /\ Len(mail') = Len(mail)
           /\ \A i \in 1 .. Len(mail) : mail'[i].op = mail[i].op /\ ~ mail'[i].waited
<1>0. /\ MailOK /\ mail \in Seq(Requests) /\ loop' = loop
      /\ pc' = [c \in Callers |-> "idle"] /\ using' = [c \in Callers |-> NoObj]
      /\ mail' = [i \in DOMAIN mail |-> [mail[i] EXCEPT !.waited = FALSE]]
  BY DEF ServiceTypes, MailOK, Crash, Cut, shellVars
<1>1. /\ mail' \in Seq(Requests) /\ Len(mail') = Len(mail)
      /\ \A i \in 1 .. Len(mail) : mail'[i] = [mail[i] EXCEPT !.waited = FALSE]
  <2>1. \A i \in 1 .. Len(mail) : [mail[i] EXCEPT !.waited = FALSE] \in Requests
    <3>1. \A i \in 1 .. Len(mail) : mail[i] \in Requests
      BY <1>0
    <3> QED BY <3>1, RequestTypes
  <2>2. mail' = [i \in 1 .. Len(mail) |-> [mail[i] EXCEPT !.waited = FALSE]] /\ Len(mail) \in Nat
    BY <1>0
  <2> QED BY <2>1, <2>2
<1>2. \A i \in 1 .. Len(mail) :
         mail'[i].caller = mail[i].caller /\ mail'[i].op = mail[i].op /\ ~ mail'[i].waited
  <2> SUFFICES ASSUME NEW i \in 1 .. Len(mail)
               PROVE  /\ mail'[i].caller = mail[i].caller /\ mail'[i].op = mail[i].op
                      /\ ~ mail'[i].waited
    OBVIOUS
  <2>1. mail[i] \in Requests
    BY <1>0
  <2>2. mail'[i] = [mail[i] EXCEPT !.waited = FALSE]
    BY <1>1
  <2> QED BY <2>1, <2>2, RequestTypes
<1>3. \A c \in Callers : pc'[c] \notin WaitPlaces
  BY <1>0 DEF WaitPlaces
<1>4. MailOK'
  <2>1. loop' # None => mail # <<>> /\ mail[1].op = "start"
    BY <1>0 DEF MailOK
  <2> QED BY <1>0, <1>1, <1>2, <1>3, <2>1, MailKept
<1>5. PlacesOK'
  BY <1>0 DEF PlacesOK, Informed, UserPlaces, Cleaning
<1> QED BY <1>1, <1>2, <1>4, <1>5

(* What the daemon's answers and starts do to the mail.                    *)
LEMMA AnswerMoves ==
    ASSUME ServiceTypes, DaemonAnswers \/ DaemonFailsToStart
    PROVE  PlacesOK' /\ MailOK'
<1>0. /\ PlacesOK /\ MailOK /\ mail \in Seq(Requests)
      /\ token \in Gens \cup {None} /\ loop \in Gens \cup {None} /\ terminals \in Gens \cup {None}
  BY DEF ServiceTypes, MailOK, DaemonTypeOK, ShellTypeOK
<1>1. CASE DaemonStarts
  <2>1. UNCHANGED <<pc, got, using, mail>> /\ mail # <<>> /\ mail[1].op = "start"
    BY <1>0, <1>1 DEF DaemonStarts, serviceVars, NextIs
  <2> QED BY <1>0, <2>1, MailUntouched DEF PlacesOK
<1>2. CASE DaemonStarted
  <2>1. mail # <<>> /\ Reply(loop) /\ loop' = None
    BY <1>0, <1>2 DEF DaemonStarted, Started, MailOK
  <2> QED BY <1>0, <2>1, ReplyMoves
<1>3. CASE DaemonFailsToStart
  <2>1. mail # <<>> /\ Reply(None) /\ loop' = None
    BY <1>3 DEF DaemonFailsToStart, NextIs, StartFails, CreateFails
  <2> QED BY <2>1, ReplyMoves
<1>4. CASE DaemonHasStarted
  <2>1. mail # <<>> /\ Reply(IF Running THEN token ELSE None) /\ loop' = None
    BY <1>4 DEF DaemonHasStarted, NextIs, daemonVars, shellVars
  <2> QED BY <1>0, <2>1, ReplyMoves
<1>5. CASE DaemonStops
  <2>1. mail # <<>> /\ Reply(None) /\ loop' = None
    BY <1>5 DEF DaemonStops, NextIs, Stop, daemonVars, shellVars
  <2> QED BY <2>1, ReplyMoves
<1>6. CASE DaemonTells
  <2>1. /\ mail # <<>> /\ loop' = None
        /\ Reply(IF terminals # None /\ term[terminals].status \in {"running", "waiting_backend"}
                 THEN terminals ELSE None)
    BY <1>6 DEF DaemonTells, NextIs, daemonVars, shellVars
  <2> QED BY <1>0, <2>1, ReplyMoves
<1> QED BY <1>1, <1>2, <1>3, <1>4, <1>5, <1>6 DEF DaemonAnswers

LEMMA SocketMoves ==
    ASSUME ServiceTypes,
           \/ \E o \in Objs : DropSocket(o) \/ SocketStep(o)
           \/ DaemonWorks \/ TerminalEnds \/ UNCHANGED vars
    PROVE  PlacesOK' /\ MailOK' /\ UNCHANGED <<pc, got, using, mail, loop>>
<1>1. UNCHANGED <<pc, got, using, mail>>
  BY DEF DropSocket, SocketStep, DaemonAdmits, Hear, ClosedByDaemon, Reconnect, Lost,
         DaemonWorks, TerminalEnds, serviceVars, vars
<1>2. loop' = loop
  BY DEF DropSocket, SocketStep, DaemonAdmits, Hear, ClosedByDaemon, Reconnect, ComesUp, Arrive,
         Connect, Cut, DaemonWorks, TerminalEnds, TerminalThreads, ReaderEnds, WatchdogMarks, SetRunning, ShellExits, ReaderFails,
         Disconnect, CloseSocket, vars, daemonVars, shellVars
<1> QED BY <1>1, <1>2, MailUntouched DEF ServiceTypes, PlacesOK

LEMMA ServiceTypesStep == ServiceTypes /\ [Next]_vars => ServiceTypes'
<1> SUFFICES ASSUME ServiceTypes, [Next]_vars PROVE ServiceTypes'
  OBVIOUS
<1>1. DaemonTypeOK' /\ SocketTypes'
  BY ServiceStep, ShellTypeStep, RoomTypeStep DEF ServiceTypes, DaemonTypeOK
<1>2. PlacesOK' /\ MailOK'
  <2>1. ASSUME NEW c \in Callers, NEW op \in DOMAIN Waits, Ask(c, op) PROVE PlacesOK' /\ MailOK'
    BY <2>1, AskMoves DEF Ask
  <2>2. ASSUME NEW c \in Callers, StartAgain(c) PROVE PlacesOK' /\ MailOK'
    <3>1. c \notin Restorers /\ "start" \in DOMAIN Waits
      BY <2>2, CallerAssumption, WaitFacts DEF StartAgain, ServiceTypes, PlacesOK, UserPlaces
    <3> QED BY <2>2, <3>1, AskMoves DEF StartAgain
  <2> QED
    BY <2>1, <2>2, CallerMoves, TimeoutMoves, CrashMoves, AnswerMoves, SocketMoves DEF Next
<1>3. answer' \in [Sids -> {"none", "asked", "joined", "heard", "refused"}]
  <2>0. answer \in [Sids -> {"none", "asked", "joined", "heard", "refused"}]
    BY DEF ServiceTypes
  <2>1. ASSUME NEW c \in Callers, CallerStep(c)
        PROVE answer' \in [Sids -> {"none", "asked", "joined", "heard", "refused"}]
    <3>1. CASE Open(c) \/ CleanUp(c)
      BY <2>0, <3>1 DEF Open, ComesUp, CleanUp, Disposed
    <3>2. CASE ~ (Open(c) \/ CleanUp(c))
      BY <2>0, <2>1, <3>2 DEF CallerStep, Reuse, ConnectAgain, FindNone, Make, OpenFails, StartAgain,
                              Sent, KeepSockets, Joined, NotJoined
    <3> QED BY <3>1, <3>2
  <2>2. ASSUME NEW o \in Objs, DropSocket(o) \/ SocketStep(o)
        PROVE answer' \in [Sids -> {"none", "asked", "joined", "heard", "refused"}]
    BY <2>0, <2>2 DEF DropSocket, SocketStep, DaemonAdmits, Hear, ClosedByDaemon, Reconnect, ComesUp,
                      Lost
  <2>3. CASE Crash
    BY <2>3 DEF Crash
  <2>4. CASE DaemonAnswers \/ DaemonFailsToStart \/ DaemonWorks \/ TerminalEnds \/ UNCHANGED vars
    BY <2>0, <2>4 DEF DaemonAnswers, DaemonStarts, DaemonStarted, DaemonFailsToStart, DaemonHasStarted,
                      DaemonStops, DaemonTells, Reply, KeepSockets, DaemonWorks, TerminalEnds,
                      serviceVars, vars
  <2>5. ASSUME NEW c \in Callers, Timeout(c) \/ \E op \in DOMAIN Waits : Ask(c, op)
        PROVE answer' = answer
    BY <2>5 DEF Timeout, Ask, Sent, KeepSockets
  <2> QED BY <2>0, <2>1, <2>2, <2>3, <2>4, <2>5 DEF Next
<1>4. faults' \subseteq {"timeout", "drop", "crash"}
  <2>0. faults \subseteq {"timeout", "drop", "crash"}
    BY DEF ServiceTypes
  <2>1. faults' = faults \/ \E kind \in {"timeout", "drop", "crash"} : Fault(kind)
    BY DEF Next, vars, serviceVars, KeepCounts, Ask, Sent, Timeout, CallerStep, Reuse, ConnectAgain,
           FindNone, Make, OpenFails, Open, StartAgain, Joined, NotJoined, CleanUp,
           DaemonAnswers, DaemonStarts, DaemonStarted, DaemonFailsToStart, DaemonHasStarted,
           DaemonStops, DaemonTells, Reply, DropSocket, SocketStep, DaemonAdmits, Hear,
           ClosedByDaemon, Reconnect, DaemonWorks, TerminalEnds, Crash
  <2> QED BY <2>0, <2>1 DEF Fault
<1> QED BY <1>1, <1>2, <1>3, <1>4 DEF ServiceTypes

LEMMA ServiceTypesInit == Init => ServiceTypes
<1> SUFFICES ASSUME Init PROVE ServiceTypes
  OBVIOUS
<1>1. DaemonTypeOK /\ SocketTypes
  BY ServiceInit
<1>2. PlacesOK
  BY ObjAssumption DEF Init, PlacesOK, Informed, UserPlaces, Cleaning
<1>3. MailOK
  BY DEF Init, DaemonInit, MailOK, WaitPlaces
<1> QED BY <1>1, <1>2, <1>3 DEF Init, ServiceTypes

(* Types, and who waits for what: a caller waits just when a request of    *)
(* its own is under way, through timeouts, late answers and crashes; and a *)
(* start that blocks the daemon's loop is the first request under way.     *)
THEOREM ServiceTypesCorrect == Spec => []TypeOK
<1>1. ServiceTypes => TypeOK
  <2> SUFFICES ASSUME ServiceTypes PROVE TypeOK
    OBVIOUS
  <2>0. mail \in Seq(Requests) /\ MailOK
    BY DEF ServiceTypes, MailOK
  <2>1. \A i \in DOMAIN mail : mail[i] \in [caller : Callers, op : DOMAIN Waits, waited : BOOLEAN]
    <3>1. DOMAIN mail = 1 .. Len(mail) /\ \A i \in 1 .. Len(mail) : mail[i] \in Requests
      BY <2>0, LenProperties, ElementOfSeq
    <3> QED BY <3>1 DEF Requests
  <2>2. ASSUME NEW c \in Callers
        PROVE Waiting(c) <=> \E i \in DOMAIN mail : mail[i].caller = c /\ mail[i].waited
    <3>1. DOMAIN mail = 1 .. Len(mail)
      BY <2>0, LenProperties
    <3>2. Waiting(c) => \E i \in 1 .. Len(mail) : mail[i].caller = c /\ mail[i].waited
      BY <2>0, WaitFacts DEF MailOK
    <3>3. ASSUME NEW i \in 1 .. Len(mail), mail[i].caller = c, mail[i].waited PROVE Waiting(c)
      <4>1. pc[c] = Waits[mail[i].op]
        BY <2>0, <3>3 DEF MailOK
      <4>2. mail[i].op \in DOMAIN Waits
        BY <2>1, <3>1
      <4> QED BY <4>1, <4>2, WaitFacts
    <3> QED BY <3>1, <3>2, <3>3
  <2>3. loop # None => mail # <<>> /\ Head(mail).op = "start"
    BY <2>0 DEF MailOK
  <2> QED BY <2>1, <2>2, <2>3 DEF ServiceTypes, TypeOK, SocketTypes, PlacesOK
<1> QED BY <1>1, ServiceTypesInit, ServiceTypesStep, PTL DEF Spec

-------------------------------------------------------------------------------
(* Sockets that join.  A socket that holds a connection is in the room, or *)
(* the daemon has not answered it; nobody is about to throw it out.        *)
Held(o) == sock[o].sid # NoSid

In(o) ==
    /\ sock[o].sid \notin leaving
    /\ answer[sock[o].sid] \in {"joined", "heard"} => sock[o].sid \in members

Numbered ==
    /\ token <= starts /\ loop <= starts /\ terminals <= starts
    /\ \A c \in Callers : got[c] <= starts

SocketsOK ==
    /\ \A o, p \in Objs : Held(o) /\ sock[o].sid = sock[p].sid => o = p
    /\ \A o \in Objs :
          /\ sock[o].status = "running" => Held(o) /\ answer[sock[o].sid] = "heard"
          /\ Held(o) => /\ link[sock[o].sid] # "cut" /\ answer[sock[o].sid] # "none"
                        /\ answer[sock[o].sid] \in {"asked", "refused"}
                               => sock[o].sid \notin members \cup leaving

(* Requests that nobody waits for, those of a backend that has crashed,    *)
(* are under way only while nothing but requests has begun since, and they *)
(* are served before these.                                                *)
Late == \E i \in 1 .. Len(mail) : ~ mail[i].waited

Quiet ==
    /\ \A i, j \in 1 .. Len(mail) : mail[i].waited /\ ~ mail[j].waited => j < i
    /\ Late => /\ sockets = NoObj
               /\ \A c \in Callers : pc[c] = "idle" \/ pc[c] \in WaitPlaces
               /\ \A o \in Objs : ~ Held(o) /\ ~ sock[o].auto

(* A user who is to clean up after a stop finds no other terminal there.   *)
StopIsFinal == \A u \in Users : pc[u] \in Cleaning => token = None

EntryIsIn ==
    sockets # NoObj /\ Held(sockets) /\ (\A u \in Users : pc[u] \notin Cleaning) => In(sockets)

AwaitedIsIn ==
    \A c \in Callers : pc[c] = "awaiting" /\ got[c] = token /\ Held(using[c]) => In(using[c])

Joining == SocketsOK /\ Quiet /\ StopIsFinal /\ EntryIsIn /\ AwaitedIsIn

JoinInv ==
    /\ ServiceTypes /\ DaemonInStep /\ TableIsLatest /\ Numbered
    /\ "timeout" \notin faults /\ failures = 0 => Joining

(* Every object that holds a connection after the step is in the room, or  *)
(* held it before and was not.                                             *)
Keeps == \A o \in Objs : Held(o)' => In(o)' \/ (Held(o) /\ ~ In(o))

LEMMA SocketsFrame ==
    ASSUME SocketsOK, members' \cup leaving' \subseteq members \cup leaving,
           \A o \in Objs :
              /\ Held(o)' => /\ sock'[o].sid = sock[o].sid
                             /\ answer'[sock[o].sid] = answer[sock[o].sid]
                             /\ link'[sock[o].sid] # "cut" \/ link'[sock[o].sid] = link[sock[o].sid]
              /\ sock'[o].status = "running" => sock[o].status = "running" /\ Held(o)'
    PROVE  SocketsOK'
BY DEF SocketsOK, Held

LEMMA EntryFrame ==
    ASSUME EntryIsIn, Keeps, sockets' \in Objs \cup {NoObj},
           sockets' = sockets \/ sockets' = NoObj \/ ~ Held(sockets)',
           (\E u \in Users : pc[u] \in Cleaning)
              => sockets' = NoObj \/ \E u \in Users : pc'[u] \in Cleaning
    PROVE  EntryIsIn'
BY DEF EntryIsIn, Keeps, Held, In

LEMMA AwaitedFrame ==
    ASSUME AwaitedIsIn, Keeps, PlacesOK',
           \A c \in Callers : pc'[c] = "awaiting" /\ got'[c] = token' =>
              \/ pc[c] = "awaiting" /\ using'[c] = using[c] /\ got[c] = token
              \/ In(using[c])' /\ using'[c] = using[c]
    PROVE  AwaitedIsIn'
<1>1. \A c \in Callers : pc'[c] = "awaiting" => using'[c] \in Objs
  BY DEF PlacesOK
<1> QED BY <1>1 DEF AwaitedIsIn, Keeps, Held, In

LEMMA QuietKept ==
    ASSUME Quiet, mail' = mail, ~ Late
    PROVE  Quiet' /\ ~ Late'
BY DEF Quiet, Late

LEMMA StopFrame ==
    ASSUME StopIsFinal, token' = token,
           \A u \in Users : pc'[u] \in Cleaning => pc[u] \in Cleaning
    PROVE  StopIsFinal'
BY DEF StopIsFinal

LEMMA CallerNotLate ==
    ASSUME PlacesOK, Quiet, NEW c \in Callers, pc[c] \in Informed \cup Cleaning \cup {"stopped"}
    PROVE  ~ Late
BY DEF Quiet, Informed, Cleaning, WaitPlaces

(* A caller that only looks at the sockets and marks them.                 *)
LEMMA LookJoins ==
    ASSUME ServiceTypes, Joining, PlacesOK', SocketTypes', NEW c \in Callers,
           Reuse(c) \/ ConnectAgain(c) \/ FindNone(c) \/ Make(c) \/ OpenFails(c) \/ Joined(c) \/ NotJoined(c)
    PROVE  Joining'
<1>0. /\ PlacesOK /\ SocketTypes /\ sock \in [Objs -> Sockets] /\ sockets' \in Objs \cup {NoObj}
      /\ SocketsOK /\ Quiet /\ StopIsFinal /\ EntryIsIn /\ AwaitedIsIn
  BY DEF ServiceTypes, SocketTypes, Joining
<1>1. /\ pc[c] \in Informed /\ UNCHANGED <<mail, answer, token, members, leaving, link>>
      /\ sockets' = sockets \/ ~ Held(sockets)'
  BY <1>0 DEF Reuse, ConnectAgain, FindNone, Make, OpenFails, Joined, NotJoined, Informed, KeepSockets,
              daemonVars, shellVars, roomVars, Held, Fresh, SocketTypes, Sockets
<1>2. /\ \A d \in Callers \ {c} : pc'[d] = pc[d] /\ got'[d] = got[d] /\ using'[d] = using[d]
      /\ pc'[c] \in {"idle", "making", "connecting"}
  BY <1>0, <1>1 DEF Reuse, ConnectAgain, FindNone, Make, OpenFails, Joined, NotJoined, Finish, GoTo, Ended,
                    PlacesOK, Informed, SocketTypes
<1>3. \A o \in Objs : /\ sock'[o].sid = sock[o].sid
                      /\ sock'[o].status = "running" => sock[o].status = "running"
  BY <1>0 DEF Reuse, ConnectAgain, FindNone, Make, OpenFails, Joined, NotJoined, KeepSockets, Wired,
              Free, Fresh, Sockets, SocketTypes
<1>4. SocketsOK'
  <2>1. \A o \in Objs : sock'[o].status = "running" => Held(o)'
    BY <1>0, <1>3 DEF SocketsOK, Held
  <2> QED BY <1>0, <1>1, <1>3, <2>1, SocketsFrame
<1>5. Keeps
  BY <1>1, <1>3 DEF Keeps, Held, In
<1>6. Quiet'
  BY <1>0, <1>1, CallerNotLate, QuietKept
<1>7. StopIsFinal'
  <2>1. \A u \in Users : pc'[u] \in Cleaning => pc[u] \in Cleaning
    BY <1>2 DEF Callers, Cleaning
  <2> QED BY <1>0, <1>1, <2>1, StopFrame
<1>8. EntryIsIn'
  <2>1. \A u \in Users : pc[u] \in Cleaning => pc'[u] \in Cleaning
    BY <1>1, <1>2 DEF Callers, Cleaning, Informed
  <2> QED BY <1>0, <1>1, <1>5, <2>1, EntryFrame
<1>9. AwaitedIsIn'
  <2>1. \A d \in Callers : pc'[d] = "awaiting" /\ got'[d] = token'
           => pc[d] = "awaiting" /\ using'[d] = using[d] /\ got[d] = token
    BY <1>1, <1>2
  <2> QED BY <1>0, <1>5, <2>1, AwaitedFrame
<1> QED BY <1>4, <1>6, <1>7, <1>8, <1>9 DEF Joining

(* A connection that comes up takes an id nobody else knows.               *)
LEMMA ComingUp ==
    ASSUME ServiceTypes, SocketsOK, NEW o \in Objs, ~ Held(o),
           NEW status \in {"stopped", "starting", "running", "error"}, ComesUp(o, status),
           status = "running" => sock[o].status = "running"
    PROVE  /\ SocketsOK' /\ Keeps /\ In(o)' /\ UNCHANGED <<token, members, leaving>>
<1>0. /\ sock \in [Objs -> Sockets] /\ SidAssumption /\ link \in [Sids -> {"free", "up", "cut"}]
      /\ answer \in [Sids -> {"none", "asked", "joined", "heard", "refused"}]
  BY SidAssumption DEF ServiceTypes, SocketTypes, DaemonTypeOK, RoomTypeOK
<1>1. PICK s \in Sids :
         /\ answer[s] = "none" /\ s \notin members \cup leaving
         /\ answer' = [answer EXCEPT ![s] = "asked"] /\ link' = [link EXCEPT ![s] = "up"]
         /\ sock' = [sock EXCEPT ![o].sid = s, ![o].status = status, ![o].auto = TRUE]
         /\ UNCHANGED <<token, members, leaving>>
  BY DEF ComesUp, Spare, Unused, Arrive, shellVars
<1>2. /\ sock'[o].sid = s /\ answer'[s] = "asked" /\ link'[s] = "up" /\ s # NoSid
      /\ sock'[o].status = status
      /\ \A p \in Objs \ {o} : sock'[p] = sock[p]
      /\ \A t \in Sids \ {s} : answer'[t] = answer[t] /\ link'[t] = link[t]
  BY <1>0, <1>1 DEF SidAssumption, Sockets
<1>3. \A p \in Objs \ {o} : Held(p) => sock[p].sid \in Sids \ {s}
  BY <1>0, <1>1 DEF SocketsOK, Held, Sockets
<1>4. status # "running"
  BY DEF SocketsOK
<1>5. ASSUME NEW p \in Objs \ {o}, Held(p)
      PROVE  answer'[sock[p].sid] = answer[sock[p].sid] /\ link'[sock[p].sid] = link[sock[p].sid]
             /\ sock[p].sid # s
  BY <1>2, <1>3, <1>5
<1>6. SocketsOK'
  <2>1. \A p, q \in Objs : Held(p)' /\ sock'[p].sid = sock'[q].sid => p = q
    BY <1>2, <1>5 DEF SocketsOK, Held
  <2>2. ASSUME NEW p \in Objs
        PROVE  /\ sock'[p].status = "running" => Held(p)' /\ answer'[sock'[p].sid] = "heard"
               /\ Held(p)' => /\ link'[sock'[p].sid] # "cut" /\ answer'[sock'[p].sid] # "none"
                              /\ answer'[sock'[p].sid] \in {"asked", "refused"}
                                     => sock'[p].sid \notin members' \cup leaving'
    <3>1. CASE p = o
      BY <1>1, <1>2, <1>4, <3>1 DEF Held
    <3>2. CASE p # o
      <4>1. sock'[p] = sock[p] /\ UNCHANGED <<members, leaving>>
        BY <1>1, <1>2, <3>2
      <4>2. Held(p) => answer'[sock[p].sid] = answer[sock[p].sid] /\ link'[sock[p].sid] = link[sock[p].sid]
        BY <1>5, <3>2
      <4> QED BY <4>1, <4>2 DEF SocketsOK, Held
    <3> QED BY <3>1, <3>2
  <2> QED BY <2>1, <2>2 DEF SocketsOK, Held
<1>7. In(o)'
  BY <1>1, <1>2 DEF In
<1>8. ASSUME NEW p \in Objs \ {o}, Held(p)' PROVE In(p)' \/ (Held(p) /\ ~ In(p))
  <2>1. Held(p) /\ sock'[p] = sock[p] /\ UNCHANGED <<members, leaving>>
    BY <1>1, <1>2, <1>8 DEF Held
  <2>2. answer'[sock[p].sid] = answer[sock[p].sid]
    BY <1>5, <2>1
  <2> QED BY <2>1, <2>2 DEF In
<1> QED BY <1>1, <1>6, <1>7, <1>8 DEF Keeps

LEMMA OpenJoins ==
    ASSUME ServiceTypes, Joining, PlacesOK', SocketTypes', NEW c \in Callers, Open(c)
    PROVE  Joining'
<1>0. /\ PlacesOK /\ SocketTypes /\ sockets' \in Objs \cup {NoObj} /\ UNCHANGED <<sockets, mail>>
      /\ SocketsOK /\ Quiet /\ StopIsFinal /\ EntryIsIn /\ AwaitedIsIn
  BY DEF ServiceTypes, SocketTypes, Joining, Open
<1>1. PICK o \in Objs : pc[c] = "connecting" /\ using[c] = o /\ ~ Held(o) /\ ComesUp(o, "starting")
  BY <1>0 DEF Open, PlacesOK, Held
<1>2. SocketsOK' /\ Keeps /\ In(o)' /\ UNCHANGED <<token, members, leaving>>
  <2>1. "starting" \in {"stopped", "starting", "running", "error"} /\ "starting" # "running"
    OBVIOUS
  <2> QED BY <1>0, <1>1, <2>1, ComingUp
<1>3. /\ pc' = [pc EXCEPT ![c] = "awaiting"] /\ using' = [using EXCEPT ![c] = using[c]] /\ got' = got
  BY DEF Open, GoTo
<1>4. using' = using /\ \A d \in Callers \ {c} : pc'[d] = pc[d]
  BY <1>0, <1>3 DEF PlacesOK
<1>5. Quiet'
  BY <1>0, <1>1, CallerNotLate, QuietKept DEF Informed
<1>6. StopIsFinal' /\ \A u \in Users : pc[u] \in Cleaning => pc'[u] \in Cleaning
  BY <1>0, <1>1, <1>2, <1>3 DEF StopIsFinal, PlacesOK, Callers, Cleaning
<1>7. EntryIsIn'
  BY <1>0, <1>2, <1>6, EntryFrame
<1>8. AwaitedIsIn'
  <2>1. ASSUME NEW d \in Callers, pc'[d] = "awaiting", got'[d] = token'
        PROVE  \/ pc[d] = "awaiting" /\ using'[d] = using[d] /\ got[d] = token
               \/ In(using[d])' /\ using'[d] = using[d]
    BY <1>1, <1>2, <1>3, <1>4, <2>1 DEF In
  <2> QED BY <1>0, <1>2, <2>1, AwaitedFrame
<1> QED BY <1>2, <1>5, <1>6, <1>7, <1>8 DEF Joining

(* A connection that a socket lets go, or loses.                           *)
LEMMA LettingGo ==
    ASSUME SocketsOK, NEW o \in Objs, UNCHANGED <<members, leaving>>,
           sock'[o].sid = NoSid, sock'[o].status # "running",
           \A p \in Objs \ {o} : sock'[p] = sock[p],
           \A s \in Sids \ {sock[o].sid} : answer'[s] = answer[s] /\ link'[s] = link[s],
           sock \in [Objs -> Sockets]
    PROVE  SocketsOK' /\ Keeps
<1>1. ~ Held(o)'
  BY DEF Held
<1>2. ASSUME NEW p \in Objs \ {o}, Held(p)
      PROVE  answer'[sock[p].sid] = answer[sock[p].sid] /\ link'[sock[p].sid] = link[sock[p].sid]
  <2>1. sock[p].sid # sock[o].sid /\ sock[p].sid \in Sids
    BY <1>2 DEF SocketsOK, Held, Sockets
  <2> QED BY <2>1
<1>3. \A p \in Objs :
         /\ Held(p)' => /\ sock'[p].sid = sock[p].sid
                        /\ answer'[sock[p].sid] = answer[sock[p].sid]
                        /\ link'[sock[p].sid] # "cut" \/ link'[sock[p].sid] = link[sock[p].sid]
         /\ sock'[p].status = "running" => sock[p].status = "running" /\ Held(p)'
  BY <1>1, <1>2 DEF SocketsOK, Held
<1>4. SocketsOK'
  BY <1>3, SocketsFrame
<1>5. ASSUME NEW p \in Objs, Held(p)' PROVE In(p)' \/ (Held(p) /\ ~ In(p))
  BY <1>1, <1>3, <1>5 DEF In, Held
<1> QED BY <1>4, <1>5 DEF Keeps

LEMMA CleanUpJoins ==
    ASSUME ServiceTypes, Joining, PlacesOK', NEW c \in Callers, CleanUp(c)
    PROVE  Joining'
<1>0. /\ PlacesOK /\ sock \in [Objs -> Sockets] /\ sockets \in Objs \cup {NoObj}
      /\ answer \in [Sids -> {"none", "asked", "joined", "heard", "refused"}]
      /\ link \in [Sids -> {"free", "up", "cut"}]
      /\ SocketsOK /\ Quiet /\ StopIsFinal /\ EntryIsIn /\ AwaitedIsIn
  BY DEF ServiceTypes, SocketTypes, Joining, DaemonTypeOK, RoomTypeOK
<1>1. pc[c] \in Cleaning /\ sockets' = NoObj /\ UNCHANGED <<mail, token, members, leaving>>
  BY DEF CleanUp, Cleaning, Disposed, Cut, daemonVars, shellVars, roomVars
<1>2. SocketsOK' /\ Keeps
  <2>1. CASE sockets = NoObj
    <3>1. UNCHANGED <<sock, answer, link, members, leaving>>
      BY <2>1 DEF CleanUp, daemonVars, roomVars
    <3> QED BY <1>0, <3>1 DEF SocketsOK, Keeps, Held, In
  <2>2. CASE sockets # NoObj
    <3>1. PICK o \in Objs : o = sockets
      BY <1>0, <2>2
    <3>2. Disposed(o)
      BY <2>2, <3>1 DEF CleanUp
    <3>3. /\ sock'[o].sid = NoSid /\ sock'[o].status # "running"
          /\ \A p \in Objs \ {o} : sock'[p] = sock[p]
      BY <1>0, <3>2 DEF Disposed, Fresh
    <3>4. \A s \in Sids \ {sock[o].sid} : answer'[s] = answer[s] /\ link'[s] = link[s]
      BY <1>0, <3>2 DEF Disposed, Cut
    <3> QED BY <1>0, <1>1, <3>3, <3>4, LettingGo
  <2> QED BY <2>1, <2>2
<1>3. pc'[c] \in {"idle", "stopped"}
      /\ \A d \in Callers \ {c} : pc'[d] = pc[d] /\ got'[d] = got[d] /\ using'[d] = using[d]
  BY <1>0, <1>1, FinishPlaces DEF CleanUp
<1>4. Quiet'
  BY <1>0, <1>1, CallerNotLate, QuietKept
<1>5. StopIsFinal'
  BY <1>0, <1>1, <1>3 DEF StopIsFinal, Callers, Cleaning
<1>6. EntryIsIn'
  BY <1>1 DEF EntryIsIn
<1>7. AwaitedIsIn'
  <2>1. \A d \in Callers : pc'[d] = "awaiting" /\ got'[d] = token'
           => pc[d] = "awaiting" /\ using'[d] = using[d] /\ got[d] = token
    BY <1>1, <1>3
  <2> QED BY <1>0, <1>2, <2>1, AwaitedFrame
<1> QED BY <1>2, <1>4, <1>5, <1>6, <1>7 DEF Joining

(* The callers are not touched, and nobody is late.                        *)
LEMMA SocketFrame ==
    ASSUME ServiceTypes, Joining, PlacesOK', SocketsOK', Keeps, ~ Late,
           UNCHANGED <<sockets, mail, pc, got, using, token>>
    PROVE  Joining'
<1>1. SocketTypes /\ Quiet /\ StopIsFinal /\ EntryIsIn /\ AwaitedIsIn
  BY DEF ServiceTypes, Joining
<1>2. Quiet' /\ StopIsFinal'
  BY <1>1, QuietKept, StopFrame
<1>3. EntryIsIn'
  BY <1>1, EntryFrame DEF SocketTypes
<1>4. AwaitedIsIn'
  BY <1>1, AwaitedFrame
<1> QED BY <1>2, <1>3, <1>4 DEF Joining

LEMMA SocketJoins ==
    ASSUME ServiceTypes, Joining, PlacesOK', NEW o \in Objs, DropSocket(o) \/ SocketStep(o)
    PROVE  Joining'
<1>0. /\ sock \in [Objs -> Sockets] /\ SocketsOK /\ Quiet /\ NoSid \notin Sids
      /\ answer \in [Sids -> {"none", "asked", "joined", "heard", "refused"}]
      /\ link \in [Sids -> {"free", "up", "cut"}]
  BY SidAssumption DEF ServiceTypes, SocketTypes, Joining, DaemonTypeOK, RoomTypeOK
<1>1. ~ Late /\ UNCHANGED <<sockets, mail, pc, got, using, token>>
  <2>1. Held(o) \/ sock[o].auto
    BY DEF DropSocket, SocketStep, DaemonAdmits, Hear, ClosedByDaemon, Reconnect, Held
  <2>2. UNCHANGED <<sockets, mail, pc, got, using>>
    BY DEF DropSocket, SocketStep, DaemonAdmits, Hear, ClosedByDaemon, Reconnect, Lost
  <2>3. token' = token
    BY DEF DropSocket, SocketStep, DaemonAdmits, Hear, ClosedByDaemon, Reconnect, ComesUp, Arrive,
           Connect, Cut, daemonVars, shellVars
  <2> QED BY <1>0, <2>1, <2>2, <2>3 DEF Quiet
<1>2. CASE DropSocket(o) \/ ClosedByDaemon(o)
  <2>1. /\ sock'[o].sid = NoSid /\ sock'[o].status = "stopped"
        /\ \A p \in Objs \ {o} : sock'[p] = sock[p]
    BY <1>0, <1>2 DEF DropSocket, ClosedByDaemon, Lost, Sockets
  <2>2. \A s \in Sids \ {sock[o].sid} : answer'[s] = answer[s] /\ link'[s] = link[s]
    BY <1>0, <1>2 DEF DropSocket, ClosedByDaemon, Lost, Cut, daemonVars, roomVars
  <2>3. UNCHANGED <<members, leaving>>
    BY <1>2 DEF DropSocket, ClosedByDaemon, Cut, daemonVars, roomVars
  <2>4. "stopped" # "running"
    OBVIOUS
  <2> QED BY <1>0, <1>1, <2>1, <2>2, <2>3, <2>4, LettingGo, SocketFrame
<1>3. CASE Reconnect(o)
  <2>1. ~ Held(o) /\ ComesUp(o, sock[o].status)
    BY <1>3 DEF Reconnect, Held
  <2>2. PICK st \in {"stopped", "starting", "running", "error"} : st = sock[o].status
    BY <1>0, SocketChanges
  <2> QED BY <1>0, <1>1, <2>1, <2>2, ComingUp, SocketFrame
<1>4. CASE DaemonAdmits(o)
  <2>0. PICK s \in Sids : s = sock[o].sid
    BY <1>0, <1>4, SocketChanges DEF DaemonAdmits
  <2>1. /\ Held(o) /\ answer[s] = "asked" /\ s \notin members \cup leaving
        /\ UNCHANGED <<sock, leaving, link>>
        /\ \A p \in Objs \ {o} : sock[p].sid # s
    BY <1>0, <1>4, <2>0 DEF DaemonAdmits, Connect, SocketsOK, Held, daemonVars, roomVars
  <2>2. /\ \/ answer'[s] = "joined" /\ members' = members \cup {s}
           \/ answer'[s] = "refused" /\ members' = members
        /\ \A t \in Sids \ {s} : answer'[t] = answer[t]
    BY <1>0, <1>4, <2>0 DEF DaemonAdmits, Connect, daemonVars, roomVars
  <2>3. \A p \in Objs \ {o} : Held(p) => sock[p].sid \in Sids \ {s}
    BY <1>0, <2>1, SocketChanges DEF Held
  <2>4. SocketsOK'
    <3>1. \A p, q \in Objs : Held(p)' /\ sock'[p].sid = sock'[q].sid => p = q
      BY <1>0, <2>1 DEF SocketsOK, Held
    <3>2. ASSUME NEW p \in Objs
          PROVE  /\ sock'[p].status = "running" => Held(p)' /\ answer'[sock'[p].sid] = "heard"
                 /\ Held(p)' => /\ link'[sock'[p].sid] # "cut" /\ answer'[sock'[p].sid] # "none"
                                /\ answer'[sock'[p].sid] \in {"asked", "refused"}
                                       => sock'[p].sid \notin members' \cup leaving'
      <4>1. CASE p = o
        BY <1>0, <2>0, <2>1, <2>2, <4>1 DEF SocketsOK, Held
      <4>2. CASE p # o
        <5>1. Held(p) => sock[p].sid \in Sids \ {s} /\ answer'[sock[p].sid] = answer[sock[p].sid]
          BY <2>2, <2>3, <4>2
        <5> QED BY <1>0, <2>1, <2>2, <5>1 DEF SocketsOK, Held
      <4> QED BY <4>1, <4>2
    <3> QED BY <3>1, <3>2 DEF SocketsOK, Held
  <2>5. ASSUME NEW p \in Objs, Held(p)' PROVE In(p)' \/ (Held(p) /\ ~ In(p))
    <3>1. CASE p = o
      BY <2>0, <2>1, <2>2, <3>1 DEF In
    <3>2. CASE p # o
      <4>1. Held(p) /\ answer'[sock[p].sid] = answer[sock[p].sid]
        BY <2>1, <2>2, <2>3, <2>5, <3>2 DEF Held
      <4> QED BY <2>1, <2>2, <4>1 DEF In
    <3> QED BY <3>1, <3>2
  <2> QED BY <1>1, <2>4, <2>5, SocketFrame DEF Keeps
<1>5. CASE Hear(o)
  <2>0. PICK s \in Sids : s = sock[o].sid
    BY <1>0, <1>5, SocketChanges DEF Hear
  <2>1. /\ answer[s] = "joined" /\ UNCHANGED <<members, leaving, link>>
        /\ answer' = [answer EXCEPT ![s] = "heard"] /\ sock' = [sock EXCEPT ![o].status = "running"]
    BY <1>5, <2>0 DEF Hear, daemonVars, roomVars
  <2>2. /\ \A p \in Objs : sock'[p].sid = sock[p].sid
        /\ \A p \in Objs \ {o} : sock'[p] = sock[p]
        /\ answer'[s] = "heard" /\ \A t \in Sids \ {s} : answer'[t] = answer[t]
        /\ Held(o)
    BY <1>0, <2>0, <2>1 DEF Sockets, Held
  <2>3. \A p \in Objs \ {o} : Held(p) => sock[p].sid \in Sids \ {s}
    BY <1>0, <2>0, SocketChanges DEF SocketsOK, Held
  <2>4. SocketsOK'
    <3>1. \A p, q \in Objs : Held(p)' /\ sock'[p].sid = sock'[q].sid => p = q
      BY <1>0, <2>2 DEF SocketsOK, Held
    <3>2. ASSUME NEW p \in Objs
          PROVE  /\ sock'[p].status = "running" => Held(p)' /\ answer'[sock'[p].sid] = "heard"
                 /\ Held(p)' => /\ link'[sock'[p].sid] # "cut" /\ answer'[sock'[p].sid] # "none"
                                /\ answer'[sock'[p].sid] \in {"asked", "refused"}
                                       => sock'[p].sid \notin members' \cup leaving'
      <4>1. CASE p = o
        BY <1>0, <2>0, <2>1, <2>2, <4>1 DEF SocketsOK, Held
      <4>2. CASE p # o
        <5>1. Held(p) => sock[p].sid \in Sids \ {s} /\ answer'[sock[p].sid] = answer[sock[p].sid]
          BY <2>2, <2>3, <4>2
        <5> QED BY <1>0, <2>1, <2>2, <4>2, <5>1 DEF SocketsOK, Held
      <4> QED BY <4>1, <4>2
    <3> QED BY <3>1, <3>2 DEF SocketsOK, Held
  <2>5. ASSUME NEW p \in Objs, Held(p)' PROVE In(p)' \/ (Held(p) /\ ~ In(p))
    <3>1. CASE p = o
      BY <2>0, <2>1, <2>2, <3>1 DEF In
    <3>2. CASE p # o
      <4>1. Held(p) /\ answer'[sock[p].sid] = answer[sock[p].sid]
        BY <2>2, <2>3, <2>5, <3>2 DEF Held
      <4> QED BY <2>1, <2>2, <4>1 DEF In
    <3> QED BY <3>1, <3>2
  <2> QED BY <1>1, <2>4, <2>5, SocketFrame DEF Keeps
<1> QED BY <1>2, <1>3, <1>4, <1>5 DEF SocketStep

LEMMA DaemonWorksJoins ==
    ASSUME ServiceTypes, Joining, PlacesOK', DaemonWorks \/ TerminalEnds \/ UNCHANGED vars
    PROVE  Joining'
<1>0. /\ SocketTypes /\ link \in [Sids -> {"free", "up", "cut"}] /\ SocketsOK /\ Quiet
      /\ StopIsFinal /\ EntryIsIn /\ AwaitedIsIn
  BY DEF ServiceTypes, Joining, DaemonTypeOK, RoomTypeOK
<1>1. UNCHANGED <<sockets, sock, answer, mail, pc, got, using, token>>
  BY DEF DaemonWorks, TerminalEnds, vars, serviceVars, TerminalThreads, ReaderEnds, WatchdogMarks, SetRunning, ShellExits, ReaderFails,
         Disconnect, CloseSocket, daemonVars, shellVars
<1>2. \/ UNCHANGED <<link, members, leaving>>
      \/ \E s \in Sids : Disconnect(s) \/ CloseSocket(s)
  BY DEF DaemonWorks, TerminalEnds, vars, TerminalThreads, ReaderEnds, WatchdogMarks, SetRunning, ShellExits, ReaderFails,
         daemonVars, roomVars
<1>3. SocketsOK' /\ Keeps
  <2>1. CASE UNCHANGED <<link, members, leaving>>
    BY <1>0, <1>1, <2>1 DEF SocketsOK, Keeps, Held, In
  <2>2. ASSUME NEW s \in Sids, Disconnect(s) \/ CloseSocket(s) PROVE SocketsOK' /\ Keeps
    <3>1. /\ link' = [link EXCEPT ![s] = "free"] /\ members' \subseteq members
          /\ leaving' \subseteq leaving /\ members \subseteq members' \cup {s}
          /\ link[s] = "cut" \/ s \in leaving
      BY <2>2 DEF Disconnect, CloseSocket, Gone, Forgotten
    <3>2. \A t : link'[t] # "cut" \/ link'[t] = link[t]
      BY <1>0, <3>1
    <3>3. SocketsOK'
      BY <1>0, <1>1, <3>1, <3>2, SocketsFrame DEF SocketsOK, Held
    <3>4. ASSUME NEW o \in Objs, Held(o)' PROVE In(o)' \/ (Held(o) /\ ~ In(o))
      <4>1. Held(o) /\ link[sock[o].sid] # "cut"
        BY <1>0, <1>1, <3>4 DEF SocketsOK, Held
      <4>2. CASE sock[o].sid = s
        BY <3>1, <4>1, <4>2 DEF In
      <4>3. CASE sock[o].sid # s
        BY <1>1, <3>1, <4>1, <4>3 DEF In
      <4> QED BY <4>2, <4>3
    <3> QED BY <3>3, <3>4 DEF Keeps
  <2> QED BY <1>2, <2>1, <2>2
<1>4. Quiet' /\ StopIsFinal'
  BY <1>0, <1>1 DEF Quiet, Late, StopIsFinal, Held
<1>5. EntryIsIn'
  BY <1>0, <1>1, <1>3, EntryFrame DEF SocketTypes
<1>6. AwaitedIsIn'
  BY <1>0, <1>1, <1>3, AwaitedFrame
<1> QED BY <1>3, <1>4, <1>5, <1>6 DEF Joining

LEMMA CrashJoins ==
    ASSUME ServiceTypes, Crash
    PROVE  Joining'
<1>1. /\ \A i \in 1 .. Len(mail') : ~ mail'[i].waited
      /\ sockets' = NoObj /\ pc' = [c \in Callers |-> "idle"] /\ sock' = [o \in Objs |-> Fresh]
  BY CrashMoves DEF Crash
<1>2. /\ \A o \in Objs : sock'[o].sid = NoSid /\ sock'[o].status = "stopped" /\ ~ sock'[o].auto
      /\ \A c \in Callers : pc'[c] = "idle"
  BY <1>1 DEF Fresh
<1>3. SocketsOK' /\ EntryIsIn'
  BY <1>1, <1>2 DEF SocketsOK, EntryIsIn, Held
<1>4. Quiet'
  BY <1>1, <1>2 DEF Quiet, Held
<1>5. StopIsFinal' /\ AwaitedIsIn'
  BY <1>2 DEF StopIsFinal, AwaitedIsIn, Callers, Cleaning
<1> QED BY <1>3, <1>4, <1>5 DEF Joining

LEMMA SendJoins ==
    ASSUME ServiceTypes, Joining, PlacesOK', NEW c \in Callers, NEW op \in DOMAIN Waits, Sent(c, op),
           pc[c] \in {"idle", "stopped"}
    PROVE  Joining'
<1>0. /\ PlacesOK /\ SocketTypes /\ mail \in Seq(Requests) /\ Len(mail) \in Nat
      /\ SocketsOK /\ Quiet /\ StopIsFinal /\ EntryIsIn /\ AwaitedIsIn
  BY DEF ServiceTypes, MailOK, Joining
<1>1. UNCHANGED <<sockets, sock, answer, got, using, token, members, leaving, link>>
  BY DEF Sent, KeepSockets, daemonVars, shellVars, roomVars
<1>2. /\ Waits[op] \in WaitPlaces /\ pc' = [pc EXCEPT ![c] = Waits[op]]
      /\ mail' = Append(mail, [caller |-> c, op |-> op, waited |-> TRUE])
  BY WaitFacts DEF Sent
<1>3. pc'[c] \in WaitPlaces /\ \A d \in Callers \ {c} : pc'[d] = pc[d]
  BY <1>0, <1>2 DEF PlacesOK
<1>4. SocketsOK' /\ Keeps
  BY <1>0, <1>1 DEF SocketsOK, Keeps, Held, In
<1>5. Quiet'
  <2>1. [caller |-> c, op |-> op, waited |-> TRUE] \in Requests
    BY DEF Requests
  <2>2. /\ Len(mail') = Len(mail) + 1 /\ mail'[Len(mail) + 1].waited
        /\ \A i \in 1 .. Len(mail) : mail'[i] = mail[i]
    BY <1>0, <1>2, <2>1
  <2>3. \A i \in 1 .. Len(mail') : ~ mail'[i].waited => i \in 1 .. Len(mail) /\ ~ mail[i].waited
    BY <1>0, <2>2
  <2>4. Late' => Late
    BY <2>3 DEF Late
  <2>5. \A i, j \in 1 .. Len(mail') : mail'[i].waited /\ ~ mail'[j].waited => j < i
    <3> SUFFICES ASSUME NEW i \in 1 .. Len(mail'), NEW j \in 1 .. Len(mail'),
                        mail'[i].waited, ~ mail'[j].waited PROVE j < i
      OBVIOUS
    <3>1. j \in 1 .. Len(mail) /\ ~ mail[j].waited
      BY <2>3
    <3>2. CASE i \in 1 .. Len(mail)
      BY <1>0, <2>2, <3>1, <3>2 DEF Quiet
    <3>3. CASE i \notin 1 .. Len(mail)
      BY <1>0, <2>2, <3>1, <3>3
    <3> QED BY <3>2, <3>3
  <2>6. \A d \in Callers : pc[d] = "idle" \/ pc[d] \in WaitPlaces => pc'[d] = "idle" \/ pc'[d] \in WaitPlaces
    BY <1>3
  <2> QED BY <1>0, <1>1, <2>4, <2>5, <2>6 DEF Quiet, Held
<1>6. StopIsFinal' /\ \A u \in Users : pc[u] \in Cleaning => pc'[u] \in Cleaning
  BY <1>0, <1>1, <1>3 DEF StopIsFinal, Callers, Cleaning, WaitPlaces
<1>7. EntryIsIn'
  BY <1>0, <1>1, <1>4, <1>6, EntryFrame DEF SocketTypes
<1>8. AwaitedIsIn'
  <2>1. \A d \in Callers : pc'[d] = "awaiting" => pc[d] = "awaiting"
    BY <1>3 DEF WaitPlaces
  <2> QED BY <1>0, <1>1, <1>4, <2>1, AwaitedFrame
<1> QED BY <1>4, <1>5, <1>6, <1>7, <1>8 DEF Joining

(* The daemon's answers.                                                   *)
LEMMA FirstRequest ==
    ASSUME MailOK, mail # <<>>
    PROVE  /\ 1 \in 1 .. Len(mail) /\ mail[1] \in Requests /\ mail[1].caller \in Callers
           /\ mail[1].waited => /\ pc[mail[1].caller] \in WaitPlaces
                                /\ pc[mail[1].caller] = Waits[mail[1].op]
<1>1. mail \in Seq(Requests)
  BY DEF MailOK
<1>2. 1 \in 1 .. Len(mail)
  BY <1>1
<1>3. mail[1] \in Requests
  BY <1>1, <1>2
<1>4. mail[1].caller \in Callers /\ mail[1].op \in DOMAIN Waits
  BY <1>3, RequestTypes
<1> QED BY <1>2, <1>3, <1>4, WaitFacts DEF MailOK

LEMMA ReplyQuiet ==
    ASSUME ServiceTypes, Quiet, mail # <<>>, NEW value \in Gens \cup {None}, Reply(value), loop' = None
    PROVE  Quiet' /\ (~ mail[1].waited => Late) /\ UNCHANGED <<sockets, sock, answer>>
<1>0. mail \in Seq(Requests) /\ Len(mail) \in Nat /\ UNCHANGED <<sockets, sock, answer>>
  BY DEF ServiceTypes, MailOK, Reply, KeepSockets
<1>1. /\ Len(mail') = Len(mail) - 1 /\ 1 \in 1 .. Len(mail)
      /\ \A i \in 1 .. Len(mail') : mail'[i] = mail[i + 1]
      /\ ~ mail[1].waited => pc' = pc
  BY ReplyMoves
<1>2. \A i \in 1 .. Len(mail') : i + 1 \in 1 .. Len(mail) /\ ~ (i + 1 < 1)
  BY <1>0, <1>1
<1>3. Late' => Late /\ pc' = pc
  BY <1>1, <1>2 DEF Quiet, Late
<1>4. \A i, j \in 1 .. Len(mail') : mail'[i].waited /\ ~ mail'[j].waited => j < i
  <2> SUFFICES ASSUME NEW i \in 1 .. Len(mail'), NEW j \in 1 .. Len(mail'),
                      mail'[i].waited, ~ mail'[j].waited PROVE j < i
    OBVIOUS
  <2>1. j + 1 < i + 1
    BY <1>1, <1>2 DEF Quiet
  <2> QED BY <1>0, <1>1, <2>1
<1>5. ~ mail[1].waited => Late
  BY <1>1 DEF Late
<1>6. Quiet'
  BY <1>0, <1>3, <1>4 DEF Quiet, Held
<1> QED BY <1>0, <1>5, <1>6

LEMMA TellJoins ==
    ASSUME ServiceTypes, Joining, DaemonStarted \/ DaemonHasStarted \/ DaemonTells
    PROVE  Joining'
<1>0. /\ PlacesOK /\ SocketTypes /\ mail \in Seq(Requests) /\ MailOK
      /\ token \in Gens \cup {None} /\ loop \in Gens \cup {None} /\ terminals \in Gens \cup {None}
      /\ SocketsOK /\ Quiet /\ StopIsFinal /\ EntryIsIn /\ AwaitedIsIn
  BY DEF ServiceTypes, MailOK, Joining, DaemonTypeOK, ShellTypeOK
<1>1. PICK value \in Gens \cup {None} : Reply(value)
  BY <1>0 DEF DaemonStarted, DaemonHasStarted, DaemonTells
<1>2. /\ mail # <<>> /\ loop' = None /\ mail[1].op \in {"start", "status"}
      /\ UNCHANGED <<token, members, leaving, link>>
  BY <1>0 DEF DaemonStarted, DaemonHasStarted, DaemonTells, NextIs, Started, MailOK,
              daemonVars, shellVars, roomVars
<1>3. /\ Quiet' /\ UNCHANGED <<sockets, sock, answer>>
      /\ PlacesOK'
  BY <1>0, <1>1, <1>2, ReplyQuiet, ReplyMoves
<1>4. /\ mail[1] \in Requests /\ using' = using
      /\ \A c \in Callers \ {mail[1].caller} : pc'[c] = pc[c] /\ got'[c] = got[c]
      /\ ~ mail[1].waited => UNCHANGED <<pc, got>>
      /\ mail[1].waited => pc'[mail[1].caller] \in {"idle", "looking"}
  BY <1>0, <1>1, <1>2, ReplyMoves
<1>5. mail[1].waited => pc[mail[1].caller] \in WaitPlaces
  BY <1>0, <1>2, FirstRequest
<1>6. SocketsOK' /\ Keeps
  BY <1>0, <1>2, <1>3 DEF SocketsOK, Keeps, Held, In
<1>7. StopIsFinal' /\ \A u \in Users : pc[u] \in Cleaning => pc'[u] \in Cleaning
  BY <1>0, <1>2, <1>4, <1>5 DEF StopIsFinal, Callers, Cleaning, WaitPlaces
<1>8. EntryIsIn'
  BY <1>0, <1>3, <1>6, <1>7, EntryFrame DEF SocketTypes
<1>9. AwaitedIsIn'
  <2>1. \A c \in Callers : pc'[c] = "awaiting" => pc[c] = "awaiting" /\ got'[c] = got[c]
    BY <1>4
  <2> QED BY <1>0, <1>2, <1>3, <1>4, <1>6, <2>1, AwaitedFrame
<1> QED BY <1>3, <1>6, <1>7, <1>8, <1>9 DEF Joining

LEMMA StopJoins ==
    ASSUME ServiceTypes, DaemonInStep, failures = 0, Joining, DaemonStops
    PROVE  Joining'
<1>0. /\ PlacesOK /\ SocketTypes /\ mail \in Seq(Requests) /\ MailOK
      /\ SocketsOK /\ Quiet /\ StopIsFinal /\ EntryIsIn /\ AwaitedIsIn
      /\ token # None => token = terminals
  BY DEF ServiceTypes, MailOK, Joining, DaemonInStep, TokenOfTerminal
<1>1. /\ mail # <<>> /\ loop' = None /\ mail[1].op \in {"stop", "restart"} /\ Reply(None)
      /\ None \in Gens \cup {None}
  BY <1>0 DEF DaemonStops, NextIs, Stop, daemonVars, shellVars
<1>2. /\ token' = None /\ link' = link /\ members' \cup leaving' \subseteq members \cup leaving
  BY <1>0 DEF DaemonStops, Stop, CloseConnections, DestroyRoom, daemonVars, shellVars, roomVars
<1>3. /\ Quiet' /\ (~ mail[1].waited => Late) /\ UNCHANGED <<sockets, sock, answer>> /\ PlacesOK'
  BY <1>0, <1>1, ReplyQuiet, ReplyMoves
<1>4. SocketsOK'
  <2>1. \A o \in Objs : Held(o)' => Held(o)
    BY <1>3 DEF Held
  <2>2. \A o \in Objs : sock[o].status = "running" => Held(o)'
    BY <1>0, <1>3 DEF SocketsOK, Held
  <2> QED BY <1>0, <1>2, <1>3, <2>1, <2>2, SocketsFrame
<1>5. StopIsFinal'
  BY <1>2 DEF StopIsFinal
<1>6. EntryIsIn'
  <2>1. CASE ~ mail[1].waited
    BY <1>0, <1>3, <2>1 DEF Quiet, EntryIsIn
  <2>2. CASE mail[1].waited
    <3>1. /\ mail[1] \in Requests /\ 1 \in 1 .. Len(mail)
          /\ pc'[mail[1].caller] \in Cleaning
      BY <1>0, <1>1, <2>2, ReplyMoves DEF Cleaning
    <3>2. mail[1].caller \in Callers /\ pc[mail[1].caller] \in {"stopping", "restarting"}
      BY <1>0, <1>1, <2>2, FirstRequest, WaitFacts
    <3>3. mail[1].caller \in Users
      BY <1>0, <3>2 DEF PlacesOK, UserPlaces
    <3> QED BY <3>1, <3>3 DEF EntryIsIn
  <2> QED BY <2>1, <2>2
<1>7. AwaitedIsIn'
  <2>1. \A c \in Callers : pc'[c] = "awaiting" => got'[c] # None
    BY <1>3 DEF PlacesOK, Informed
  <2> QED BY <1>2, <2>1 DEF AwaitedIsIn
<1> QED BY <1>3, <1>4, <1>5, <1>6, <1>7 DEF Joining

LEMMA DaemonStartsJoins ==
    ASSUME ServiceTypes, Numbered, Joining, DaemonStarts
    PROVE  Joining'
<1>0. /\ PlacesOK /\ SocketTypes /\ mail \in Seq(Requests) /\ MailOK
      /\ got \in [Callers -> Gens \cup {None}] /\ starts \in Nat
      /\ SocketsOK /\ Quiet /\ StopIsFinal /\ EntryIsIn /\ AwaitedIsIn
  <2>1. got \in [Callers -> Gens \cup {None}] /\ starts \in Nat
    BY BoundAssumption DEF ServiceTypes, SocketTypes, DaemonTypeOK, ShellTypeOK
  <2> QED BY <2>1 DEF ServiceTypes, MailOK, Joining
<1>1. /\ mail # <<>> /\ mail[1].op = "start" /\ token' = starts + 1
      /\ UNCHANGED <<sockets, sock, answer, mail, pc, got, using, members, leaving, link>>
  BY <1>0 DEF DaemonStarts, NextIs, Start, New, serviceVars
<1>2. SocketsOK' /\ Keeps /\ Quiet'
  BY <1>0, <1>1 DEF SocketsOK, Keeps, Quiet, Late, Held, In
<1>3. \A u \in Users : pc[u] \notin Cleaning
  <2>0. 1 \in 1 .. Len(mail)
    BY <1>0, <1>1
  <2>1. CASE ~ mail[1].waited
    BY <1>0, <2>0, <2>1 DEF Quiet, Late, Callers, Cleaning, WaitPlaces
  <2>2. CASE mail[1].waited
    <3>1. mail[1].caller \in Callers /\ pc[mail[1].caller] = "starting"
      BY <1>0, <1>1, <2>2, FirstRequest, WaitFacts
    <3>2. mail[1].caller \in Users
      BY <1>0, <3>1 DEF PlacesOK, UserPlaces
    <3>3. \A u \in Users : u = mail[1].caller
      BY <3>2, UsersAssumption
    <3> QED BY <3>1, <3>3 DEF Cleaning
  <2> QED BY <2>1, <2>2
<1>4. StopIsFinal' /\ EntryIsIn'
  <2>1. StopIsFinal'
    BY <1>1, <1>3 DEF StopIsFinal
  <2> QED BY <1>0, <1>1, <1>2, <1>3, <2>1, EntryFrame DEF SocketTypes
<1>5. AwaitedIsIn'
  <2>1. \A c \in Callers : got'[c] # token'
    <3>1. \A c \in Callers : got[c] <= starts /\ got[c] \in Nat
      BY <1>0, BoundAssumption DEF Numbered, Gens, None
    <3> QED BY <1>0, <1>1, <3>1
  <2> QED BY <2>1 DEF AwaitedIsIn
<1> QED BY <1>2, <1>4, <1>5 DEF Joining

LEMMA NumberedStep == ServiceTypes /\ Numbered /\ [Next]_vars => Numbered'
<1> SUFFICES ASSUME ServiceTypes, Numbered, [Next]_vars PROVE Numbered'
  OBVIOUS
<1>0. /\ starts \in Nat /\ got \in [Callers -> Gens \cup {None}] /\ Gens \cup {None} \subseteq Nat
      /\ token \in Nat /\ loop \in Nat /\ terminals \in Nat /\ None = 0
      /\ got' \in [Callers -> Gens \cup {None}] /\ [DaemonNext]_daemonVars
  <2>1. got' \in [Callers -> Gens \cup {None}] /\ [DaemonNext]_daemonVars
    BY ServiceStep DEF ServiceTypes, SocketTypes
  <2> QED BY <2>1, BoundAssumption DEF ServiceTypes, SocketTypes, DaemonTypeOK, ShellTypeOK, Gens, None
<1>1. /\ starts' \in {starts, starts + 1} /\ token' \in {token, None, starts'}
      /\ loop' \in {loop, None, starts'} /\ terminals' \in {terminals, None, starts'}
  BY <1>0 DEF DaemonNext, Start, Started, StartFails, CreateFails, Stop, ShellExits, ReaderFails,
              TerminalThreads, ReaderEnds, WatchdogMarks, SetRunning, Arrive, Connect, Disconnect,
              CloseSocket, Cut, New, daemonVars, shellVars
<1>2. \A c \in Callers : got'[c] \in {got[c], None, loop, token, terminals}
  <2>1. ASSUME NEW value, Reply(value), mail # <<>>
        PROVE  \A c \in Callers : got'[c] \in {got[c], value}
    <3>1. got' = got \/ \E d : got' = [got EXCEPT ![d] = value]
      BY <2>1 DEF Reply
    <3> QED BY <1>0, <3>1
  <2>2. CASE DaemonAnswers \/ DaemonFailsToStart
    <3>1. CASE DaemonStarts
      BY <3>1 DEF DaemonStarts, serviceVars
    <3>2. CASE DaemonStarted
      <4>1. Reply(loop) /\ mail # <<>>
        BY <3>2 DEF DaemonStarted, Started, ServiceTypes, MailOK
      <4> QED BY <2>1, <4>1
    <3>3. CASE DaemonFailsToStart \/ DaemonStops
      <4>1. Reply(None) /\ mail # <<>>
        BY <3>3 DEF DaemonFailsToStart, DaemonStops, NextIs
      <4> QED BY <2>1, <4>1
    <3>4. CASE DaemonHasStarted
      <4>1. mail # <<>> /\ (Reply(token) \/ Reply(None))
        BY <3>4 DEF DaemonHasStarted, NextIs
      <4> QED BY <2>1, <4>1
    <3>5. CASE DaemonTells
      <4>1. mail # <<>> /\ (Reply(terminals) \/ Reply(None))
        BY <3>5 DEF DaemonTells, NextIs
      <4> QED BY <2>1, <4>1
    <3> QED BY <2>2, <3>1, <3>2, <3>3, <3>4, <3>5 DEF DaemonAnswers
  <2>3. ASSUME NEW c \in Callers, Timeout(c) \/ (\E op \in DOMAIN Waits : Ask(c, op)) \/ StartAgain(c)
        PROVE  got' = got
    BY <2>3 DEF Timeout, Ask, StartAgain, Sent
  <2>4. ASSUME NEW c \in Callers, CallerStep(c)
        PROVE  got' = got \/ got' = [got EXCEPT ![c] = None]
    BY <2>3, <2>4 DEF CallerStep, Reuse, ConnectAgain, FindNone, Make, OpenFails, Open, Joined, NotJoined,
                      CleanUp, Finish, GoTo
  <2>5. CASE Crash
    BY <2>5 DEF Crash
  <2>6. CASE DaemonWorks \/ TerminalEnds \/ UNCHANGED vars \/ \E o \in Objs : DropSocket(o) \/ SocketStep(o)
    <3>1. got' = got
      BY <2>6, SocketMoves
    <3> QED BY <3>1
  <2> QED BY <1>0, <2>2, <2>3, <2>4, <2>5, <2>6 DEF Next
<1>3. \A c \in Callers : got[c] \in Nat /\ got'[c] \in Nat
  BY <1>0
<1>4. token' <= starts' /\ loop' <= starts' /\ terminals' <= starts' /\ starts <= starts'
  BY <1>0, <1>1 DEF Numbered
<1>5. ASSUME NEW c \in Callers PROVE got'[c] <= starts
  BY <1>0, <1>2, <1>3 DEF Numbered
<1>6. starts' \in Nat
  BY <1>0, <1>1
<1>7. \A c \in Callers : got'[c] <= starts'
  BY <1>0, <1>3, <1>4, <1>5, <1>6
<1> QED BY <1>4, <1>7 DEF Numbered

LEMMA JoinStep == JoinInv /\ [Next]_vars => JoinInv'
<1> SUFFICES ASSUME JoinInv, [Next]_vars PROVE JoinInv'
  OBVIOUS
<1>1. ServiceTypes /\ ServiceTypes' /\ PlacesOK' /\ SocketTypes'
  BY ServiceTypesStep DEF JoinInv, ServiceTypes
<1>2. DaemonInStep' /\ TableIsLatest'
  <2>1. DaemonTypeOK /\ [DaemonNext]_daemonVars
    BY <1>1, ServiceStep DEF ServiceTypes
  <2> QED BY <2>1, TokenStep, RoomStep, HeardStep, TableStep DEF JoinInv, DaemonInStep
<1>3. Numbered'
  BY <1>1, NumberedStep DEF JoinInv
<1>4. ASSUME "timeout" \notin faults', failures' = 0 PROVE Joining'
  <2>1. "timeout" \notin faults
    <3>1. faults \subseteq faults'
      BY DEF Next, vars, serviceVars, KeepCounts, Ask, Sent, Timeout, CallerStep, Reuse, ConnectAgain,
             FindNone, Make, OpenFails, Open, StartAgain, Joined, NotJoined, CleanUp, Fault,
             DaemonAnswers, DaemonStarts, DaemonStarted, DaemonFailsToStart, DaemonHasStarted,
             DaemonStops, DaemonTells, Reply, DropSocket, SocketStep, DaemonAdmits, Hear,
             ClosedByDaemon, Reconnect, DaemonWorks, TerminalEnds, Crash
    <3> QED BY <1>4, <3>1
  <2>2. failures = 0 /\ ~ DaemonFailsToStart
    <3>1. failures \in Nat /\ [DaemonNext]_daemonVars
      BY <1>1, ServiceStep, BoundAssumption DEF ServiceTypes, DaemonTypeOK, ShellTypeOK
    <3>2. failures' = failures \/ failures' = failures + 1
      BY <3>1 DEF DaemonNext, Start, Started, StartFails, CreateFails, Stop, ShellExits, ReaderFails,
                  TerminalThreads, ReaderEnds, WatchdogMarks, SetRunning, Arrive, Connect, Disconnect,
                  CloseSocket, Cut, daemonVars, shellVars
    <3>3. DaemonFailsToStart => failures' = failures + 1
      BY DEF DaemonFailsToStart, StartFails, CreateFails
    <3> QED BY <1>4, <3>1, <3>2, <3>3
  <2>3. Joining
    BY <2>1, <2>2 DEF JoinInv
  <2>4. ASSUME NEW c \in Callers, NEW op \in DOMAIN Waits, Ask(c, op) PROVE Joining'
    BY <1>1, <2>3, <2>4, SendJoins DEF Ask
  <2>5. ASSUME NEW c \in Callers PROVE ~ Timeout(c)
    <3>1. Timeout(c) => "timeout" \in faults'
      BY DEF Timeout, Fault
    <3> QED BY <1>4, <3>1
  <2>6. ASSUME NEW c \in Callers, CallerStep(c) PROVE Joining'
    <3>1. CASE StartAgain(c)
      <4>1. pc[c] \in {"idle", "stopped"} /\ Sent(c, "start") /\ "start" \in DOMAIN Waits
        BY <3>1, WaitFacts DEF StartAgain
      <4> QED BY <1>1, <2>3, <4>1, SendJoins
    <3>2. CASE ~ StartAgain(c)
      BY <1>1, <2>3, <2>6, <3>2, LookJoins, OpenJoins, CleanUpJoins DEF CallerStep
    <3> QED BY <3>1, <3>2
  <2>7. CASE DaemonAnswers
    BY <1>1, <2>2, <2>3, <2>7, DaemonStartsJoins, TellJoins, StopJoins DEF DaemonAnswers, JoinInv
  <2>8. ASSUME NEW o \in Objs, DropSocket(o) \/ SocketStep(o) PROVE Joining'
    BY <1>1, <2>3, <2>8, SocketJoins
  <2>9. CASE DaemonWorks \/ TerminalEnds \/ UNCHANGED vars
    BY <1>1, <2>3, <2>9, DaemonWorksJoins
  <2>10. CASE Crash
    BY <1>1, <2>10, CrashJoins
  <2> QED BY <2>2, <2>4, <2>5, <2>6, <2>7, <2>8, <2>9, <2>10 DEF Next
<1> QED BY <1>1, <1>2, <1>3, <1>4 DEF JoinInv

LEMMA JoinInit == Init => JoinInv
<1> SUFFICES ASSUME Init PROVE JoinInv
  OBVIOUS
<1>1. ServiceTypes
  BY ServiceTypesInit
<1>2. DaemonInStep /\ TableIsLatest /\ Numbered
  BY DEF Init, DaemonInit, DaemonInStep, TableIsLatest, TokenOfTerminal, LiveHasRoom, Heard, Numbered, None
<1>3. Joining
  BY DEF Init, Joining, SocketsOK, Quiet, Late, StopIsFinal, EntryIsIn, AwaitedIsIn, Held, Fresh, Callers,
         Cleaning
<1> QED BY <1>1, <1>2, <1>3 DEF JoinInv

(* Only two steps of a caller end a start or a restore with a socket that  *)
(* is connected.                                                           *)
LEMMA SuccessStep ==
    ASSUME ServiceTypes, Joining, [Next]_vars, NEW c \in Callers, NEW o \in Objs,
           Succeeds(c, o), got[c] = token
    PROVE  sock[o].sid \in members
<1>0. /\ PlacesOK /\ MailOK /\ SocketTypes /\ NoObj \notin Objs
      /\ token \in Gens \cup {None} /\ loop \in Gens \cup {None} /\ terminals \in Gens \cup {None}
      /\ SocketsOK /\ StopIsFinal /\ EntryIsIn /\ AwaitedIsIn
  BY ObjAssumption DEF ServiceTypes, Joining, DaemonTypeOK, ShellTypeOK
<1>1. /\ pc[c] \in {"looking", "awaiting"} /\ pc'[c] = "idle" /\ sock'[o].status = "running"
      /\ pc[c] = "looking" => o = sockets
      /\ pc[c] = "awaiting" => o = using[c]
  BY DEF Succeeds
<1>2. token # None
  BY <1>0, <1>1 DEF PlacesOK, Informed
<1>3. ASSUME NEW d \in Callers, NEW place, pc' = [pc EXCEPT ![d] = place]
      PROVE  d = c
  BY <1>0, <1>1, <1>3 DEF PlacesOK
<1>4. ASSUME NEW value \in Gens \cup {None}, Reply(value), loop' = None, mail # <<>> PROVE FALSE
  <2>1. c = mail[1].caller /\ mail[1].waited
    BY <1>1, <1>4, ReplyMoves
  <2> QED BY <1>0, <1>1, <1>4, <2>1, FirstRequest DEF WaitPlaces
<1>5. CASE DaemonAnswers \/ DaemonFailsToStart
  <2>1. mail # <<>>
    BY <1>0, <1>5 DEF DaemonAnswers, DaemonStarts, DaemonStarted, DaemonHasStarted, DaemonStops,
                      DaemonTells, DaemonFailsToStart, NextIs, Started, MailOK
  <2>2. CASE DaemonStarts
    BY <1>1, <2>2 DEF DaemonStarts, serviceVars
  <2>3. CASE ~ DaemonStarts
    <3>1. /\ loop' = None
          /\ \E value \in Gens \cup {None} : Reply(value)
      BY <1>0, <1>5, <2>3 DEF DaemonAnswers, DaemonStarted, DaemonHasStarted, DaemonStops, DaemonTells,
           DaemonFailsToStart, NextIs, Started, Stop, StartFails, CreateFails, daemonVars, shellVars
    <3> QED BY <1>4, <2>1, <3>1
  <2> QED BY <2>2, <2>3
<1>6. CASE DaemonWorks \/ TerminalEnds \/ UNCHANGED vars \/ \E p \in Objs : DropSocket(p) \/ SocketStep(p)
  BY <1>1, <1>6, SocketMoves
<1>7. CASE Crash
  BY <1>1, <1>7 DEF Crash, Fresh
<1>8. ASSUME NEW d \in Callers, Timeout(d) \/ (\E op \in DOMAIN Waits : Ask(d, op)) \/ StartAgain(d)
      PROVE  FALSE
  <2>1. d = c
    BY <1>3, <1>8 DEF Timeout, Ask, StartAgain, Sent
  <2> QED BY <1>1, <1>8, <2>1, WaitFacts DEF Timeout, Ask, StartAgain, WaitPlaces
<1>9. ASSUME NEW d \in Callers, CallerStep(d), ~ StartAgain(d) PROVE sock[o].sid \in members
  <2>1. d = c
    BY <1>3, <1>9 DEF CallerStep, Reuse, ConnectAgain, FindNone, Make, OpenFails, Open, Joined, NotJoined,
                      CleanUp, Finish, GoTo
  <2>2. Reuse(c) \/ Joined(c)
    BY <1>0, <1>1, <1>9, <2>1 DEF CallerStep, ConnectAgain, FindNone, Make, OpenFails, Open, NotJoined,
         CleanUp, GoTo, PlacesOK, SocketTypes, Sockets
  <2>3. sock[o].status = "running"
    BY <1>1, <2>2 DEF Reuse, Joined
  <2>4. Held(o) /\ answer[sock[o].sid] = "heard"
    BY <1>0, <2>3 DEF SocketsOK
  <2>5. In(o)
    <3>1. CASE pc[c] = "looking"
      BY <1>0, <1>1, <1>2, <2>4, <3>1 DEF EntryIsIn, StopIsFinal, Held, In
    <3>2. CASE pc[c] = "awaiting"
      BY <1>0, <1>1, <2>4, <3>2 DEF AwaitedIsIn, Held, In
    <3> QED BY <1>1, <3>1, <3>2
  <2> QED BY <2>4, <2>5 DEF In
<1> QED BY <1>5, <1>6, <1>7, <1>8, <1>9 DEF Next

(* A start or a restore that succeeds with the terminal's present token    *)
(* leaves the backend's socket in the terminal's room.                     *)
THEOREM SuccessIsJoined == Spec => SuccessMeansJoined
<1>1. JoinInv /\ [Next]_vars =>
         ["timeout" \notin faults /\ failures = 0 =>
             \A c \in Callers, o \in Objs :
                 Succeeds(c, o) /\ got[c] = token => sock[o].sid \in members]_vars
  BY SuccessStep DEF JoinInv
<1> QED BY <1>1, JoinInit, JoinStep, PTL DEF Spec, SuccessMeansJoined
===============================================================================
