--------------------------- MODULE TerminalService ---------------------------
(***************************************************************************)
(* The backend's end of an item's terminal, over the daemon's end in       *)
(* DaemonTerminals: threads that start, stop and restore the terminal      *)
(* (terminal_service.py), their requests over the main connection          *)
(* (connection_pool/daemon_connection.py), the table of item sockets       *)
(* (socket_pool/socket_manager.py) and the sockets themselves, which join  *)
(* the terminal's room with a token and reconnect on their own             *)
(* (socket_pool/item_socket.py).                                           *)
(*                                                                         *)
(* Requests and the messages of one socket stay in order; a request that   *)
(* timed out may be lost or handled later.                                 *)
(***************************************************************************)
EXTENDS DaemonTerminals, Sequences, SequencesExt

CONSTANTS
    Users,         \* callers that start and stop the terminal, see Ask
    Restorers,     \* threads that restore the backend's socket
    Objs,          \* ItemSocket objects
    NoObj,
    MaxAsks,       \* bound on the requests
    MaxFaults      \* bound on the kinds of faults in one behaviour

ASSUME ObjAssumption == NoObj \notin Objs
ASSUME CallerAssumption == Users \cap Restorers = {}

(* start_item, stop_item and restart_item block the backend's event loop:  *)
(* one user's call is served after the other, and one stands for all.      *)
ASSUME UsersAssumption == \A u, v \in Users : u = v

Callers == Users \cup Restorers

VARIABLES
    sockets,     \* the item's entry in SocketManager.sockets
    sock,        \* the ItemSocket objects
    answer,      \* what is under way on each socket's terminal/connect
    mail,        \* requests under way to the daemon
    pc, got, using,   \* where each caller is, the token it was told, its socket
    asks,
    faults       \* what went wrong so far, each at most once

serviceVars == <<sockets, sock, answer, mail, pc, got, using, asks, faults>>
vars == <<daemonVars, serviceVars>>

(* wired: the input handler of the socket is registered in input_center.   *)
(* auto: the client reconnects on its own when its connection is lost.     *)
Fresh == [token |-> None, sid |-> NoSid, status |-> "stopped", wired |-> FALSE,
          auto |-> FALSE]

Init ==
    /\ DaemonInit
    /\ sockets = NoObj
    /\ sock = [o \in Objs |-> Fresh]
    /\ answer = [s \in Sids |-> "none"]
    /\ mail = <<>>
    /\ pc = [c \in Callers |-> "idle"]
    /\ got = [c \in Callers |-> None]
    /\ using = [c \in Callers |-> NoObj]
    /\ asks = 0
    /\ faults = {}

KeepSockets == UNCHANGED <<sockets, sock, answer>>
KeepCounts == UNCHANGED <<asks, faults>>

Fault(kind) ==
    /\ kind \notin faults
    /\ Cardinality(faults) < MaxFaults
    /\ faults' = faults \cup {kind}

-------------------------------------------------------------------------------
(* Requests: _emit_and_wait_sync.  A caller has at most one that waits.    *)

Waits == [start |-> "starting", stop |-> "stopping", restart |-> "restarting",
          status |-> "restoring"]

Sent(c, op) ==
    /\ pc' = [pc EXCEPT ![c] = Waits[op]]
    /\ mail' = Append(mail, [caller |-> c, op |-> op, waited |-> TRUE])
    /\ UNCHANGED <<got, using, faults>> /\ KeepSockets
    /\ UNCHANGED daemonVars

(* The user's calls, and the restores of other threads, of the initializer *)
(* among them, which comes after a crash.                                  *)
Ask(c, op) ==
    /\ pc[c] = "idle"
    /\ op = "status" <=> c \in Restorers
    /\ asks < MaxAsks
    /\ asks' = asks + 1
    /\ Sent(c, op)

(* restart_item starts the terminal, whatever its stop has returned.       *)
StartAgain(c) ==
    /\ pc[c] = "stopped"
    /\ Sent(c, "start")
    /\ UNCHANGED asks

Ended(c) == IF pc[c] \in {"restarting", "recleaning"} THEN "stopped" ELSE "idle"

Waiting(c) == pc[c] \in {Waits[op] : op \in DOMAIN Waits}

TimeoutForgetsRequest(c) ==
    /\ Waiting(c)
    /\ Fault("timeout")
    /\ pc' = [pc EXCEPT ![c] = Ended(c)]
    /\ UNCHANGED <<mail, got, using, asks>> /\ KeepSockets
    /\ UNCHANGED daemonVars

(* A request times out: its answer, if it comes, finds nobody.             *)
Timeout(c) ==
    /\ Waiting(c)
    /\ Fault("timeout")
    /\ pc' = [pc EXCEPT ![c] = Ended(c)]
    /\ \E i \in DOMAIN mail :
          /\ mail[i].caller = c /\ mail[i].waited
          /\ \/ (loop # None => i # 1) /\ mail' = RemoveAt(mail, i)
             \/ mail' = [mail EXCEPT ![i].waited = FALSE]
    /\ UNCHANGED <<got, using, asks>> /\ KeepSockets
    /\ UNCHANGED daemonVars

(* The daemon's answer: a caller goes on when it still waits for it; the   *)
(* value is the token of a start or a restore, None when it has failed.    *)
GoesOn == [starting |-> "looking", stopping |-> "cleaning",
           restarting |-> "recleaning", restoring |-> "looking"]

Reply(value) ==
    LET m == Head(mail)
        c == m.caller
    IN  /\ mail' = Tail(mail)
        /\ IF m.waited
           THEN /\ pc' = [pc EXCEPT ![c] = IF value = None /\ m.op \in {"start", "status"}
                                           THEN "idle" ELSE GoesOn[@]]
                /\ got' = [got EXCEPT ![c] = value]
           ELSE UNCHANGED <<pc, got>>
        /\ UNCHANGED using /\ KeepSockets /\ KeepCounts

NextIs(op) == mail # <<>> /\ Head(mail).op = op /\ loop = None

DaemonStarts == NextIs("start") /\ Start /\ UNCHANGED serviceVars

DaemonStarted == Started /\ Reply(loop)

(* When creating the terminal raises there is no answer; the caller's wait *)
(* ends in the same failure.                                               *)
DaemonFailsToStart == NextIs("start") /\ (StartFails \/ CreateFails) /\ Reply(None)

(* The terminal runs already, or the bound on terminals is reached.        *)
DaemonHasStarted ==
    /\ NextIs("start")
    /\ Running \/ starts = MaxStarts
    /\ Reply(IF Running THEN token ELSE None)
    /\ UNCHANGED daemonVars

DaemonStops ==
    /\ NextIs("stop") \/ NextIs("restart")
    /\ IF terminals = None THEN UNCHANGED daemonVars ELSE Stop
    /\ Reply(None)

(* terminal/status gives the token the terminal was created with;          *)
(* restore_running_terminal goes on when it counts as running.             *)
DaemonTells ==
    /\ NextIs("status")
    /\ Reply(IF terminals # None /\ term[terminals].status \in {"running", "waiting_backend"}
             THEN terminals ELSE None)
    /\ UNCHANGED daemonVars

-------------------------------------------------------------------------------
(* create_backend_socket, which takes no lock.                             *)

Finish(c) ==
    /\ pc' = [pc EXCEPT ![c] = Ended(c)]
    /\ got' = [got EXCEPT ![c] = None]
    /\ using' = [using EXCEPT ![c] = NoObj]

GoTo(c, place, o) ==
    /\ pc' = [pc EXCEPT ![c] = place]
    /\ using' = [using EXCEPT ![c] = o]
    /\ UNCHANGED got

Wired(o) == sock' = [sock EXCEPT ![o].wired = TRUE]

(* A socket in the table that is connected is used as it is ...            *)
Reuse(c) ==
    /\ pc[c] = "looking"
    /\ sockets # NoObj
    /\ sock[sockets].status = "running"
    /\ Wired(sockets)
    /\ Finish(c)
    /\ UNCHANGED <<sockets, answer, mail>> /\ KeepCounts
    /\ UNCHANGED daemonVars

(* ... one that is not is to connect again, ...                            *)
ConnectAgain(c) ==
    /\ pc[c] = "looking"
    /\ sockets # NoObj
    /\ sock[sockets].status # "running"
    /\ GoTo(c, "connecting", sockets)
    /\ UNCHANGED mail /\ KeepSockets /\ KeepCounts
    /\ UNCHANGED daemonVars

(* ... and without one a new one is made ...                               *)
FindNone(c) ==
    /\ pc[c] = "looking"
    /\ sockets = NoObj
    /\ GoTo(c, "making", NoObj)
    /\ UNCHANGED mail /\ KeepSockets /\ KeepCounts
    /\ UNCHANGED daemonVars

(* An object nobody holds any more is made anew.                           *)
Free(o) ==
    /\ o # sockets
    /\ sock[o].sid = NoSid /\ ~ sock[o].auto
    /\ \A c \in Callers : using[c] # o

(* ... and put into the table, over what another thread has put there.     *)
Make(c) ==
    /\ pc[c] = "making"
    /\ \E o \in Objs :
          /\ Free(o)
          /\ sock' = [sock EXCEPT ![o] = [Fresh EXCEPT !.token = got[c]]]
          /\ sockets' = o
          /\ GoTo(c, "connecting", o)
    /\ UNCHANGED <<answer, mail>> /\ KeepCounts
    /\ UNCHANGED daemonVars

(* ItemSocket.connect: a client whose transport is up already raises.      *)
OpenFails(c) ==
    /\ pc[c] = "connecting"
    /\ sock[using[c]].sid # NoSid
    /\ sock' = [sock EXCEPT ![using[c]].status = "error"]
    /\ Finish(c)
    /\ UNCHANGED <<sockets, answer, mail>> /\ KeepCounts
    /\ UNCHANGED daemonVars

(* A connection of the client comes up under a new session id and shows    *)
(* the socket's token; which of the unused ids it gets makes no difference.*)
Spare == {s \in Sids : Unused(s) /\ answer[s] = "none"}

ComesUp(o, status) ==
    /\ Spare # {}
    /\ LET s == CHOOSE s \in Spare : TRUE IN
          /\ Arrive(s)
          /\ answer' = [answer EXCEPT ![s] = "asked"]
          /\ sock' = [sock EXCEPT ![o].sid = s, ![o].status = status, ![o].auto = TRUE]

Open(c) ==
    /\ pc[c] = "connecting"
    /\ sock[using[c]].sid = NoSid
    /\ ComesUp(using[c], "starting")
    /\ GoTo(c, "awaiting", using[c])
    /\ UNCHANGED <<sockets, mail>> /\ KeepCounts

(* The caller sees that the socket is connected and registers its input    *)
(* handler, unless it has one; or it gives up on the refusal, or after ten *)
(* seconds when its answer is late or another caller's connect() on the    *)
(* same socket has overwritten it (OpenFails), and leaves the socket in the*)
(* table.                                                                  *)
Joined(c) ==
    /\ pc[c] = "awaiting"
    /\ sock[using[c]].status = "running"
    /\ Wired(using[c])
    /\ Finish(c)
    /\ UNCHANGED <<sockets, answer, mail>> /\ KeepCounts
    /\ UNCHANGED daemonVars

Hopeless(o) == sock[o].sid # NoSid => answer[sock[o].sid] \in {"refused", "heard"}

NotJoined(c) ==
    /\ pc[c] = "awaiting"
    /\ sock[using[c]].status # "running"
    /\ \/ Hopeless(using[c]) /\ UNCHANGED faults
       \/ Fault("timeout")
    /\ sock' = [sock EXCEPT ![using[c]].status = "error"]
    /\ Finish(c)
    /\ UNCHANGED <<sockets, answer, mail, asks>>
    /\ UNCHANGED daemonVars

(* The client's disconnect: the connection is closed for good, and what    *)
(* was still under way on it is lost.                                      *)
Disposed(o) ==
    /\ sock' = [sock EXCEPT ![o] = [Fresh EXCEPT !.token = sock[o].token]]
    /\ Cut({sock[o].sid})
    /\ answer' = [s \in Sids |-> IF s = sock[o].sid THEN "none" ELSE answer[s]]

CleanUpKeepsSocket(c) ==
    /\ pc[c] \in {"cleaning", "recleaning"}
    /\ Finish(c)
    /\ UNCHANGED <<daemonVars, mail>> /\ KeepSockets /\ KeepCounts

CleanUpKeepsEntry(c) ==
    /\ pc[c] \in {"cleaning", "recleaning"}
    /\ IF sockets = NoObj THEN UNCHANGED <<daemonVars, sock, answer>> ELSE Disposed(sockets)
    /\ Finish(c)
    /\ UNCHANGED <<sockets, mail>> /\ KeepCounts

(* stop_terminal after a stop that succeeded: the socket in the table is   *)
(* disposed of.                                                            *)
CleanUp(c) ==
    /\ pc[c] \in {"cleaning", "recleaning"}
    /\ IF sockets = NoObj THEN UNCHANGED <<daemonVars, sock, answer>> ELSE Disposed(sockets)
    /\ sockets' = NoObj
    /\ Finish(c)
    /\ UNCHANGED mail /\ KeepCounts

-------------------------------------------------------------------------------
(* The sockets.                                                            *)

(* terminal/connect at the daemon.                                         *)
DaemonAdmits(o) ==
    LET s == sock[o].sid IN
    /\ s # NoSid /\ answer[s] = "asked" /\ loop = None
    /\ IF Admits(sock[o].token)
       THEN Connect(s, sock[o].token) /\ answer' = [answer EXCEPT ![s] = "joined"]
       ELSE UNCHANGED daemonVars /\ answer' = [answer EXCEPT ![s] = "refused"]
    /\ UNCHANGED <<sockets, sock, mail, pc, got, using>> /\ KeepCounts

(* terminal_connected at the socket; a refusal only ends a caller's wait.  *)
Hear(o) ==
    /\ sock[o].sid # NoSid
    /\ answer[sock[o].sid] = "joined"
    /\ sock' = [sock EXCEPT ![o].status = "running"]
    /\ answer' = [answer EXCEPT ![sock[o].sid] = "heard"]
    /\ UNCHANGED <<sockets, mail, pc, got, using>> /\ KeepCounts
    /\ UNCHANGED daemonVars

Lost(o, auto) ==
    /\ sock' = [sock EXCEPT ![o].sid = NoSid, ![o].status = "stopped", ![o].auto = auto]
    /\ answer' = [answer EXCEPT ![sock[o].sid] = "none"]
    /\ UNCHANGED <<sockets, mail, pc, got, using, asks>>

(* The network drops the connection; the client notices first.             *)
DropSocket(o) ==
    /\ Fault("drop")
    /\ sock[o].sid # NoSid
    /\ Cut({sock[o].sid})
    /\ Lost(o, TRUE)

(* The daemon has closed the connection: the client stays away.            *)
ClosedByDaemon(o) ==
    /\ sock[o].sid # NoSid
    /\ link[sock[o].sid] = "free"
    /\ Lost(o, FALSE)
    /\ UNCHANGED faults
    /\ UNCHANGED daemonVars

ReconnectSilently(o) ==
    /\ sock[o].auto
    /\ sock[o].sid = NoSid
    /\ \E s \in Spare :
          /\ Arrive(s)
          /\ sock' = [sock EXCEPT ![o].sid = s]
    /\ UNCHANGED <<sockets, answer, mail, pc, got, using>> /\ KeepCounts

(* The client's own reconnection.                                          *)
Reconnect(o) ==
    /\ sock[o].auto
    /\ sock[o].sid = NoSid
    /\ ComesUp(o, sock[o].status)
    /\ UNCHANGED <<sockets, mail, pc, got, using>> /\ KeepCounts

CrashForgotten ==
    /\ Fault("crash")
    /\ sockets' = NoObj
    /\ sock' = [o \in Objs |-> Fresh]
    /\ answer' = [s \in Sids |-> "none"]
    /\ mail' = [i \in DOMAIN mail |-> [mail[i] EXCEPT !.waited = FALSE]]
    /\ pc' = [c \in Callers |-> "idle"]
    /\ using' = [c \in Callers |-> NoObj]
    /\ link' = [s \in Sids |-> "free"]
    /\ got' = [c \in Callers |-> None]
    /\ UNCHANGED <<shellVars, room, members, listen, inroom, leaving, asks>>

(* The backend crashes: its sockets close, its requests find nobody.       *)
Crash ==
    /\ Fault("crash")
    /\ sockets' = NoObj
    /\ sock' = [o \in Objs |-> Fresh]
    /\ answer' = [s \in Sids |-> "none"]
    /\ mail' = [i \in DOMAIN mail |-> [mail[i] EXCEPT !.waited = FALSE]]
    /\ pc' = [c \in Callers |-> "idle"]
    /\ using' = [c \in Callers |-> NoObj]
    /\ Cut(Sids)
    /\ got' = [c \in Callers |-> None]
    /\ UNCHANGED asks

-------------------------------------------------------------------------------
DaemonAnswers ==
    \/ DaemonStarts
    \/ DaemonStarted
    \/ DaemonHasStarted
    \/ DaemonStops
    \/ DaemonTells

CallerStep(c) ==
    \/ Reuse(c)
    \/ ConnectAgain(c)
    \/ FindNone(c)
    \/ Make(c)
    \/ OpenFails(c)
    \/ Open(c)
    \/ StartAgain(c)
    \/ Joined(c)
    \/ NotJoined(c)
    \/ CleanUp(c)

SocketStep(o) ==
    \/ DaemonAdmits(o)
    \/ Hear(o)
    \/ ClosedByDaemon(o)
    \/ Reconnect(o)

(* The daemon's own steps.                                                 *)
DaemonWorks ==
    /\ \/ \E g \in Gens : TerminalThreads(g)
       \/ \E s \in Sids : Disconnect(s) \/ CloseSocket(s)
    /\ UNCHANGED serviceVars

TerminalEnds == \E g \in Gens : (ShellExits(g) \/ ReaderFails(g)) /\ UNCHANGED serviceVars

Next ==
    \/ \E c \in Callers :
          \/ \E op \in DOMAIN Waits : Ask(c, op)
          \/ Timeout(c)
          \/ CallerStep(c)
    \/ DaemonAnswers
    \/ DaemonFailsToStart
    \/ \E o \in Objs : DropSocket(o) \/ SocketStep(o)
    \/ DaemonWorks
    \/ TerminalEnds
    \/ Crash

(* Threads that run, the daemon's loop and the sockets' clients go on;     *)
(* nobody has to ask for anything, and no fault has to happen.             *)
Fairness ==
    /\ WF_vars(DaemonAnswers) /\ WF_vars(DaemonWorks)
    /\ WF_vars(\E c \in Callers : CallerStep(c))
    /\ WF_vars(\E o \in Objs : SocketStep(o))

Spec == Init /\ [][Next]_vars /\ Fairness

-------------------------------------------------------------------------------
Sockets ==
    [token : Gens \cup {None}, sid : Sids \cup {NoSid},
     status : {"stopped", "starting", "running", "error"},
     wired : BOOLEAN, auto : BOOLEAN]

TypeOK ==
    /\ DaemonTypeOK
    /\ sockets \in Objs \cup {NoObj}
    /\ sock \in [Objs -> Sockets]
    /\ answer \in [Sids -> {"none", "asked", "joined", "heard", "refused"}]
    /\ \A i \in DOMAIN mail : mail[i] \in [caller : Callers, op : DOMAIN Waits, waited : BOOLEAN]
    /\ \A c \in Callers : Waiting(c) <=> \E i \in DOMAIN mail : mail[i].caller = c /\ mail[i].waited
    /\ using \in [Callers -> Objs \cup {NoObj}]
    /\ got \in [Callers -> Gens \cup {None}]
    /\ loop # None => mail # <<>> /\ Head(mail).op = "start"
    /\ faults \subseteq {"timeout", "drop", "crash"}

(* The daemon's end, driven by the backend, is the daemon among arbitrary  *)
(* clients: what DaemonTerminals promises holds here as well.              *)
DaemonSteps == DaemonInit /\ [][DaemonNext]_daemonVars

(* When starting or restoring succeeds with the terminal's present token,  *)
(* the backend's socket is in that terminal's room (terminal_service.py:82 *)
(* reports a failure otherwise): unless a request has timed out, after     *)
(* which a socket the daemon has closed may still count as connected.      *)
Succeeds(c, o) ==
    /\ \/ pc[c] = "looking" /\ o = sockets
       \/ pc[c] = "awaiting" /\ o = using[c]
    /\ pc'[c] = "idle"
    /\ sock'[o].status = "running"

SuccessMeansJoined ==
    []["timeout" \notin faults /\ failures = 0 =>
        \A c \in Callers, o \in Objs :
            Succeeds(c, o) /\ got[c] = token => sock[o].sid \in members]_vars

(* When the item's socket shows the terminal's present token, the backend  *)
(* gets into that terminal's room, also after the connection was lost, for *)
(* as long as the item keeps such a socket.                                *)
Member(o) == sock[o].sid \in members

Lasting(o) == sockets = o /\ sock[o].token = token

DroppedSocketRejoins ==
    (\E o \in Objs : Lasting(o) /\ sock[o].auto) ~> (\A o \in Objs : Lasting(o) => Member(o))

(* Starting a terminal, restarting it or restoring it gets the backend     *)
(* into its room with a socket that takes the item's commands, when        *)
(* nothing goes wrong: also when the socket in the table belongs to an     *)
(* earlier terminal.  When another thread is at it, its connect() may raise*)
(* on the socket that is up and mark it as broken: it hears the terminal   *)
(* then, but takes no commands, and later starts raise on it again.        *)
Serves(o) == Member(o) /\ sock[o].wired /\ sock[o].status = "running"

Spoilt(o) == Member(o) /\ sock[o].status = "error"

Undisturbed == faults = {} /\ failures = 0

StartJoins ==
    \A t \in Gens :
        (\E c \in Callers : pc[c] = "looking" /\ got[c] = t /\ token = t)
            ~> (\E o \in Objs : Serves(o) \/ Spoilt(o)) \/ token # t \/ ~ Undisturbed
===============================================================================
