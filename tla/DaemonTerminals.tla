--------------------------- MODULE DaemonTerminals ---------------------------
(***************************************************************************)
(* The terminal of one item on the daemon: the shell behind a pseudo       *)
(* terminal with its reader and starter threads (daemon/src/service/       *)
(* terminal_manager.py), its entry in the table of terminals, its token,   *)
(* its room with the sockets that listen to it (room_manager.py,           *)
(* daemon_conn_pool.py), and the socket handlers that start, stop, join    *)
(* and leave (socket_routes.py, socket_service.py).                        *)
(*                                                                         *)
(* The handlers run on one event loop, and a step of the model is what one *)
(* does until it is suspended; entering and leaving a room never suspend,  *)
(* sending does.  The threads of a terminal run beside them.  Terminals    *)
(* are numbered in the order of their creation, and the token of a         *)
(* terminal is its number.  Only the backend's sockets are modelled: a     *)
(* browser's join the room beside them, under tokens of their own.         *)
(***************************************************************************)
EXTENDS Naturals, FiniteSets

CONSTANTS
    Sids,          \* session ids of the backend's sockets
    NoSid,
    MaxStarts,     \* bound on the terminals created
    MaxFailures    \* bound on the starts, and on the readers, that fail

ASSUME SidAssumption == NoSid \notin Sids
ASSUME BoundAssumption == MaxStarts \in Nat /\ MaxFailures \in Nat

Gens == 1 .. MaxStarts
None == 0

VARIABLES
    terminals,   \* the terminal in the manager's table
    term,        \* the terminals and their threads
    starts,      \* terminals created so far
    loop,        \* the terminal whose start holds the event loop
    token,       \* item_tokens
    room,        \* the room exists
    members,     \* its permanent subscribers
    listen,      \* backend_room_listen_conn_pool: the socket it names
    inroom,      \* the sockets in the room as the socket server sees it
    leaving,     \* the sockets close_terminal_connections still has to close
    link,        \* the sockets: "free", "up", or "cut" and not noticed yet
    failures     \* starts that have failed

shellVars == <<terminals, term, starts, loop, token, failures>>
roomVars == <<room, members, listen, inroom, leaving, link>>
daemonVars == <<shellVars, roomVars>>

Blank == [status |-> "stopped", child |-> "none", reader |-> "none", starter |-> "none"]

DaemonInit ==
    /\ terminals = None
    /\ term = [g \in Gens |-> Blank]
    /\ starts = 0
    /\ loop = None
    /\ token = None
    /\ room = FALSE
    /\ members = {}
    /\ listen = NoSid
    /\ inroom = {}
    /\ leaving = {}
    /\ link = [s \in Sids |-> "free"]
    /\ failures = 0

LiveOnceConnected == {"starting", "running"}

(* What terminal/start takes for a terminal that runs already.             *)
LiveStatuses == {"starting", "waiting_backend", "running"}

Running == terminals # None /\ term[terminals].status \in LiveStatuses

BackendRoomConnectedByCount == room /\ members # {}

(* What terminal/status and the job routes ask before they call the        *)
(* backend connected: the list of members and the pool.                    *)
BackendRoomConnected == room /\ members # {} /\ listen # NoSid

-------------------------------------------------------------------------------
(* terminal/start when no terminal runs: a dead one is replaced, the room  *)
(* is kept or created, and the shell is forked with its reader.            *)
New == starts + 1

CanStart ==
    /\ loop = None
    /\ ~ Running
    /\ starts < MaxStarts

StartInOldRoom ==
    /\ CanStart
    /\ starts' = New
    /\ terminals' = New
    /\ token' = New
    /\ term' = [term EXCEPT ![New] = [Blank EXCEPT !.status = "starting",
                                      !.child = "alive", !.reader = "reading"]]
    /\ loop' = New
    /\ UNCHANGED <<room, members, listen, inroom, leaving, link, failures>>

Start ==
    /\ CanStart
    /\ starts' = New
    /\ terminals' = New
    /\ token' = New
    /\ term' = [term EXCEPT ![New] = [Blank EXCEPT !.status = "starting",
                                      !.child = "alive", !.reader = "reading"]]
    /\ loop' = New
    /\ room' = TRUE
    /\ UNCHANGED <<members, listen, inroom, leaving, link, failures>>

(* Failures of starts and of readers together are bounded.                 *)
MayFail ==
    failures + Cardinality({g \in Gens : term[g].reader \in {"died", "gave_up"}}) < MaxFailures

(* The rest of start(): the reader runs already.                           *)
Started ==
    /\ loop # None
    /\ term' = [term EXCEPT ![loop].status = "waiting_backend",
                            ![loop].starter = "waiting"]
    /\ loop' = None
    /\ UNCHANGED <<terminals, starts, token, failures, roomVars>>

(* start() raises, before the fork or, with or without a reader, after it: *)
(* the room goes with its list of members, the entry in the table stays.   *)
StartFails ==
    /\ CanStart
    /\ MayFail
    /\ failures' = failures + 1
    /\ starts' = New
    /\ terminals' = New
    /\ token' = None
    /\ \E child \in {"none", "alive"}, reader \in {"none", "reading"} :
          /\ reader = "reading" => child = "alive"
          /\ term' = [term EXCEPT ![New] = [Blank EXCEPT !.status = "error",
                                            !.child = child, !.reader = reader]]
    /\ room' = FALSE
    /\ members' = {}
    /\ UNCHANGED <<loop, listen, inroom, leaving, link>>

(* create_terminal raises, for want of a working directory, when the dead  *)
(* terminal has been taken out already: the room is there, the token of the*)
(* terminal that is gone stays, and the request gets no answer.            *)
CreateFails ==
    /\ CanStart
    /\ MayFail
    /\ failures' = failures + 1
    /\ terminals' = None
    /\ room' = TRUE
    /\ UNCHANGED <<term, starts, loop, token, members, listen, inroom, leaving, link>>

(* The shell ends by itself ...                                            *)
ShellExits(g) ==
    /\ term[g].child = "alive"
    /\ term' = [term EXCEPT ![g].child = "exited"]
    /\ UNCHANGED <<terminals, starts, loop, token, failures, roomVars>>

(* ... and the reader, at the end of its loop, calls it stopped.           *)
ReaderEnds(g) ==
    /\ term[g].reader = "reading"
    /\ term[g].child # "alive"
    /\ term' = [term EXCEPT ![g].reader = "done", ![g].status = "stopped"]
    /\ UNCHANGED <<terminals, starts, loop, token, failures, roomVars>>

(* The reader fails over a shell that lives: an error of the read ends its *)
(* loop like the end of the shell does, an error while it handles one only *)
(* ends the thread ...                                                     *)
ReaderFails(g) ==
    /\ term[g].reader = "reading" /\ term[g].child = "alive"
    /\ MayFail
    /\ \/ term' = [term EXCEPT ![g].reader = "gave_up", ![g].status = "stopped"]
       \/ term' = [term EXCEPT ![g].reader = "died"]
    /\ UNCHANGED <<terminals, starts, loop, token, failures, roomVars>>

(* ... which the watchdog thread notices within five seconds.              *)
WatchdogMarks(g) ==
    /\ term[g].reader = "died"
    /\ term' = [term EXCEPT ![g].reader = "gave_up", ![g].status = "stopped"]
    /\ UNCHANGED <<terminals, starts, loop, token, failures, roomVars>>

(* wait_and_execute, when the backend has connected or 30 seconds are over,*)
(* whichever comes first: the status is not looked at.                     *)
SetRunning(g) ==
    /\ term[g].starter = "waiting"
    /\ term' = [term EXCEPT ![g].starter = "done", ![g].status = "running"]
    /\ UNCHANGED <<terminals, starts, loop, token, failures, roomVars>>

DestroyRoom ==
    /\ room' = FALSE
    /\ members' = {}
    /\ listen' = NoSid

(* close_terminal_connections takes the members of the room and closes     *)
(* their sockets in the background.                                        *)
CloseConnections ==
    /\ DestroyRoom
    /\ leaving' = leaving \cup members
    /\ UNCHANGED <<inroom, link>>

(* stop() kills the shell and blocks the event loop meanwhile.  The threads*)
(* of the terminal end as well, unnoticed: nobody reads the status of one  *)
(* that is out of the table, and its shell's input is closed.              *)
Killed(t) == [t EXCEPT !.status = "stopped", !.child = IF @ = "none" THEN @ ELSE "exited",
                       !.reader = "done", !.starter = "done"]

(* terminal/stop.                                                          *)
Stop ==
    /\ loop = None
    /\ terminals # None
    /\ token' = None
    /\ term' = [term EXCEPT ![terminals] = Killed(@)]
    /\ terminals' = None
    /\ CloseConnections
    /\ UNCHANGED <<starts, loop, failures>>

-------------------------------------------------------------------------------
(* A session id is used again only when nothing refers to it any more.     *)
Unused(s) == link[s] = "free" /\ s \notin members \cup leaving \cup inroom \cup {listen}

Arrive(s) ==
    /\ Unused(s)
    /\ link' = [link EXCEPT ![s] = "up"]
    /\ UNCHANGED <<shellVars, room, members, listen, inroom, leaving>>

Admits(t) == t # None /\ t = token

(* terminal/connect of a backend socket that shows the item's token: the   *)
(* room is created when it is missing.                                     *)
Connect(s, t) ==
    /\ loop = None
    /\ link[s] # "free"
    /\ Admits(t)
    /\ listen' = s
    /\ room' = TRUE
    /\ inroom' = inroom \cup {s}
    /\ members' = members \cup {s}
    /\ UNCHANGED <<shellVars, leaving, link>>

(* The network or the other side closes sockets; the daemon notices later. *)
Cut(closed) ==
    /\ link' = [s \in Sids |-> IF s \in closed /\ link[s] = "up" THEN "cut" ELSE link[s]]
    /\ UNCHANGED <<shellVars, room, members, listen, inroom, leaving>>

(* handle_disconnect: a socket leaves the list of members only when the    *)
(* pool still names it, the socket server's room in any case.              *)
Forgotten(s) ==
    IF listen = s THEN listen' = NoSid /\ members' = members \ {s}
    ELSE UNCHANGED <<listen, members>>

Gone(s) ==
    /\ link' = [link EXCEPT ![s] = "free"]
    /\ inroom' = inroom \ {s}
    /\ Forgotten(s)

Disconnect(s) ==
    /\ loop = None
    /\ link[s] = "cut"
    /\ Gone(s)
    /\ UNCHANGED <<shellVars, room, leaving>>

(* disconnect_in_background.                                               *)
CloseSocket(s) ==
    /\ loop = None
    /\ s \in leaving
    /\ leaving' = leaving \ {s}
    /\ Gone(s)
    /\ UNCHANGED <<shellVars, room>>

TerminalThreads(g) ==
    \/ ReaderEnds(g)
    \/ WatchdogMarks(g)
    \/ SetRunning(g)

DaemonNext ==
    \/ Start
    \/ Started
    \/ StartFails
    \/ CreateFails
    \/ Stop
    \/ \E g \in Gens : ShellExits(g) \/ ReaderFails(g) \/ TerminalThreads(g)
    \/ \E s \in Sids :
          \/ Arrive(s)
          \/ \E t \in Gens : Connect(s, t)
          \/ Disconnect(s)
          \/ CloseSocket(s)
    \/ \E closed \in SUBSET Sids : Cut(closed)

(* The daemon among clients that may show any token at any time.           *)
DaemonSpec == DaemonInit /\ [][DaemonNext]_daemonVars

-------------------------------------------------------------------------------
Statuses == LiveStatuses \cup {"stopped", "error"}

Terminals ==
    [status : Statuses, child : {"none", "alive", "exited"},
     reader : {"none", "reading", "done", "died", "gave_up"}, starter : {"none", "waiting", "done"}]

ShellTypeOK ==
    /\ terminals \in Gens \cup {None}
    /\ term \in [Gens -> Terminals]
    /\ starts \in 0 .. MaxStarts
    /\ loop \in Gens \cup {None}
    /\ token \in Gens \cup {None}
    /\ failures \in 0 .. MaxFailures

RoomTypeOK ==
    /\ room \in BOOLEAN
    /\ members \subseteq Sids
    /\ listen \in Sids \cup {NoSid}
    /\ inroom \subseteq Sids
    /\ leaving \subseteq Sids
    /\ link \in [Sids -> {"free", "up", "cut"}]

DaemonTypeOK == ShellTypeOK /\ RoomTypeOK

(* The token a socket has to show is that of the terminal in the table:    *)
(* one that was stopped, replaced or never came up admits nobody any more. *)
(* Only when creating the next terminal raises does the token of the latest*)
(* one outlive its entry.                                                  *)
TokenOfTerminal ==
    token # None => /\ \/ token = terminals
                       \/ terminals = None /\ token = starts /\ failures > 0
                    /\ term[token].status # "error"

(* A terminal that was started has a room until it is stopped, whatever    *)
(* its sockets do, so that its output has somewhere to go.                 *)
LiveHasRoom == token # None => room

(* Every socket the server would send a terminal's output to counts as a   *)
(* member of the room, as broadcast_to_terminal sends nothing to a room    *)
(* without members; only a failed start leaves listeners that go unheard.  *)
Heard == failures = 0 => inroom \subseteq members \cup leaving

(* Table, token, room and listeners stay in step.                          *)
DaemonInStep == TokenOfTerminal /\ LiveHasRoom /\ Heard

(* A shell that runs is the one in the table, which terminal/stop reaches. *)
(* A shell outlives its entry only after a start that failed half-way, of  *)
(* which nothing but the reader was started, or when its reader gave up on *)
(* it: the terminal counts as stopped then, and the next terminal/start    *)
(* takes its place without killing it (socket_routes.py:345-347).          *)
HalfStarted(g) == term[g].starter = "none" /\ loop # g

NoOrphanShell ==
    \A g \in Gens :
        term[g].child = "alive"
        => terminals = g \/ term[g].reader = "gave_up" \/ HalfStarted(g)

(* When terminal/status says that the backend is in the room, some socket  *)
(* really listens there: the list of members alone keeps the ones whose    *)
(* disconnect was noticed after another socket had taken their place.      *)
ConnectedIsHeard ==
    BackendRoomConnected => \E s \in inroom : link[s] # "free" /\ s \in members
===============================================================================
