--------------------------- MODULE ServerLifecycle ---------------------------
(***************************************************************************)
(* The server process: the command line (start, stop, connect, exit), the  *)
(* handler of Ctrl-C, which the system runs on a thread of its own, the    *)
(* accept thread of the request channel, the thread of the audio clock,    *)
(* and the clients whose connections live on through all of it.            *)
(*                                                                         *)
(* The tables are those of ClientRegistry and each thread is a Thread.     *)
(* A request of a client is one step; RequestChannel takes it apart.  The  *)
(* connect command has no lock against them: it looks for its two ports    *)
(* and adds the connection of the two copies afterwards.                   *)
(*                                                                         *)
(* The accept thread makes an instance of the pipe, waits for a client,    *)
(* and makes a connection thread for it; the handle of the instance is     *)
(* what close() closes, whoever is at the other end by then.               *)
(*                                                                         *)
(* Closing the server clears the map of clients and removes the names of   *)
(* the shared memory, and no more: reference numbers, buffers, ports and   *)
(* connections stay, and so do the threads that serve connected clients,   *)
(* which go on registering and closing clients in a closed server.         *)
(***************************************************************************)
EXTENDS Integers, FiniteSets

CONSTANTS
  Callers,         \* who calls the server: the command line, and Ctrl-C if it
                   \*   is pressed at all
  Sessions,        \* clients that may connect, each once
  ClockStarts,     \* bounds of the model: the threads that are ever created
  AcceptStarts,    \*   for the clock and for the request channel
  MaxClients, MaxChannels, PortFactor, MaxConnections   \* of ClientRegistry

ASSUME CallersAssumption ==
  "console" \in Callers /\ Callers \subseteq {"console", "ctrl"}

ASSUME TablesAssumption ==
  /\ MaxClients \in Nat \ {0}
  /\ MaxChannels \in Nat \ {0}
  /\ PortFactor \in Nat /\ PortFactor >= 2
  /\ MaxConnections \in Nat

VARIABLES
  activeRefs, clients, inputBufferMap, outputBufferMap,
  activeBuffers, activePorts, ports, connections,
  clockHandle, clockState, clockPlace,      \* the Thread of the audio clock
  acceptHandle, acceptState, acceptPlace,   \* the Thread of the request channel
  serverState,
  pc,       \* where the two threads that call route_server are
  leaving,  \* the close() on the command line is that of main
  found,    \* the copies of ports that connect_ports has in its hands
  inClose,  \* the stop() in progress is called by close()
  target,   \* the handle that the wait of a kill() in progress is for
  pipe,       \* the handle of requestPipe: none, an instance nobody is
              \*   connected to, or the instance of a client
  accepting,  \* what each accept thread is at: binding, waiting, or the client
              \*   that it makes a thread for
  session,  \* what the server has done for each client
  number,   \* the reference number that a client was answered
  given,    \* history: the buffers that came with it
  wiped     \* history: open() made new records while clients had old ones

registry == <<activeRefs, clients, inputBufferMap, outputBufferMap,
              activeBuffers, activePorts, ports, connections>>
clock == <<clockHandle, clockState, clockPlace>>
acceptor == <<acceptHandle, acceptState, acceptPlace>>
console == <<leaving, found>>
killer == <<inClose, target>>
peers == <<session, number, given>>
listener == <<pipe, accepting>>
vars == <<registry, clock, acceptor, serverState, pc, console, killer, peers,
          listener, wiped>>

Tables == INSTANCE ClientRegistry
Clock == INSTANCE Thread WITH MaxStarts <- ClockStarts,
  handle <- clockHandle, threadState <- clockState, place <- clockPlace
Acceptor == INSTANCE Thread WITH MaxStarts <- AcceptStarts,
  handle <- acceptHandle, threadState <- acceptState, place <- acceptPlace

States == {"IDLE", "STARTING", "RUNNING", "STOPPING"}

Steps == {"ready",                                                   \* no call
          "connect", "push",                                \* connect_ports()
          "open", "openEngine", "clockCreated",                      \* open()
          "start", "acceptCreated", "acceptFailed",                  \* start()
          "stop", "kill", "terminate", "wait", "waiting", "killed",  \* stop()
          "close", "closeEngine", "closeClients", "closePipe",           \* close()
          "gone"}                                                    \* quit

GoTo(a, from, to) == pc[a] = from /\ pc' = [pc EXCEPT ![a] = to]

\* The process runs until a caller is through.
Running == \A a \in Callers : pc[a] # "gone"

Init ==
  /\ Tables!Init
  /\ Clock!Init
  /\ Acceptor!Init
  /\ serverState = "IDLE"
  /\ pc = [a \in Callers |-> "ready"]
  /\ leaving = FALSE
  /\ found = <<>>
  /\ inClose = [a \in Callers |-> FALSE]
  /\ target = [a \in Callers |-> Acceptor!Null]
  /\ session = [s \in Sessions |-> "none"]
  /\ number = [s \in Sessions |-> MaxClients]
  /\ given = [s \in Sessions |-> {}]
  /\ pipe = "none"
  /\ accepting = [t \in Acceptor!Threads |-> "binding"]
  /\ wiped = FALSE

-----------------------------------------------------------------------------
(* Commands: each looks at the state of the server before it calls it.     *)

StartCommand ==
  /\ serverState = "IDLE"
  /\ GoTo("console", "ready", "open")
  /\ UNCHANGED <<registry, clock, acceptor, serverState, console, killer, peers,
                 listener, wiped>>

\* The command without its switch over the state.
BadStopCommand ==
  /\ GoTo("console", "ready", "stop")
  /\ UNCHANGED <<registry, clock, acceptor, serverState, console, killer, peers,
                 listener, wiped>>

StopCommand ==
  /\ serverState = "RUNNING"
  /\ GoTo("console", "ready", "stop")
  /\ UNCHANGED <<registry, clock, acceptor, serverState, console, killer, peers,
                 listener, wiped>>

\* The only command that does not look at the state: connect_ports finds its
\* first port, of which it has a copy from then on.
ConnectCommand ==
  /\ GoTo("console", "ready", "connect")
  /\ Cardinality(connections) < MaxConnections
  /\ \E id \in DOMAIN ports : found' = <<ports[id]>>
  /\ UNCHANGED <<registry, clock, acceptor, serverState, leaving, killer, peers,
                 listener, wiped>>

\* And its second; a port that is not there is an exception, which the command
\* catches.
FindDestination ==
  /\ \/ /\ GoTo("console", "connect", "push")
        /\ \E id \in DOMAIN ports : found' = <<found[1], ports[id]>>
     \/ /\ GoTo("console", "connect", "ready")
        /\ found' = <<>>
  /\ UNCHANGED <<registry, clock, acceptor, serverState, leaving, killer, peers,
                 listener, wiped>>

\* The connection is looked for and added, of two ports that may be gone by
\* now.  Nobody else adds one.
Connect ==
  /\ GoTo("console", "push", "ready")
  /\ \/ Tables!PushConnection(found[1], found[2])
     \/ Tables!Connected(found[1], found[2]) /\ UNCHANGED registry
  /\ found' = <<>>
  /\ UNCHANGED <<clock, acceptor, serverState, leaving, killer, peers, listener,
                 wiped>>

\* The end of the scheduler: main closes the server and returns.
ExitCommand ==
  /\ GoTo("console", "ready", "close")
  /\ leaving' = TRUE
  /\ UNCHANGED <<registry, clock, acceptor, serverState, found, killer, peers,
                 listener, wiped>>

\* Ctrl-C, in any state of the server and at any point of a command.
CtrlC ==
  /\ "ctrl" \in Callers
  /\ GoTo("ctrl", "ready", "stop")
  /\ UNCHANGED <<registry, clock, acceptor, serverState, console, killer, peers,
                 listener, wiped>>

-----------------------------------------------------------------------------
(* open() and start(), called by the command line only                     *)

\* New records filled with -1, as add_client fills its two variables.
BadOpenTables(a) ==
  /\ GoTo(a, "open", "openEngine")
  /\ inputBufferMap' = [ref \in Tables!Refs |-> [ch \in Tables!Channels |-> -1]]
  /\ outputBufferMap' = inputBufferMap'
  /\ wiped' = (wiped \/ clients # {})
  /\ UNCHANGED <<activeRefs, clients, activeBuffers, activePorts, ports,
                 connections,
                 clock, acceptor, serverState, console, killer, peers, listener>>

\* Shared memory is made anew, all zero; the tables beside it stay.
OpenTables(a) ==
  /\ GoTo(a, "open", "openEngine")
  /\ inputBufferMap' = [ref \in Tables!Refs |-> [ch \in Tables!Channels |-> 0]]
  /\ outputBufferMap' = inputBufferMap'
  /\ wiped' = (wiped \/ clients # {})
  /\ UNCHANGED <<activeRefs, clients, activeBuffers, activePorts, ports,
                 connections,
                 clock, acceptor, serverState, console, killer, peers, listener>>

\* The clock starts with the opening of the engine; its status is dropped.
OpenEngine(a) ==
  /\ \/ GoTo(a, "openEngine", "clockCreated") /\ Clock!Create
     \/ GoTo(a, "openEngine", "start") /\ Clock!CreateFails
  /\ UNCHANGED <<registry, acceptor, serverState, console, killer, peers,
                 listener, wiped>>

EngineOpened(a) ==
  /\ GoTo(a, "clockCreated", "start")
  /\ Clock!StoreIdle
  /\ UNCHANGED <<registry, acceptor, serverState, console, killer, peers,
                 listener, wiped>>

Start(a) ==
  /\ \/ GoTo(a, "start", "acceptCreated") /\ Acceptor!Create
     \/ GoTo(a, "start", "acceptFailed") /\ Acceptor!CreateFails
  /\ serverState' = "STARTING"
  /\ UNCHANGED <<registry, clock, console, killer, peers, listener, wiped>>

\* RUNNING whatever became of the accept thread.
Started(a) ==
  /\ \/ GoTo(a, "acceptCreated", "ready") /\ Acceptor!StoreIdle
     \/ GoTo(a, "acceptFailed", "ready") /\ UNCHANGED acceptor
  /\ serverState' = "RUNNING"
  /\ UNCHANGED <<registry, clock, console, killer, peers, listener, wiped>>

-----------------------------------------------------------------------------
(* stop() and close()                                                      *)

\* stop() up to the kill() of the accept thread.
BeginStop(a, from) ==
  /\ GoTo(a, from, "kill")
  /\ serverState' = "STOPPING"
  /\ inClose' = [inClose EXCEPT ![a] = (from = "close")]
  /\ UNCHANGED <<registry, clock, acceptor, console, target, peers, listener,
                 wiped>>

\* The channel stopped by stop() of its thread.
BadStopChannel(a) ==
  /\ GoTo(a, "kill", "killed")
  /\ Acceptor!Stop
  /\ UNCHANGED <<registry, clock, serverState, console, killer, peers, listener,
                 wiped>>

\* The channel is stopped by kill() of its thread.
StopChannel(a) ==
  /\ \/ /\ GoTo(a, "kill", IF Acceptor!HasThread THEN "terminate" ELSE "killed")
        /\ UNCHANGED <<acceptor, target>>
     \/ /\ GoTo(a, "terminate", "wait")
        /\ Acceptor!Terminate
        /\ UNCHANGED target
     \/ /\ GoTo(a, "wait", "waiting")
        /\ target' = [target EXCEPT ![a] = acceptHandle]
        /\ UNCHANGED acceptor
     \/ /\ Acceptor!WaitIsOver(target[a])
        /\ GoTo(a, "waiting", "killed")
        /\ Acceptor!Forget
        /\ target' = [target EXCEPT ![a] = Acceptor!Null]
  /\ UNCHANGED <<registry, clock, serverState, console, inClose, peers, listener,
                 wiped>>

EndStop(a) ==
  /\ GoTo(a, "killed", IF inClose[a] THEN "closeEngine" ELSE "close")
  /\ serverState' = "IDLE"
  /\ inClose' = [inClose EXCEPT ![a] = FALSE]
  /\ UNCHANGED <<registry, clock, acceptor, console, target, peers, listener,
                 wiped>>

Stop(a) == BeginStop(a, "stop") \/ StopChannel(a) \/ EndStop(a)

\* close() stops the server only when it finds it RUNNING.
Close(a) ==
  \/ /\ serverState = "RUNNING"
     /\ BeginStop(a, "close")
  \/ /\ serverState # "RUNNING"
     /\ GoTo(a, "close", "closeEngine")
     /\ UNCHANGED <<registry, clock, acceptor, serverState, console, killer,
                    peers, listener, wiped>>

\* close() of the clock does no more than to stop it.
StopClock == Clock!Stop

CloseEngine(a) ==
  /\ GoTo(a, "closeEngine", "closeClients")
  /\ StopClock
  /\ UNCHANGED <<registry, acceptor, serverState, console, killer, peers,
                 listener, wiped>>

\* close() that gives back the reference numbers too, though their clients
\* are still connected.
BadCloseClients(a) ==
  /\ GoTo(a, "closeClients", "closePipe")
  /\ clients' = {}
  /\ activeRefs' = activeRefs \ clients
  /\ UNCHANGED <<inputBufferMap, outputBufferMap, activeBuffers, activePorts,
                 ports, connections, clock, acceptor, serverState, console,
                 killer, peers, listener, wiped>>

CloseClients(a) ==
  /\ GoTo(a, "closeClients", "closePipe")
  /\ clients' = {}
  /\ UNCHANGED <<activeRefs, inputBufferMap, outputBufferMap, activeBuffers,
                 activePorts,
                 ports, connections, clock, acceptor, serverState, console,
                 killer, peers, listener, wiped>>

\* Ctrl-C ends the process, and so does main after its close().
Through(a) == IF a = "ctrl" \/ leaving THEN "gone" ELSE "ready"

\* The handle is not set to invalid for posterity.
BadClosePipe(a) ==
  /\ GoTo(a, "closePipe", Through(a))
  /\ UNCHANGED <<registry, clock, acceptor, serverState, console, killer, peers,
                 listener, wiped>>

\* A client that was accepted last may be at the other end: it is cut off, a
\* registered one with its number and all.
ClosePipe(a) ==
  /\ GoTo(a, "closePipe", Through(a))
  /\ pipe' = "none"
  /\ session' = [s \in Sessions |->
                   IF s # pipe \/ session[s] = "closed" THEN session[s]
                   ELSE IF session[s] = "registered" THEN "severed" ELSE "closed"]
  /\ UNCHANGED <<registry, clock, acceptor, serverState, console, killer, number,
                 given, accepting, wiped>>

-----------------------------------------------------------------------------
(* The threads the server owns, and the clients                            *)

AcceptStep ==
  /\ \E t \in Acceptor!Threads : Acceptor!HandlerStep(t)
  /\ UNCHANGED <<registry, clock, serverState, pc, console, killer, peers,
                 listener, wiped>>

ClockStep ==
  /\ \E t \in Clock!Threads : Clock!HandlerStep(t)
  /\ UNCHANGED <<registry, acceptor, serverState, pc, console, killer, peers,
                 listener, wiped>>

\* execute() of the clock ends its thread when the state is not RUNNING.
ClockBreaks ==
  /\ clockState # "RUNNING"
  /\ \E t \in Clock!Threads : Clock!Break(t)
  /\ UNCHANGED <<registry, acceptor, serverState, pc, console, killer, peers,
                 listener, wiped>>

\* listenForClients: the handle of the last instance is overwritten.
Bind(t) ==
  /\ acceptPlace[t] = "looping" /\ accepting[t] = "binding"
  /\ pipe' = "free"
  /\ accepting' = [accepting EXCEPT ![t] = "waiting"]
  /\ UNCHANGED <<registry, clock, acceptor, serverState, pc, console, killer,
                 peers, wiped>>

\* waitAcceptClient: the handle is reset, or not if the client was there before
\* the thread began to wait.
Accept(t, s) ==
  /\ acceptPlace[t] = "looping" /\ accepting[t] = "waiting" /\ pipe = "free"
  /\ session[s] = "none"
  /\ session' = [session EXCEPT ![s] = "connected"]
  /\ accepting' = [accepting EXCEPT ![t] = s]
  /\ pipe' \in {"none", s}
  /\ UNCHANGED <<registry, clock, acceptor, serverState, pc, console, killer,
                 number, given, wiped>>

\* A client that goes away too soon ends the accept thread.
AcceptFails(t) ==
  /\ accepting[t] = "waiting"
  /\ Acceptor!Break(t)
  /\ UNCHANGED <<registry, clock, serverState, pc, console, killer, peers,
                 listener, wiped>>

\* addClient: the thread that serves the client is never ended by the server,
\* and there is none for a client whose accept thread was killed before this.
\* A client for which there is no thread to be had stays where it is for good.
AddConnection(t, s) ==
  /\ acceptPlace[t] = "looping" /\ accepting[t] = s
  /\ session' = [session EXCEPT ![s] = IF @ = "connected" THEN "accepted" ELSE @]
  /\ accepting' = [accepting EXCEPT ![t] = "binding"]
  /\ UNCHANGED <<registry, clock, acceptor, serverState, pc, console, killer,
                 number, given, pipe, wiped>>

Register(s) ==
  /\ session[s] = "accepted"
  /\ \E ref \in Tables!Refs :
       /\ Tables!AddClient(ref)
       /\ number' = [number EXCEPT ![s] = ref]
       /\ given' = [given EXCEPT ![s] = Tables!BuffersOf(ref)']
  /\ session' = [session EXCEPT ![s] = "registered"]
  /\ UNCHANGED <<clock, acceptor, serverState, pc, console, killer, listener,
                 wiped>>

Refuse(s) ==
  /\ session[s] = "accepted"
  /\ Tables!Refused
  /\ session' = [session EXCEPT ![s] = "closed"]
  /\ UNCHANGED <<registry, clock, acceptor, serverState, pc, console, killer,
                 number, given, listener, wiped>>

\* A number that is not in the map of clients changes nothing.
Unregister(s) ==
  /\ session[s] = "registered"
  /\ \/ Tables!CloseClient(number[s])
     \/ number[s] \notin clients /\ UNCHANGED registry
  /\ session' = [session EXCEPT ![s] = "closed"]
  /\ number' = [number EXCEPT ![s] = MaxClients]
  /\ given' = [given EXCEPT ![s] = {}]
  /\ UNCHANGED <<clock, acceptor, serverState, pc, console, killer, listener,
                 wiped>>

\* A client that was cut off ends without the server.
Leave(s) ==
  /\ session[s] = "severed"
  /\ session' = [session EXCEPT ![s] = "closed"]
  /\ number' = [number EXCEPT ![s] = MaxClients]
  /\ given' = [given EXCEPT ![s] = {}]
  /\ UNCHANGED <<registry, clock, acceptor, serverState, pc, console, killer,
                 listener, wiped>>

CallStep(a) ==
  \/ a = "console" /\ (FindDestination \/ Connect)
  \/ OpenTables(a) \/ OpenEngine(a) \/ EngineOpened(a) \/ Start(a) \/ Started(a)
  \/ Stop(a) \/ Close(a) \/ CloseEngine(a) \/ CloseClients(a) \/ ClosePipe(a)

Command == StartCommand \/ StopCommand \/ ConnectCommand \/ ExitCommand \/ CtrlC

Next ==
  /\ Running
  /\ \/ Command
     \/ \E a \in Callers : CallStep(a)
     \/ AcceptStep \/ ClockStep \/ ClockBreaks
     \/ \E t \in Acceptor!Threads :
          \/ Bind(t) \/ AcceptFails(t)
          \/ \E s \in Sessions : Accept(t, s) \/ AddConnection(t, s)
     \/ \E s \in Sessions : Register(s) \/ Refuse(s) \/ Unregister(s) \/ Leave(s)

\* The system schedules every thread, a step at a time.  Nobody has to give a
\* command, and no client has to do anything.
Fairness ==
  /\ \A a \in Callers : WF_vars(Running /\ CallStep(a))
  /\ WF_vars(Running /\ AcceptStep)
  /\ WF_vars(Running /\ \E t \in Acceptor!Threads : Bind(t))
  /\ WF_vars(Running /\ \E t \in Acceptor!Threads, s \in Sessions : AddConnection(t, s))
  /\ WF_vars(Running /\ ClockStep)
  /\ WF_vars(Running /\ ClockBreaks)

Spec == Init /\ [][Next]_vars /\ Fairness

-----------------------------------------------------------------------------
(* Properties                                                              *)

\* The tables, the threads and the callers keep their types through every
\* opening and closing.
LifecycleTypeOK ==
  /\ Tables!TypeOK
  /\ Clock!TypeOK
  /\ Acceptor!TypeOK
  /\ serverState \in States
  /\ pc \in [Callers -> Steps]
  /\ leaving \in BOOLEAN
  /\ found \in {<<>>} \cup {<<p>> : p \in Tables!Port}
                     \cup {<<p, q>> : p, q \in Tables!Port}
  /\ inClose \in [Callers -> BOOLEAN]
  /\ target \in [Callers -> Acceptor!Threads \cup {Acceptor!Null, Acceptor!Invalid}]
  /\ session \in [Sessions -> {"none", "connected", "accepted", "registered",
                              "severed", "closed"}]
  /\ number \in [Sessions -> 0 .. MaxClients]
  /\ given \in [Sessions -> SUBSET (0 .. Tables!MaxBuffers)]
  /\ pipe \in {"none", "free"} \cup Sessions
  /\ accepting \in [Acceptor!Threads -> {"binding", "waiting"} \cup Sessions]
  /\ wiped \in BOOLEAN

\* Who was answered a number and uses it still.
HasNumber(s) == session[s] \in {"registered", "severed"}

\* A client that closing the server forgot, or cut off, goes on with its number;
\* however often the server is closed and started under its clients, no two of
\* them have the same one.
NumbersStayOwn ==
  \A s, u \in Sessions :
    HasNumber(s) /\ HasNumber(u) /\ number[s] = number[u] => s = u

\* Whether the clock finds the records of both ends of a connection:
\* get_client_info gives it a null pointer for a number that is not taken.
Leads(conn) == {conn.source.client, conn.dest.client} \subseteq activeRefs

\* A connection that leads to two clients is never left to dangle: whoever goes,
\* with whatever close() forgot, and whatever copies the command line is about
\* to add, the connection goes with the first of its two clients.
RoutesStayWhole ==
  [][\A conn \in connections \cap connections' : Leads(conn) => Leads(conn)']_vars

\* No connection leads to a port that is gone, since connect_ports will "check
\* if ports exist" and remove_port will "remove all connections that contain
\* the port".
RoutesNeverDangle == \A conn \in connections : Leads(conn)

\* The ports of the patch bay stay those of the reference numbers in use: a
\* client that registers after a restart gets no port of one that outlived it.
PortsFollowNumbers ==
  /\ activePorts = Tables!Lots(Tables!Width, activeRefs)
  /\ DOMAIN ports = activePorts
  /\ \A id \in activePorts : ports[id].client = id \div Tables!Width

\* No two clients write the same buffer, in whatever order clients come and go
\* and the server is restarted, until it is opened while the map holds clients
\* that registered after the last close(): neither by the records of shared
\* memory, which are those of the clients in the map, nor by what each client
\* read there when it registered, also if the server has forgotten it since.
BuffersStayApart ==
  ~wiped =>
    /\ Tables!BuffersExclusive
    /\ \A s, u \in Sessions :
         HasNumber(s) /\ HasNumber(u) /\ s # u => given[s] \cap given[u] = {}

\* A stopped server accepts nobody, and a restarted one has one thread that
\* accepts: between commands the threads of the request channel are those of
\* the state, unless Ctrl-C is at work.
AcceptThreadFollowsServer ==
  (\A a \in Callers : pc[a] = "ready") =>
    /\ serverState = "IDLE" => Acceptor!Living = {}
    /\ \A t \in Acceptor!Living : t = acceptHandle

\* A stopped server leaves no instance of its pipe that a client could connect
\* to and wait at, wherever the accept thread was when it was killed, unless
\* Ctrl-C is at work.
StoppedServerIsClosed ==
  (\A a \in Callers : pc[a] = "ready") /\ serverState = "IDLE" => pipe = "none"

\* No command hangs: the command line always gets back to its prompt, since
\* its commands look at the state before they stop a thread.
CommandsFinish ==
  (pc["console"] # "ready") ~> (pc["console"] = "ready" \/ ~Running)

\* A thread that waits for a client to connect.
Listening(t) == acceptPlace[t] = "looping" /\ accepting[t] = "waiting"

\* Each thread that accepts comes to wait for clients, the second as well as the
\* first, after each client and whatever the state says that it shares with
\* start() and kill(), unless the server is stopped before that.
RunningServerListens ==
  \A t \in Acceptor!Threads :
    (Acceptor!Alive(t) /\ serverState = "RUNNING") ~>
      (Listening(t) \/ serverState # "RUNNING" \/ ~Running)

\* A thread of the clock whose clock was stopped comes to its end, as the
\* comment of execute() has it: "we'll break when the thread is no longer
\* running".
StoppedClockQuits ==
  \A t \in Clock!Threads :
    (Clock!Alive(t) /\ clockHandle = Clock!Null) ~> (~Clock!Alive(t) \/ ~Running)

=============================================================================
