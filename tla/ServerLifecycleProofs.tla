----------------------- MODULE ServerLifecycleProofs -----------------------
(***************************************************************************)
(* What survives the restarts of the server, for any number of clients and *)
(* of restarts, and what a command leaves behind.                          *)
(***************************************************************************)
EXTENDS ServerLifecycle, TLAPS

\* A client's number is taken, by that client alone, in the table of
\* numbers: the map of clients, which close() empties, plays no part.
NumbersTaken ==
  /\ session \in [Sessions -> {"none", "connected", "accepted", "registered",
                              "severed", "closed"}]
  /\ number \in [Sessions -> 0 .. MaxClients]
  /\ \A s \in Sessions : HasNumber(s) => number[s] \in activeRefs

NumbersInv == NumbersTaken /\ NumbersStayOwn

\* A step that takes no number and gives none back or out keeps them apart.
LEMMA NumbersKept ==
  ASSUME NumbersInv, UNCHANGED <<activeRefs, number>>,
         session' \in [Sessions -> {"none", "connected", "accepted", "registered",
                                   "severed", "closed"}],
         \A s \in Sessions : HasNumber(s)' => HasNumber(s)
  PROVE  NumbersInv'
  BY DEF NumbersInv, NumbersTaken, NumbersStayOwn, HasNumber

\* What a command, one of the server's own threads, or a call on the server
\* leaves alone, up to the closing of the pipe.
LEMMA ServerKeepsNumbers ==
  ASSUME \/ Command \/ AcceptStep \/ ClockStep \/ ClockBreaks
         \/ \E a \in Callers : CallStep(a) /\ ~ClosePipe(a)
  PROVE  UNCHANGED <<activeRefs, session, number, given>>
<1> USE DEF registry, peers
<1>1. CASE Command
  BY <1>1 DEF Command, StartCommand, StopCommand, ConnectCommand, ExitCommand, CtrlC
<1>2. ASSUME NEW a \in Callers, CallStep(a), ~ClosePipe(a)
      PROVE  UNCHANGED <<activeRefs, session, number, given>>
  <2>1. CASE OpenTables(a) \/ OpenEngine(a) \/ EngineOpened(a) \/ Start(a) \/ Started(a)
    BY <2>1 DEF OpenTables, OpenEngine, EngineOpened, Start, Started
  <2>2. CASE Stop(a) \/ Close(a)
    BY <2>2 DEF Stop, Close, BeginStop, StopChannel, EndStop
  <2>3. CASE CloseEngine(a) \/ CloseClients(a)
    BY <2>3 DEF CloseEngine, CloseClients
  <2>4. CASE FindDestination \/ Connect
    BY <2>4 DEF FindDestination, Connect, Tables!PushConnection
  <2> QED
    BY <1>2, <2>1, <2>2, <2>3, <2>4 DEF CallStep
<1>3. CASE AcceptStep \/ ClockStep \/ ClockBreaks
  BY <1>3 DEF AcceptStep, ClockStep, ClockBreaks
<1> QED
  BY <1>1, <1>2, <1>3

LEMMA NumbersInvStep ==
  ASSUME NumbersInv, [Next]_vars
  PROVE  NumbersInv'
<1> USE DEF NumbersInv, NumbersTaken, NumbersStayOwn, HasNumber
<1>1. CASE \/ Command \/ AcceptStep \/ ClockStep \/ ClockBreaks
           \/ \E a \in Callers : CallStep(a) /\ ~ClosePipe(a)
  <2>1. UNCHANGED <<activeRefs, session, number>>
    BY <1>1, ServerKeepsNumbers
  <2> QED
    BY <2>1
<1>2. ASSUME NEW a \in Callers, ClosePipe(a)
      PROVE  NumbersInv'
  BY <1>2, NumbersKept DEF ClosePipe, registry
<1>3. ASSUME NEW t \in Acceptor!Threads, Bind(t) \/ AcceptFails(t)
      PROVE  NumbersInv'
  BY <1>3 DEF Bind, AcceptFails, registry, peers
<1>4. ASSUME NEW t \in Acceptor!Threads, NEW s \in Sessions,
             Accept(t, s) \/ AddConnection(t, s)
      PROVE  NumbersInv'
  BY <1>4, NumbersKept DEF Accept, AddConnection, registry
<1>5. ASSUME NEW s \in Sessions, Register(s)
      PROVE  NumbersInv'
  <2>1. PICK ref \in Tables!Refs : Tables!AddClient(ref) /\ number' = [number EXCEPT ![s] = ref]
    BY <1>5 DEF Register
  <2>2. ref \notin activeRefs /\ activeRefs' = activeRefs \cup {ref}
    BY <2>1 DEF Tables!AddClient, Tables!IsFirstFree
  <2>3. session' = [session EXCEPT ![s] = "registered"]
    BY <1>5 DEF Register
  <2>4. ref \in 0 .. MaxClients
    BY TablesAssumption DEF Tables!Refs
  <2> QED
    BY <2>1, <2>2, <2>3, <2>4
<1>6. ASSUME NEW s \in Sessions, Refuse(s)
      PROVE  NumbersInv'
  BY <1>6 DEF Refuse, registry
<1>7. ASSUME NEW s \in Sessions, Unregister(s)
      PROVE  NumbersInv'
  <2>1. activeRefs \ {number[s]} \subseteq activeRefs'
    BY <1>7 DEF Unregister, registry, Tables!CloseClient
  <2>2. /\ session[s] = "registered"
        /\ session' = [session EXCEPT ![s] = "closed"]
        /\ number' = [number EXCEPT ![s] = MaxClients]
    BY <1>7 DEF Unregister
  <2>3. number' \in [Sessions -> 0 .. MaxClients]
    <3>1. MaxClients \in 0 .. MaxClients
      BY TablesAssumption
    <3> QED
      BY <2>2, <3>1
  <2>4. \A u \in Sessions : HasNumber(u)' =>
          u # s /\ HasNumber(u) /\ number'[u] = number[u]
    BY <2>2
  <2> QED
    BY <2>1, <2>2, <2>3, <2>4
<1>8. ASSUME NEW s \in Sessions, Leave(s)
      PROVE  NumbersInv'
  <2>1. /\ session' = [session EXCEPT ![s] = "closed"]
        /\ number' = [number EXCEPT ![s] = MaxClients]
        /\ UNCHANGED activeRefs
    BY <1>8 DEF Leave, registry
  <2>2. MaxClients \in 0 .. MaxClients
    BY TablesAssumption
  <2>3. \A u \in Sessions : HasNumber(u)' =>
          u # s /\ HasNumber(u) /\ number'[u] = number[u]
    BY <2>1
  <2> QED
    BY <2>1, <2>2, <2>3
<1>9. CASE UNCHANGED vars
  BY <1>9 DEF vars, registry, peers
<1> QED
  BY <1>1, <1>2, <1>3, <1>4, <1>5, <1>6, <1>7, <1>8, <1>9 DEF Next, CallStep

\* However often the server is closed and started again under its clients, no
\* two of its clients ever have the same number.
THEOREM NumbersStayOwnForEver == Spec => []NumbersStayOwn
<1>1. Init => NumbersInv
  BY TablesAssumption DEF Init, NumbersInv, NumbersTaken, NumbersStayOwn, HasNumber
<1>2. NumbersInv /\ [Next]_vars => NumbersInv'
  BY NumbersInvStep
<1>3. NumbersInv => NumbersStayOwn
  BY DEF NumbersInv
<1> QED
  BY <1>1, <1>2, <1>3, PTL DEF Spec

-----------------------------------------------------------------------------
(* The callers of the server                                               *)

\* The end of close(), and the steps of stop().
Closing == {"closeEngine", "closeClients", "closePipe"}
Stopping == {"kill", "terminate", "wait", "waiting", "killed"}

CallersInv ==
  /\ pc \in [Callers -> Steps]
  /\ "ctrl" \in Callers =>
       pc["ctrl"] \in {"ready", "stop", "close", "gone"} \cup Stopping \cup Closing

\* A call goes on from one of its steps to another; that of Ctrl-C is a stop(),
\* and never gets back to the prompt, and no other call gets into connect_ports.
LEMMA CallMoves ==
  ASSUME CallersInv, NEW a \in Callers, CallStep(a)
  PROVE  \E to \in Steps :
           /\ pc' = [pc EXCEPT ![a] = to]
           /\ a = "ctrl" => to \in {"close", "gone"} \cup Stopping \cup Closing
           /\ FindDestination \/ to \notin {"connect", "push"}
<1> USE CallersAssumption DEF CallersInv, Closing, Stopping, Steps, GoTo
<1>0. CASE a = "console" /\ (FindDestination \/ Connect)
  BY <1>0 DEF FindDestination, Connect
<1>1. CASE OpenTables(a) \/ OpenEngine(a) \/ EngineOpened(a) \/ Start(a) \/ Started(a)
  BY <1>1 DEF OpenTables, OpenEngine, EngineOpened, Start, Started
<1>2. CASE Stop(a) \/ Close(a)
  BY <1>2 DEF Stop, Close, BeginStop, StopChannel, EndStop
<1>3. CASE CloseEngine(a) \/ CloseClients(a) \/ ClosePipe(a)
  BY <1>3 DEF CloseEngine, CloseClients, ClosePipe, Through
<1> QED
  BY <1>0, <1>1, <1>2, <1>3 DEF CallStep

\* What moves no caller: the threads of the server and the clients.
ThreadOrClient ==
  \/ AcceptStep \/ ClockStep \/ ClockBreaks
  \/ \E t \in Acceptor!Threads :
       \/ Bind(t) \/ AcceptFails(t)
       \/ \E s \in Sessions : Accept(t, s) \/ AddConnection(t, s)
  \/ \E s \in Sessions : Register(s) \/ Refuse(s) \/ Unregister(s) \/ Leave(s)

\* Ctrl-C calls stop() and close() only.
LEMMA CallersInvStep ==
  ASSUME CallersInv, [Next]_vars
  PROVE  CallersInv'
<1> USE CallersAssumption
<1>1. CASE Command
  <2>1. \/ pc' = pc
        \/ \E to \in {"open", "stop", "connect", "close"} : pc' = [pc EXCEPT !["console"] = to]
        \/ "ctrl" \in Callers /\ pc' = [pc EXCEPT !["ctrl"] = "stop"]
    BY <1>1 DEF Command, StartCommand, StopCommand, ConnectCommand, ExitCommand, CtrlC, GoTo
  <2> QED
    BY <2>1 DEF CallersInv, Steps
<1>2. ASSUME NEW a \in Callers, CallStep(a) PROVE CallersInv'
  BY <1>2, CallMoves DEF CallersInv
<1>3. CASE ThreadOrClient
  <2>1. pc' = pc
    BY <1>3 DEF ThreadOrClient, AcceptStep, ClockStep, ClockBreaks, Bind, AcceptFails,
                Accept, AddConnection, Register, Refuse, Unregister, Leave
  <2> QED
    BY <2>1 DEF CallersInv
<1>4. CASE UNCHANGED vars
  BY <1>4 DEF vars, CallersInv
<1> QED
  BY <1>1, <1>2, <1>3, <1>4 DEF Next, ThreadOrClient

\* The two callers are always at steps of their own calls.
LEMMA CallersInvariant == Spec => []CallersInv
<1>1. Init => CallersInv
  BY DEF Init, CallersInv, Steps
<1>2. CallersInv /\ [Next]_vars => CallersInv'
  BY CallersInvStep
<1> QED
  BY <1>1, <1>2, PTL DEF Spec

-----------------------------------------------------------------------------
(* The ports and the connections                                           *)

Ports == INSTANCE ClientRegistryProofs

\* The tables of the server and those that the theorems of ClientRegistryProofs
\* are about are two instances of one module: their operations agree.
LEMMA SameTables ==
  /\ Ports!Refs = Tables!Refs
  /\ Ports!Init <=> Tables!Init
  /\ \A ref : Tables!AddClient(ref) => Ports!AddClient(ref)
  /\ \A ref : Tables!CloseClient(ref) => Ports!CloseClient(ref)
  /\ \A p, q : Tables!PushConnection(p, q) => Ports!PushConnection(p, q)
<1>0. ASSUME NEW S PROVE Tables!Cardinality(S) = Ports!Cardinality(S)
  BY DEF Tables!Cardinality, Ports!Cardinality
<1>1. Ports!Refs = Tables!Refs
  BY DEF Ports!Refs, Tables!Refs
<1>2. Ports!Init <=> Tables!Init
  BY DEF Ports!Init, Tables!Init, Ports!Refs, Tables!Refs, Ports!Channels, Tables!Channels
<1>3. ASSUME NEW ref PROVE Tables!AddClient(ref) => Ports!AddClient(ref)
  <2>1. ASSUME NEW active, NEW max, NEW id
        PROVE  Tables!Rank(active, max, id) = Ports!Rank(active, max, id)
    BY <1>0 DEF Tables!Rank, Ports!Rank, Tables!FreeIds, Ports!FreeIds
  <2>2. ASSUME NEW active, NEW max, NEW n
        PROVE  Tables!Take(active, max, n) = Ports!Take(active, max, n)
    BY <2>1 DEF Tables!Take, Ports!Take, Tables!FreeIds, Ports!FreeIds
  <2>3. ASSUME NEW active, NEW max, NEW k
        PROVE  Tables!Nth(active, max, k) = Ports!Nth(active, max, k)
    BY <2>1 DEF Tables!Nth, Ports!Nth, Tables!FreeIds, Ports!FreeIds
  <2>4. ASSUME NEW id PROVE Tables!NewPort(ref, id) = Ports!NewPort(ref, id)
    BY <2>1 DEF Tables!NewPort, Ports!NewPort, Tables!MaxPorts, Ports!MaxPorts
  <2>5. Tables!NewPorts = Ports!NewPorts
    BY <2>2 DEF Tables!NewPorts, Ports!NewPorts, Tables!MaxPorts, Ports!MaxPorts
  <2>6. Tables!IsFirstFree(activeRefs, ref) <=> Ports!IsFirstFree(activeRefs, ref)
    BY DEF Tables!IsFirstFree, Ports!IsFirstFree
  <2> QED
    BY <2>2, <2>3, <2>4, <2>5, <2>6
       DEF Tables!AddClient, Ports!AddClient, Tables!Channels, Ports!Channels,
           Tables!MaxBuffers, Ports!MaxBuffers
<1>4. ASSUME NEW ref PROVE Tables!CloseClient(ref) => Ports!CloseClient(ref)
  BY DEF Tables!CloseClient, Ports!CloseClient, Tables!BuffersOf, Ports!BuffersOf,
         Tables!Channels, Ports!Channels, Tables!RemovedPorts, Ports!RemovedPorts,
         Tables!IsFound, Ports!IsFound, Tables!SamePort, Ports!SamePort,
         Tables!Touches, Ports!Touches
<1>5. ASSUME NEW p, NEW q PROVE Tables!PushConnection(p, q) => Ports!PushConnection(p, q)
  <2>1. Tables!Connected(p, q) <=> Ports!Connected(p, q)
    BY DEF Tables!Connected, Ports!Connected, Tables!SamePort, Ports!SamePort
  <2> QED
    BY <2>1, <1>0 DEF Tables!PushConnection, Ports!PushConnection
<1> QED
  BY <1>1, <1>2, <1>3, <1>4, <1>5

\* Apart from the three operations on clients and connections the server
\* touches the records in shared memory and the map of clients at most: a
\* close() empties the map, an open() makes the records anew, and notes it when
\* there are clients.
LEMMA ServerTouchesTables ==
  ASSUME [Next]_vars,
         ~Connect,
         ~\E s \in Sessions : Register(s),
         ~\E ref : Tables!CloseClient(ref)
  PROVE  /\ UNCHANGED <<activeRefs, activeBuffers, activePorts, ports, connections>>
         /\ \/ /\ clients' = clients \/ clients' = {}
               /\ UNCHANGED <<inputBufferMap, outputBufferMap, wiped>>
            \/ /\ clients' = clients
               /\ inputBufferMap' = [r \in Tables!Refs |-> [ch \in Tables!Channels |-> 0]]
               /\ outputBufferMap' = [r \in Tables!Refs |-> [ch \in Tables!Channels |-> 0]]
               /\ wiped' = (wiped \/ clients # {})
<1> USE DEF registry
<1>1. CASE Command
  BY <1>1 DEF Command, StartCommand, StopCommand, ConnectCommand, ExitCommand, CtrlC
<1>2. ASSUME NEW a \in Callers, OpenTables(a)
      PROVE  /\ UNCHANGED <<activeRefs, activeBuffers, activePorts, ports, connections>>
             /\ clients' = clients
             /\ inputBufferMap' = [r \in Tables!Refs |-> [ch \in Tables!Channels |-> 0]]
             /\ outputBufferMap' = [r \in Tables!Refs |-> [ch \in Tables!Channels |-> 0]]
             /\ wiped' = (wiped \/ clients # {})
  BY <1>2 DEF OpenTables
<1>3. ASSUME NEW a \in Callers, CallStep(a), ~OpenTables(a)
      PROVE  /\ UNCHANGED <<activeRefs, activeBuffers, activePorts, ports, connections>>
             /\ clients' = clients \/ clients' = {}
             /\ UNCHANGED <<inputBufferMap, outputBufferMap, wiped>>
  <2>1. CASE OpenEngine(a) \/ EngineOpened(a) \/ Start(a) \/ Started(a)
    BY <2>1 DEF OpenEngine, EngineOpened, Start, Started
  <2>2. CASE Stop(a) \/ Close(a)
    BY <2>2 DEF Stop, Close, BeginStop, StopChannel, EndStop
  <2>3. CASE CloseEngine(a) \/ CloseClients(a) \/ ClosePipe(a)
    BY <2>3 DEF CloseEngine, CloseClients, ClosePipe
  <2>4. CASE FindDestination
    BY <2>4 DEF FindDestination
  <2> QED
    BY <1>3, <2>1, <2>2, <2>3, <2>4 DEF CallStep
<1>4. CASE AcceptStep \/ ClockStep \/ ClockBreaks
  BY <1>4 DEF AcceptStep, ClockStep, ClockBreaks
<1>5. ASSUME NEW t \in Acceptor!Threads,
             \/ Bind(t) \/ AcceptFails(t)
             \/ \E s \in Sessions : Accept(t, s) \/ AddConnection(t, s)
      PROVE  UNCHANGED <<registry, wiped>>
  BY <1>5 DEF Bind, AcceptFails, Accept, AddConnection
<1>6. ASSUME NEW s \in Sessions, Refuse(s) \/ Unregister(s) \/ Leave(s)
      PROVE  UNCHANGED <<registry, wiped>>
  BY <1>6 DEF Refuse, Unregister, Leave
<1>7. CASE UNCHANGED vars
  BY <1>7 DEF vars
<1> QED
  BY <1>1, <1>2, <1>3, <1>4, <1>5, <1>6, <1>7 DEF Next

\* What connect_ports has in its hands are copies of ports, which may be gone.
CopiesInv ==
  /\ pc["console"] = "connect" => \E p : Ports!IsCopy(p) /\ found = <<p>>
  /\ pc["console"] = "push" =>
       \E p, q : Ports!IsCopy(p) /\ Ports!IsCopy(q) /\ found = <<p, q>>
  /\ pc["console"] \notin {"connect", "push"} => found = <<>>

PatchInv == Ports!PortsInv /\ CallersInv /\ CopiesInv

\* Nothing but the steps of connect_ports itself begins or ends a call of it.
LEMMA CopiesKept ==
  ASSUME CallersInv, [Next]_vars, ~ConnectCommand, ~FindDestination, ~Connect
  PROVE  /\ found' = found
         /\ \/ pc'["console"] = pc["console"]
            \/ {pc["console"], pc'["console"]} \cap {"connect", "push"} = {}
<1> USE CallersAssumption DEF console
<1>1. CASE Command
  BY <1>1 DEF Command, StartCommand, StopCommand, ExitCommand, CtrlC, GoTo, CallersInv
<1>2. ASSUME NEW a \in Callers, CallStep(a)
      PROVE  /\ found' = found
             /\ \/ pc'["console"] = pc["console"]
                \/ {pc["console"], pc'["console"]} \cap {"connect", "push"} = {}
  <2> USE DEF GoTo, CallersInv
  <2>1. CASE OpenTables(a) \/ OpenEngine(a) \/ EngineOpened(a) \/ Start(a) \/ Started(a)
    BY <2>1 DEF OpenTables, OpenEngine, EngineOpened, Start, Started
  <2>2. CASE Stop(a) \/ Close(a)
    BY <2>2 DEF Stop, Close, BeginStop, StopChannel, EndStop
  <2>3. CASE CloseEngine(a) \/ CloseClients(a) \/ ClosePipe(a)
    BY <2>3 DEF CloseEngine, CloseClients, ClosePipe, Through
  <2> QED
    BY <1>2, <2>1, <2>2, <2>3 DEF CallStep
<1>3. CASE ThreadOrClient
  BY <1>3 DEF ThreadOrClient, AcceptStep, ClockStep, ClockBreaks, Bind, AcceptFails,
              Accept, AddConnection, Register, Refuse, Unregister, Leave
<1>4. CASE UNCHANGED vars
  BY <1>4 DEF vars
<1> QED
  BY <1>1, <1>2, <1>3, <1>4 DEF Next, ThreadOrClient

\* The two lookups of connect_ports copy ports that are in the map; the push
\* lets go of the copies.
LEMMA CopiesInvStep ==
  ASSUME PatchInv, [Next]_vars
  PROVE  CopiesInv'
<1> USE CallersAssumption DEF CopiesInv, PatchInv, CallersInv, GoTo
<1>0. Ports!SizesAssumption
  BY TablesAssumption DEF Ports!SizesAssumption
<1>1. CASE ConnectCommand
  <2>1. PICK id \in DOMAIN ports : found' = <<ports[id]>>
    BY <1>1 DEF ConnectCommand
  <2>2. Ports!IsCopy(ports[id])
    BY <1>0, Ports!PortOfNumber
  <2>3. pc'["console"] = "connect"
    BY <1>1 DEF ConnectCommand
  <2> QED
    BY <2>1, <2>2, <2>3 DEF Ports!IsCopy, Ports!Refs, Ports!Lot, Ports!Width, Ports!LotPort
<1>2. CASE FindDestination
  <2>1. ASSUME NEW id \in DOMAIN ports, pc["console"] = "connect",
               pc'["console"] = "push", found' = <<found[1], ports[id]>>
        PROVE  CopiesInv'
    <3>1. PICK p : Ports!IsCopy(p) /\ found = <<p>>
      BY <2>1
    <3>2. Ports!IsCopy(ports[id])
      BY <1>0, Ports!PortOfNumber
    <3>3. found' = <<p, ports[id]>>
      BY <2>1, <3>1
    <3>4. \E a, b : Ports!IsCopy(a) /\ Ports!IsCopy(b) /\ found' = <<a, b>>
      BY <3>1, <3>2, <3>3
    <3> QED
      BY <2>1, <3>4
         DEF Ports!IsCopy, Ports!Refs, Ports!Lot, Ports!Width, Ports!LotPort
  <2>2. ASSUME pc'["console"] = "ready", found' = <<>> PROVE CopiesInv'
    BY <2>2
  <2> QED
    BY <1>2, <2>1, <2>2 DEF FindDestination
<1>3. CASE Connect
  BY <1>3 DEF Connect
<1>4. CASE ~ConnectCommand /\ ~FindDestination /\ ~Connect
  <2>1. /\ found' = found
        /\ \/ pc'["console"] = pc["console"]
           \/ {pc["console"], pc'["console"]} \cap {"connect", "push"} = {}
    BY <1>4, CopiesKept
  <2> QED
    BY <2>1 DEF Ports!IsCopy, Ports!Refs, Ports!Lot, Ports!Width, Ports!LotPort
<1> QED
  BY <1>1, <1>2, <1>3, <1>4

\* A connection that is pushed is one of copies of ports.
LEMMA PushedCopies ==
  ASSUME CopiesInv, Connect
  PROVE  \/ \E p, q : /\ Ports!IsCopy(p) /\ Ports!IsCopy(q)
                      /\ Ports!PushConnection(p, q)
         \/ UNCHANGED registry
<1>1. PICK p, q : Ports!IsCopy(p) /\ Ports!IsCopy(q) /\ found = <<p, q>>
  BY DEF CopiesInv, Connect, GoTo
<1>2. Tables!PushConnection(p, q) \/ UNCHANGED registry
  BY <1>1 DEF Connect
<1> QED
  BY <1>1, <1>2, SameTables

\* Every step of the server keeps the ports those of the numbers in use.
LEMMA PortsInvStep ==
  ASSUME PatchInv, [Next]_vars
  PROVE  Ports!PortsInv'
<1> USE DEF PatchInv
<1>0. Ports!SizesAssumption
  BY TablesAssumption DEF Ports!SizesAssumption
<1>1. ASSUME NEW s \in Sessions, Register(s) PROVE Ports!PortsInv'
  <2>1. PICK ref \in Ports!Refs : Ports!AddClient(ref)
    BY <1>1, SameTables DEF Register
  <2> QED
    BY <1>0, <2>1, Ports!AddKeepsPorts
<1>2. ASSUME NEW ref, Tables!CloseClient(ref) PROVE Ports!PortsInv'
  <2>1. Ports!CloseClient(ref)
    BY <1>2, SameTables
  <2>2. ref \in Ports!Refs
    BY <1>2 DEF Tables!CloseClient, Ports!PortsInv
  <2> QED
    BY <1>0, <2>1, <2>2, Ports!CloseKeepsPorts
<1>3. ASSUME UNCHANGED <<activeRefs, activePorts, ports, connections>>,
             clients' = clients \/ clients' = {}
      PROVE  Ports!PortsInv'
  BY <1>0, <1>3, Ports!PortsKept
<1>4. CASE Connect
  <2>1. ASSUME NEW p, NEW q, Ports!IsCopy(p), Ports!IsCopy(q), Ports!PushConnection(p, q)
        PROVE  Ports!PortsInv'
    BY <1>0, <2>1, Ports!PushKeepsPorts
  <2>2. ASSUME UNCHANGED registry PROVE Ports!PortsInv'
    BY <1>3, <2>2 DEF registry
  <2> QED
    BY <1>4, <2>1, <2>2, PushedCopies
<1> QED
  BY <1>1, <1>2, <1>3, <1>4, ServerTouchesTables

\* A server that was not opened has no port and nobody who calls it.
LEMMA InitPatch == Init => PatchInv
<1>1. Init => Ports!PortsInv
  BY DEF Init, Tables!Init, Ports!PortsInv, Ports!Lots
<1>2. Init => CallersInv /\ CopiesInv
  BY CallersAssumption DEF Init, CallersInv, CopiesInv, Steps
<1> QED
  BY <1>1, <1>2 DEF PatchInv

\* Through every restart: closing the server forgets the clients, but not one
\* of the tables without the other.
LEMMA PatchInvariant == Spec => []PatchInv
<1>1. Init => PatchInv
  BY InitPatch
<1>2. PatchInv /\ [Next]_vars => PatchInv'
  BY PortsInvStep, CopiesInvStep, CallersInvStep DEF PatchInv
<1> QED
  BY <1>1, <1>2, PTL DEF Spec

\* The ports are those of the reference numbers in use, also for clients that a
\* closed server has forgotten: nobody gets a port of one of them.
THEOREM PortsFollowNumbersForEver == Spec => []PortsFollowNumbers
<1>1. PatchInv => PortsFollowNumbers
  <2>1. Tables!Lots(Tables!Width, activeRefs) = Ports!Lots(Ports!Width, activeRefs)
    BY DEF Tables!Lots, Ports!Lots, Tables!Lot, Ports!Lot, Tables!Width, Ports!Width
  <2>2. Tables!Width = Ports!Width
    BY DEF Tables!Width, Ports!Width
  <2>3. Ports!SizesAssumption
    BY TablesAssumption DEF Ports!SizesAssumption
  <2> QED
    BY <2>1, <2>2, <2>3, Ports!PortsInvGives DEF PortsFollowNumbers, PatchInv
<1> QED
  BY <1>1, PatchInvariant, PTL

\* A connection that has a client with a number at each end never comes to
\* dangle: a client that goes takes its connections with it, those that were
\* made of copies of its ports included, also from a server that was closed and
\* opened since.  One that is pushed after a close_client may dangle from the
\* start.
THEOREM RoutesStayWholeForEver == Spec => RoutesStayWhole
<1> DEFINE Whole == \A conn \in connections \cap connections' : Leads(conn) => Leads(conn)'
<1>1. ASSUME PatchInv, [Next]_vars PROVE Whole
  <2> USE DEF Leads
  <2>1. ASSUME NEW s \in Sessions, Register(s) PROVE Whole
    <3>1. activeRefs \subseteq activeRefs'
      BY <2>1 DEF Register, Tables!AddClient
    <3> QED
      BY <3>1
  <2>2. ASSUME NEW ref, Tables!CloseClient(ref) PROVE Whole
    <3>0. ref \in clients
      BY <2>2 DEF Tables!CloseClient
    <3>1. Ports!CloseClient(ref) /\ ref \in Ports!Refs /\ Ports!PortsInv
      BY <1>1, <2>2, <3>0, SameTables DEF PatchInv, Ports!PortsInv
    <3>2. \A conn \in connections' : conn.source.client # ref /\ conn.dest.client # ref
      BY <3>1, TablesAssumption, Ports!CloseTakesConnections DEF Ports!SizesAssumption
    <3>3. activeRefs' = activeRefs \ {ref}
      BY <2>2 DEF Tables!CloseClient
    <3> QED
      BY <3>2, <3>3
  <2>3. CASE Connect
    BY <2>3 DEF Connect, Tables!PushConnection, registry
  <2>4. CASE UNCHANGED activeRefs
    BY <2>4
  <2> QED
    BY <1>1, <2>1, <2>2, <2>3, <2>4, ServerTouchesTables
<1>2. PatchInv /\ [Next]_vars => [Whole]_vars
  BY <1>1
<1> QED
  BY <1>2, PatchInvariant, PTL DEF Spec, RoutesStayWhole

-----------------------------------------------------------------------------
(* Types                                                                   *)

\* The types of the two instances are the same.
LEMMA SameTypes ==
  /\ Tables!TypeOK <=> Ports!TypeOK
  /\ Tables!TypeOK' <=> Ports!TypeOK'
BY DEF Tables!TypeOK, Ports!TypeOK, Tables!Refs, Ports!Refs, Tables!BufferMaps,
       Ports!BufferMaps, Tables!Channels, Ports!Channels, Tables!MaxBuffers,
       Ports!MaxBuffers, Tables!BufferIds, Ports!BufferIds, Tables!PortIds,
       Ports!PortIds, Tables!MaxPorts, Ports!MaxPorts, Tables!Port, Ports!Port,
       Tables!Connection, Ports!Connection

\* A copy of a port is a port.
LEMMA CopiesArePorts ==
  ASSUME NEW p, Ports!IsCopy(p)
  PROVE  p \in Tables!Port /\ p \in Ports!Port
<1>0. Ports!SizesAssumption
  BY TablesAssumption DEF Ports!SizesAssumption
<1>1. p \in Ports!Port
  BY <1>0, Ports!PortOfLot DEF Ports!IsCopy
<1> QED
  BY <1>1 DEF Tables!Port, Ports!Port, Tables!PortIds, Ports!PortIds, Tables!MaxPorts,
              Ports!MaxPorts, Tables!Refs, Ports!Refs, Tables!Channels, Ports!Channels

\* The tables of a server keep their types, forgotten clients or not.
LEMMA TablesKeepTypes ==
  ASSUME Tables!TypeOK, PatchInv, [Next]_vars
  PROVE  Tables!TypeOK'
<1>0. Ports!SizesAssumption /\ Ports!TypeOK /\ (Ports!TypeOK' => Tables!TypeOK')
  BY TablesAssumption, SameTypes DEF Ports!SizesAssumption
<1>1. ASSUME NEW s \in Sessions, Register(s) PROVE Ports!TypeOK'
  <2>1. PICK ref \in Ports!Refs : Ports!AddClient(ref)
    BY <1>1, SameTables DEF Register
  <2> QED
    BY <1>0, <2>1, Ports!AddKeepsTypes
<1>2. ASSUME NEW ref, Tables!CloseClient(ref) PROVE Ports!TypeOK'
  BY <1>0, <1>2, SameTables, Ports!OthersKeepTypes
<1>4. CASE Connect
  <2>1. ASSUME NEW p, NEW q, Ports!IsCopy(p), Ports!IsCopy(q), Ports!PushConnection(p, q)
        PROVE  Ports!TypeOK'
    BY <1>0, <2>1, CopiesArePorts, Ports!OthersKeepTypes
  <2>2. CASE UNCHANGED registry
    BY <1>0, <2>2 DEF registry, Ports!TypeOK
  <2> QED
    BY <1>0, <1>4, <2>1, <2>2, PushedCopies DEF PatchInv
<1>3. ASSUME ~Connect,
             ~\E s \in Sessions : Register(s),
             ~\E ref : Tables!CloseClient(ref)
      PROVE  Ports!TypeOK'
  <2>1. /\ UNCHANGED <<activeRefs, activePorts, ports, connections, activeBuffers>>
        /\ clients' \subseteq clients
        /\ \/ UNCHANGED <<inputBufferMap, outputBufferMap>>
           \/ /\ inputBufferMap' = [r \in Tables!Refs |-> [ch \in Tables!Channels |-> 0]]
              /\ outputBufferMap' = [r \in Tables!Refs |-> [ch \in Tables!Channels |-> 0]]
    BY <1>3, ServerTouchesTables
  <2>2. 0 \in 0 .. Ports!MaxBuffers
    BY <1>0, Ports!Sizes
  <2>3. inputBufferMap' \in Ports!BufferMaps /\ outputBufferMap' \in Ports!BufferMaps
    <3>1. inputBufferMap \in Ports!BufferMaps /\ outputBufferMap \in Ports!BufferMaps
      BY <1>0 DEF Ports!TypeOK
    <3>2. [r \in Tables!Refs |-> [ch \in Tables!Channels |-> 0]] \in Ports!BufferMaps
      BY <2>2 DEF Ports!BufferMaps, Tables!Refs, Ports!Refs, Tables!Channels, Ports!Channels
    <3> QED
      BY <2>1, <3>1, <3>2
  <2> QED
    BY <1>0, <2>1, <2>3, Ports!OthersKeepTypes
<1> QED
  BY <1>0, <1>1, <1>2, <1>3, <1>4

\* The types of what is not in the tables: the threads and callers, and what
\* the server knows of its clients; that of found is a part of PatchInv.
ThreadTypes ==
  /\ Clock!TypeOK
  /\ Acceptor!TypeOK
  /\ serverState \in States
  /\ pc \in [Callers -> Steps]
  /\ leaving \in BOOLEAN
  /\ inClose \in [Callers -> BOOLEAN]
  /\ target \in [Callers -> Acceptor!Threads \cup {Acceptor!Null, Acceptor!Invalid}]
  /\ wiped \in BOOLEAN

SessionKinds == {"none", "connected", "accepted", "registered", "severed", "closed"}

PeerTypes ==
  /\ session \in [Sessions -> SessionKinds]
  /\ number \in [Sessions -> 0 .. MaxClients]
  /\ given \in [Sessions -> SUBSET (0 .. Tables!MaxBuffers)]
  /\ pipe \in {"none", "free"} \cup Sessions
  /\ accepting \in [Acceptor!Threads -> {"binding", "waiting"} \cup Sessions]

\* Every operation of a Thread keeps its fields what they are.
LEMMA ClockOperations ==
  ASSUME Clock!TypeOK,
         \/ Clock!Create \/ Clock!CreateFails \/ Clock!StoreIdle \/ Clock!Stop
         \/ \E t \in Clock!Threads : Clock!HandlerStep(t) \/ Clock!Break(t)
         \/ UNCHANGED clock
  PROVE  Clock!TypeOK'
BY DEF Clock!TypeOK, Clock!Create, Clock!CreateFails, Clock!StoreIdle, Clock!Stop,
       Clock!HandlerStep, Clock!Initialize, Clock!Run, Clock!Break, Clock!Goto,
       Clock!Places, clock

\* The same of the request channel's, which is killed and never stopped.
LEMMA AcceptorOperations ==
  ASSUME Acceptor!TypeOK,
         \/ Acceptor!Create \/ Acceptor!CreateFails \/ Acceptor!StoreIdle
         \/ Acceptor!Terminate \/ Acceptor!Forget
         \/ \E t \in Acceptor!Threads : Acceptor!HandlerStep(t) \/ Acceptor!Break(t)
         \/ UNCHANGED acceptor
  PROVE  Acceptor!TypeOK'
BY DEF Acceptor!TypeOK, Acceptor!Create, Acceptor!CreateFails, Acceptor!StoreIdle,
       Acceptor!Terminate, Acceptor!Forget, Acceptor!HandlerStep, Acceptor!Initialize, Acceptor!Run,
       Acceptor!Break, Acceptor!Goto, Acceptor!Places, acceptor

\* No step takes a thread, a caller or a handle out of its type.
LEMMA ThreadTypesStep ==
  ASSUME ThreadTypes, [Next]_vars
  PROVE  ThreadTypes'
<1> USE CallersAssumption DEF ThreadTypes, console, killer
<1>1. CASE Command
  BY <1>1, ClockOperations, AcceptorOperations
     DEF Command, StartCommand, StopCommand, ConnectCommand, ExitCommand, CtrlC, GoTo,
         Steps
<1>2. ASSUME NEW a \in Callers, CallStep(a) PROVE ThreadTypes'
  <2> USE DEF GoTo, Steps, States
  <2>1. CASE OpenTables(a) \/ OpenEngine(a) \/ EngineOpened(a)
    BY <2>1, ClockOperations, AcceptorOperations DEF OpenTables, OpenEngine, EngineOpened
  <2>2. CASE Start(a) \/ Started(a)
    BY <2>2, ClockOperations, AcceptorOperations DEF Start, Started
  <2>3. CASE Stop(a) \/ Close(a)
        <3>1. ASSUME NEW from, BeginStop(a, from) PROVE ThreadTypes'
      BY <3>1, ClockOperations, AcceptorOperations DEF BeginStop
    <3>2. ASSUME StopChannel(a) PROVE ThreadTypes'
      <4>1. acceptHandle \in Acceptor!Threads \cup {Acceptor!Null, Acceptor!Invalid}
        BY DEF Acceptor!TypeOK
      <4>2. Acceptor!TypeOK'
        BY <3>2, AcceptorOperations DEF StopChannel
      <4>3. target' \in [Callers -> Acceptor!Threads \cup {Acceptor!Null, Acceptor!Invalid}]
        BY <3>2, <4>1 DEF StopChannel
      <4>4. \E to \in Steps : pc' = [pc EXCEPT ![a] = to]
        BY <3>2 DEF StopChannel
      <4> QED
        BY <3>2, <4>2, <4>3, <4>4, ClockOperations DEF StopChannel
    <3>3. ASSUME EndStop(a) PROVE ThreadTypes'
      BY <3>3, ClockOperations, AcceptorOperations DEF EndStop
    <3>4. ASSUME GoTo(a, "close", "closeEngine"),
                 UNCHANGED <<clock, acceptor, serverState, leaving, killer, wiped>>
          PROVE  ThreadTypes'
      BY <3>4, ClockOperations, AcceptorOperations
    <3> QED
      BY <2>3, <3>1, <3>2, <3>3, <3>4 DEF Stop, Close
  <2>4. CASE CloseEngine(a) \/ CloseClients(a) \/ ClosePipe(a)
    BY <2>4, ClockOperations, AcceptorOperations
       DEF CloseEngine, CloseClients, ClosePipe, StopClock, Through
  <2>5. CASE a = "console" /\ (FindDestination \/ Connect)
    BY <2>5, ClockOperations, AcceptorOperations DEF FindDestination, Connect
  <2> QED
    BY <1>2, <2>1, <2>2, <2>3, <2>4, <2>5 DEF CallStep
<1>3. CASE AcceptStep \/ ClockStep \/ ClockBreaks
  BY <1>3, ClockOperations, AcceptorOperations DEF AcceptStep, ClockStep, ClockBreaks
<1>4. ASSUME NEW t \in Acceptor!Threads,
             \/ Bind(t) \/ AcceptFails(t)
             \/ \E s \in Sessions : Accept(t, s) \/ AddConnection(t, s)
      PROVE  ThreadTypes'
  BY <1>4, ClockOperations, AcceptorOperations DEF Bind, AcceptFails, Accept, AddConnection
<1>5. ASSUME NEW s \in Sessions, Register(s) \/ Refuse(s) \/ Unregister(s) \/ Leave(s)
      PROVE  ThreadTypes'
  BY <1>5, ClockOperations, AcceptorOperations DEF Register, Refuse, Unregister, Leave
<1>6. CASE UNCHANGED vars
  BY <1>6, ClockOperations, AcceptorOperations DEF vars
<1> QED
  BY <1>1, <1>2, <1>3, <1>4, <1>5, <1>6 DEF Next

\* What the server knows of its clients keeps its type; a number is one of the
\* table, or the size of the table for none.
LEMMA PeerTypesStep ==
  ASSUME PeerTypes, Tables!TypeOK', [Next]_vars
  PROVE  PeerTypes'
<1> USE DEF PeerTypes, SessionKinds, peers, listener
<1>0. MaxClients \in 0 .. MaxClients /\ Tables!Refs \subseteq 0 .. MaxClients
  BY TablesAssumption DEF Tables!Refs
<1>1. CASE Command \/ AcceptStep \/ ClockStep \/ ClockBreaks
  BY <1>1 DEF Command, StartCommand, StopCommand, ConnectCommand, ExitCommand, CtrlC,
              AcceptStep, ClockStep, ClockBreaks
<1>2. ASSUME NEW a \in Callers, CallStep(a) PROVE PeerTypes'
  <2>1. CASE OpenTables(a) \/ OpenEngine(a) \/ EngineOpened(a) \/ Start(a) \/ Started(a)
    BY <2>1 DEF OpenTables, OpenEngine, EngineOpened, Start, Started
  <2>2. CASE Stop(a) \/ Close(a)
    BY <2>2 DEF Stop, Close, BeginStop, StopChannel, EndStop
  <2>3. CASE CloseEngine(a) \/ CloseClients(a)
    BY <2>3 DEF CloseEngine, CloseClients
  <2>4. CASE ClosePipe(a)
    BY <2>4 DEF ClosePipe
  <2>5. CASE FindDestination \/ Connect
    BY <2>5 DEF FindDestination, Connect
  <2> QED
    BY <1>2, <2>1, <2>2, <2>3, <2>4, <2>5 DEF CallStep
<1>3. ASSUME NEW t \in Acceptor!Threads, Bind(t) \/ AcceptFails(t) PROVE PeerTypes'
  BY <1>3 DEF Bind, AcceptFails
<1>4. ASSUME NEW t \in Acceptor!Threads, NEW s \in Sessions,
             Accept(t, s) \/ AddConnection(t, s)
      PROVE  PeerTypes'
  BY <1>4 DEF Accept, AddConnection
<1>5. ASSUME NEW s \in Sessions, Refuse(s) \/ Unregister(s) \/ Leave(s)
      PROVE  PeerTypes'
  BY <1>0, <1>5 DEF Refuse, Unregister, Leave
<1>6. ASSUME NEW s \in Sessions, Register(s) PROVE PeerTypes'
  <2>1. PICK ref \in Tables!Refs : /\ number' = [number EXCEPT ![s] = ref]
                                   /\ given' = [given EXCEPT ![s] = Tables!BuffersOf(ref)']
    BY <1>6 DEF Register
  <2>2. inputBufferMap' \in Tables!BufferMaps /\ outputBufferMap' \in Tables!BufferMaps
    BY DEF Tables!TypeOK, Tables!BufferMaps, Tables!Refs, Tables!Channels, Tables!MaxBuffers
  <2>3. Tables!BuffersOf(ref)' \subseteq 0 .. Tables!MaxBuffers
    BY <2>2 DEF Tables!BuffersOf, Tables!BufferMaps
  <2>4. session' = [session EXCEPT ![s] = "registered"] /\ UNCHANGED listener
    BY <1>6 DEF Register
  <2> QED
    BY <1>0, <2>1, <2>3, <2>4
<1>7. CASE UNCHANGED vars
  BY <1>7 DEF vars
<1> QED
  BY <1>1, <1>2, <1>3, <1>4, <1>5, <1>6, <1>7 DEF Next

\* The tables, threads and callers of a server keep their types through every
\* opening and closing, whatever the clients do meanwhile.
THEOREM LifecycleTypeCorrect == Spec => []LifecycleTypeOK
<1> DEFINE TypesInv == Tables!TypeOK /\ ThreadTypes /\ PeerTypes
<1>1. TypesInv /\ PatchInv => LifecycleTypeOK
  <2> SUFFICES ASSUME TypesInv, PatchInv PROVE LifecycleTypeOK
    OBVIOUS
  <2>1. found \in {<<>>} \cup {<<p>> : p \in Tables!Port}
                       \cup {<<p, q>> : p, q \in Tables!Port}
    BY CopiesArePorts DEF PatchInv, CopiesInv
  <2> QED
    BY <2>1 DEF LifecycleTypeOK, ThreadTypes, PeerTypes, SessionKinds
<1>2. Init => TypesInv
  <2> SUFFICES ASSUME Init PROVE TypesInv
    OBVIOUS
  <2>1. Tables!TypeOK
    <3>1. Ports!SizesAssumption
      BY TablesAssumption DEF Ports!SizesAssumption
    <3> QED
      BY <3>1, SameTables, SameTypes, Ports!InitIInv DEF Init, Ports!IInv
  <2>2. ThreadTypes
    BY DEF Init, ThreadTypes, Clock!Init, Clock!TypeOK, Clock!Places, Acceptor!Init,
           Acceptor!TypeOK, Acceptor!Places, States, Steps
  <2>3. PeerTypes
    BY TablesAssumption DEF Init, PeerTypes, SessionKinds
  <2> QED
    BY <2>1, <2>2, <2>3
<1>3. TypesInv /\ PatchInv /\ [Next]_vars => TypesInv'
  BY TablesKeepTypes, ThreadTypesStep, PeerTypesStep
<1> HIDE DEF TypesInv
<1> QED
  BY <1>1, <1>2, <1>3, PatchInvariant, PTL DEF Spec

-----------------------------------------------------------------------------
(* The buffers                                                             *)

\* The history is never forgotten.
LEMMA WipedStays ==
  ASSUME [Next]_vars, wiped
  PROVE  wiped'
<1>1. CASE Command
  BY <1>1 DEF Command, StartCommand, StopCommand, ConnectCommand, ExitCommand, CtrlC
<1>2. ASSUME NEW a \in Callers, CallStep(a) PROVE wiped'
  <2>1. CASE OpenTables(a) \/ OpenEngine(a) \/ EngineOpened(a) \/ Start(a) \/ Started(a)
    BY <2>1 DEF OpenTables, OpenEngine, EngineOpened, Start, Started
  <2>2. CASE Stop(a) \/ Close(a)
    BY <2>2 DEF Stop, Close, BeginStop, StopChannel, EndStop
  <2>3. CASE CloseEngine(a) \/ CloseClients(a) \/ ClosePipe(a)
    BY <2>3 DEF CloseEngine, CloseClients, ClosePipe
  <2>4. CASE FindDestination \/ Connect
    BY <2>4 DEF FindDestination, Connect
  <2> QED
    BY <1>2, <2>1, <2>2, <2>3, <2>4 DEF CallStep
<1>3. CASE AcceptStep \/ ClockStep \/ ClockBreaks
  BY <1>3 DEF AcceptStep, ClockStep, ClockBreaks
<1>4. ASSUME NEW t \in Acceptor!Threads,
             \/ Bind(t) \/ AcceptFails(t)
             \/ \E s \in Sessions : Accept(t, s) \/ AddConnection(t, s)
      PROVE  wiped'
  BY <1>4 DEF Bind, AcceptFails, Accept, AddConnection
<1>5. ASSUME NEW s \in Sessions, Register(s) \/ Refuse(s) \/ Unregister(s) \/ Leave(s)
      PROVE  wiped'
  BY <1>5 DEF Register, Refuse, Unregister, Leave
<1>6. CASE UNCHANGED vars
  BY <1>6 DEF vars
<1> QED
  BY <1>1, <1>2, <1>3, <1>4, <1>5, <1>6 DEF Next

\* Until an open() makes new records over those of clients, the records and the
\* buffers change with a client that comes or goes.
LEMMA ServerKeepsBuffers ==
  ASSUME [Next]_vars, ~wiped',
         ~\E s \in Sessions : Register(s),
         ~\E ref : Tables!CloseClient(ref)
  PROVE  /\ ~wiped
         /\ UNCHANGED <<activeRefs, activeBuffers>>
         /\ \/ /\ clients' \subseteq clients
               /\ UNCHANGED <<inputBufferMap, outputBufferMap>>
            \/ /\ clients' = {}
               /\ inputBufferMap' = [r \in Tables!Refs |-> [ch \in Tables!Channels |-> 0]]
               /\ outputBufferMap' = [r \in Tables!Refs |-> [ch \in Tables!Channels |-> 0]]
<1>1. CASE Connect
  <2>1. UNCHANGED <<activeRefs, activeBuffers, clients, inputBufferMap, outputBufferMap>>
    BY <1>1 DEF Connect, Tables!PushConnection, registry
  <2> QED
    BY <2>1, WipedStays
<1> QED
  BY <1>1, WipedStays, ServerTouchesTables

\* As long as open() has not made new records over those of clients, every step
\* keeps each client's records those of its own lot.
LEMMA BuffersInvStep ==
  ASSUME Ports!PortsInv, ~wiped => Ports!BuffersInv, [Next]_vars
  PROVE  ~wiped' => Ports!BuffersInv'
<1> SUFFICES ASSUME ~wiped' PROVE Ports!BuffersInv'
  OBVIOUS
<1>0. Ports!SizesAssumption
  BY TablesAssumption DEF Ports!SizesAssumption
<1>1. ASSUME NEW s \in Sessions, Register(s) PROVE Ports!BuffersInv'
  <2>1. PICK ref \in Ports!Refs : Ports!AddClient(ref)
    BY <1>1, SameTables DEF Register
  <2>2. Ports!BuffersInv
    BY <1>1 DEF Register
  <2> QED
    BY <1>0, <2>1, <2>2, Ports!AddKeepsBuffers
<1>2. ASSUME NEW ref, Tables!CloseClient(ref) PROVE Ports!BuffersInv'
  <2>1. Ports!CloseClient(ref) /\ ref \in Ports!Refs
    BY <1>2, SameTables DEF Tables!CloseClient, Ports!PortsInv
  <2>2. CASE wiped
    BY <2>2, WipedStays
  <2>3. CASE ~wiped
    BY <1>0, <2>1, <2>3, Ports!CloseKeepsBuffers
  <2> QED
    BY <2>2, <2>3
<1>3. ASSUME ~\E s \in Sessions : Register(s), ~\E ref : Tables!CloseClient(ref)
      PROVE  Ports!BuffersInv'
  <2>1. Tables!Refs = Ports!Refs /\ Tables!Channels = Ports!Channels
    BY DEF Tables!Refs, Ports!Refs, Tables!Channels, Ports!Channels
  <2> QED
    BY <1>0, <1>3, <2>1, ServerKeepsBuffers, Ports!BuffersKept
<1> QED
  BY <1>1, <1>2, <1>3

\* What each client that holds a number was given is the lot of the number.
GivenInv ==
  \A s \in Sessions : HasNumber(s) => given[s] = Ports!Lot(Ports!Width, number[s])

\* Who has a number after a step other than its registration had it before.
LEMMA PeersKept ==
  ASSUME LifecycleTypeOK, [Next]_vars, NEW u \in Sessions, HasNumber(u)', ~Register(u)
  PROVE  HasNumber(u) /\ number'[u] = number[u] /\ given'[u] = given[u]
<1> USE DEF HasNumber, LifecycleTypeOK, peers
<1>1. CASE \/ Command \/ AcceptStep \/ ClockStep \/ ClockBreaks
           \/ \E a \in Callers : CallStep(a) /\ ~ClosePipe(a)
  <2>1. UNCHANGED <<session, number, given>>
    BY <1>1, ServerKeepsNumbers
  <2> QED
    BY <2>1
<1>2. ASSUME NEW a \in Callers, ClosePipe(a)
      PROVE  HasNumber(u) /\ number'[u] = number[u] /\ given'[u] = given[u]
  BY <1>2 DEF ClosePipe
<1>3. ASSUME NEW t \in Acceptor!Threads, Bind(t) \/ AcceptFails(t)
      PROVE  HasNumber(u) /\ number'[u] = number[u] /\ given'[u] = given[u]
  BY <1>3 DEF Bind, AcceptFails
<1>4. ASSUME NEW t \in Acceptor!Threads, NEW s \in Sessions,
             Accept(t, s) \/ AddConnection(t, s)
      PROVE  HasNumber(u) /\ number'[u] = number[u] /\ given'[u] = given[u]
  BY <1>4 DEF Accept, AddConnection
<1>5. ASSUME NEW s \in Sessions, s # u, Register(s)
      PROVE  HasNumber(u) /\ number'[u] = number[u] /\ given'[u] = given[u]
  BY <1>5 DEF Register
<1>6. ASSUME NEW s \in Sessions, Refuse(s) \/ Unregister(s) \/ Leave(s)
      PROVE  HasNumber(u) /\ number'[u] = number[u] /\ given'[u] = given[u]
  BY <1>6 DEF Refuse, Unregister, Leave
<1>7. CASE UNCHANGED vars
  BY <1>7 DEF vars
<1> QED
  BY <1>1, <1>2, <1>3, <1>4, <1>5, <1>6, <1>7 DEF Next, CallStep

\* A client is given its lot when it registers, and keeps it.
LEMMA GivenInvStep ==
  ASSUME LifecycleTypeOK, Ports!PortsInv, ~wiped => Ports!BuffersInv /\ GivenInv,
         [Next]_vars
  PROVE  ~wiped' => GivenInv'
<1> SUFFICES ASSUME ~wiped', NEW u \in Sessions, HasNumber(u)'
             PROVE  given'[u] = Ports!Lot(Ports!Width, number'[u])
  BY DEF GivenInv, Ports!Lot, Ports!Width
<1>0. Ports!BuffersInv /\ GivenInv
  BY WipedStays
<1>1. CASE Register(u)
  <2>1. PICK ref \in Tables!Refs : /\ Tables!AddClient(ref)
                                   /\ number' = [number EXCEPT ![u] = ref]
                                   /\ given' = [given EXCEPT ![u] = Tables!BuffersOf(ref)']
    BY <1>1 DEF Register
  <2>2. Ports!BuffersOf(ref)' = Ports!Lot(Ports!Width, ref)
    BY <1>0, <2>1, SameTables, TablesAssumption, Ports!NewClientHasLot
       DEF Ports!SizesAssumption
  <2>3. Tables!BuffersOf(ref)' = Ports!BuffersOf(ref)'
    BY DEF Tables!BuffersOf, Ports!BuffersOf, Tables!Channels, Ports!Channels
  <2> QED
    BY <2>1, <2>2, <2>3 DEF LifecycleTypeOK
<1>2. CASE ~Register(u)
  BY <1>0, <1>2, PeersKept DEF GivenInv
<1> QED
  BY <1>1, <1>2

\* No two clients write the same buffer, through every stop and restart, until
\* open() makes new records while the map holds clients: the records of the
\* clients in the map are disjoint, and so is what each client that holds a
\* number was given, those that a closed server has forgotten included.
THEOREM BuffersApartForEver == Spec => []BuffersStayApart
<1>0. Ports!SizesAssumption
  BY TablesAssumption DEF Ports!SizesAssumption
<1> DEFINE I == /\ PatchInv /\ NumbersInv
                /\ ~wiped => Ports!BuffersInv /\ GivenInv
<1>1. Init => I
  <2>1. Init => Ports!BuffersInv
    BY <1>0, SameTables, Ports!InitBuffers DEF Init
  <2>2. Init => GivenInv /\ NumbersInv
    BY TablesAssumption
       DEF Init, GivenInv, NumbersInv, NumbersTaken, NumbersStayOwn, HasNumber
  <2>3. Init => PatchInv
    BY InitPatch
  <2> QED
    BY <2>1, <2>2, <2>3
<1>2. LifecycleTypeOK /\ I /\ [Next]_vars => I'
  <2> SUFFICES ASSUME LifecycleTypeOK, I, [Next]_vars PROVE I'
    OBVIOUS
  <2>1. PatchInv' /\ NumbersInv'
    BY PortsInvStep, CopiesInvStep, CallersInvStep, NumbersInvStep DEF PatchInv
  <2>2. ~wiped' => Ports!BuffersInv'
    BY BuffersInvStep DEF PatchInv
  <2>3. ~wiped' => GivenInv'
    BY GivenInvStep DEF PatchInv
  <2> QED
    BY <2>1, <2>2, <2>3
<1>3. I => BuffersStayApart
  <2> SUFFICES ASSUME I, ~wiped PROVE BuffersStayApart
    BY DEF BuffersStayApart
  <2>0. Ports!PortsInv /\ Ports!BuffersInv /\ GivenInv /\ NumbersInv
    BY DEF PatchInv
  <2>1. Tables!BuffersExclusive
    <3>1. Ports!BuffersExclusive
      BY <1>0, <2>0, Ports!BuffersInvGives
    <3> QED
      BY <3>1 DEF Tables!BuffersExclusive, Ports!BuffersExclusive, Tables!Lanes, Ports!Lanes,
                  Tables!BufferAt, Ports!BufferAt, Tables!Channels, Ports!Channels
  <2>2. ASSUME NEW s \in Sessions, NEW u \in Sessions, HasNumber(s), HasNumber(u), s # u,
               NEW id, id \in given[s], id \in given[u]
        PROVE  FALSE
    <3>1. /\ number[s] # number[u]
          /\ number[s] \in Ports!Refs /\ number[u] \in Ports!Refs
      BY <2>0, <2>2 DEF NumbersInv, NumbersTaken, NumbersStayOwn, Ports!PortsInv
    <3>2. id \in Ports!Lot(Ports!Width, number[s]) /\ id \in Ports!Lot(Ports!Width, number[u])
      BY <2>0, <2>2 DEF GivenInv
    <3>3. Ports!Width \in Nat /\ number[s] \in Nat /\ number[u] \in Nat
      BY <3>1, TablesAssumption DEF Ports!Width, Ports!Refs
    <3> QED
      BY <3>1, <3>2, <3>3, TablesAssumption, Ports!LotsDisjoint
  <2> QED
    BY <2>1, <2>2 DEF BuffersStayApart
<1> HIDE DEF I
<1> QED
  BY <1>1, <1>2, <1>3, LifecycleTypeCorrect, PTL DEF Spec

-----------------------------------------------------------------------------
(* The accept thread and the pipe between the commands                     *)

\* Ctrl-C has not been pressed; once it has, its caller never is ready again.
Undisturbed == "ctrl" \in Callers => pc["ctrl"] = "ready"

\* Where the command line is when the server is stopped, and where it has
\* nothing to do with the state.
Stopped == {"open", "openEngine", "clockCreated", "start"}
AtPrompt == {"ready", "connect", "push"}

\* The accept thread by the step of the command line.
AcceptInv ==
  LET p == pc["console"] IN
  /\ Acceptor!Living \subseteq {acceptHandle}
  /\ p \in AtPrompt \cup {"close"} =>
       \/ serverState = "RUNNING"
       \/ serverState = "IDLE" /\ Acceptor!Living = {}
  /\ p \in Stopped \cup Closing => serverState = "IDLE" /\ Acceptor!Living = {}
  /\ p \in {"acceptFailed", "wait", "waiting", "killed"} => Acceptor!Living = {}

\* The pipe is taken down before the command line is back at its prompt.
PipeInv ==
  pc["console"] \in Stopped \cup AtPrompt /\ serverState = "IDLE" => pipe = "none"

LifeInv ==
  /\ CallersInv
  /\ Undisturbed => AcceptInv /\ PipeInv

\* They leave the callers and the server alone, and of the accept threads they
\* end one or let it go on; an instance of the pipe is made by a thread that
\* lives.
LEMMA ThreadsAndClientsOnly ==
  ASSUME ThreadOrClient, acceptPlace \in [Acceptor!Threads -> Acceptor!Places]
  PROVE  /\ UNCHANGED <<pc, serverState, acceptHandle>>
         /\ acceptPlace' \in [Acceptor!Threads -> Acceptor!Places]
         /\ Acceptor!Living' \subseteq Acceptor!Living
         /\ pipe' # pipe => Acceptor!Living # {}
<1> USE DEF Acceptor!Living, Acceptor!Alive, Acceptor!Places, acceptor, listener, peers
<1>1. CASE AcceptStep
  BY <1>1 DEF AcceptStep, Acceptor!HandlerStep, Acceptor!Initialize, Acceptor!Run,
              Acceptor!Goto
<1>2. CASE ClockStep \/ ClockBreaks
  BY <1>2 DEF ClockStep, ClockBreaks
<1>3. ASSUME NEW t \in Acceptor!Threads, Bind(t)
      PROVE  /\ UNCHANGED <<pc, serverState, acceptor>>
             /\ Acceptor!Living # {}
  BY <1>3 DEF Bind
<1>4. ASSUME NEW t \in Acceptor!Threads, AcceptFails(t)
      PROVE  /\ UNCHANGED <<pc, serverState, acceptHandle, pipe>>
             /\ acceptPlace' = [acceptPlace EXCEPT ![t] = "ended"]
  BY <1>4 DEF AcceptFails, Acceptor!Break, Acceptor!Goto
<1>5. ASSUME NEW t \in Acceptor!Threads, NEW s \in Sessions,
             Accept(t, s) \/ AddConnection(t, s)
      PROVE  /\ UNCHANGED <<pc, serverState, acceptor>>
             /\ Acceptor!Living # {}
  BY <1>5 DEF Accept, AddConnection
<1>6. ASSUME NEW s \in Sessions, Register(s) \/ Refuse(s) \/ Unregister(s) \/ Leave(s)
      PROVE  UNCHANGED <<pc, serverState, acceptor, pipe>>
  BY <1>6 DEF Register, Refuse, Unregister, Leave
<1> QED
  BY <1>1, <1>2, <1>3, <1>4, <1>5, <1>6 DEF ThreadOrClient

\* A step after which Ctrl-C has not been pressed is none of its steps.
LEMMA StepsUndisturbed ==
  ASSUME CallersInv, [Next]_vars, Undisturbed'
  PROVE  /\ Undisturbed
         /\ \/ StartCommand \/ StopCommand \/ ConnectCommand \/ ExitCommand
            \/ CallStep("console") \/ ThreadOrClient \/ UNCHANGED vars
<1> USE CallersAssumption
<1>1. CASE StartCommand \/ StopCommand \/ ConnectCommand \/ ExitCommand
  BY <1>1 DEF StartCommand, StopCommand, ConnectCommand, ExitCommand, GoTo, Undisturbed,
              CallersInv
<1>2. CASE CtrlC
  BY <1>2 DEF CtrlC, GoTo, Undisturbed, CallersInv
<1>3. ASSUME NEW a \in Callers, CallStep(a) PROVE Undisturbed /\ a = "console"
  BY <1>3, CallMoves DEF Undisturbed, CallersInv, Closing, Stopping
<1>4. CASE ThreadOrClient
  <2>1. pc' = pc
    BY <1>4 DEF ThreadOrClient, AcceptStep, ClockStep, ClockBreaks, Bind, AcceptFails,
                Accept, AddConnection, Register, Refuse, Unregister, Leave
  <2> QED
    BY <1>4, <2>1 DEF Undisturbed
<1>5. CASE UNCHANGED vars
  BY <1>5 DEF vars, Undisturbed
<1> QED
  BY <1>1, <1>2, <1>3, <1>4, <1>5 DEF Next, Command, ThreadOrClient

\* The accept thread lives as long as the server runs, step by step of the
\* command line: it is created with the server STARTING, and the kill() of a
\* stop finds the only one that there is.
LEMMA AcceptInvStep ==
  ASSUME LifecycleTypeOK, LifeInv, [Next]_vars, Undisturbed'
  PROVE  AcceptInv'
<1>0. AcceptInv /\ pc \in [Callers -> Steps] /\ "console" \in Callers
  BY StepsUndisturbed, CallersAssumption DEF LifeInv, CallersInv
<1>1. CASE UNCHANGED <<pc, serverState, acceptHandle>>
           /\ Acceptor!Living' \subseteq Acceptor!Living
  BY <1>0, <1>1 DEF AcceptInv
<1>2. CASE StartCommand \/ StopCommand \/ ConnectCommand \/ ExitCommand
  <2>1. UNCHANGED <<acceptor, serverState>> /\ Acceptor!Living' = Acceptor!Living
    BY <1>2 DEF StartCommand, StopCommand, ConnectCommand, ExitCommand, acceptor,
                Acceptor!Living, Acceptor!Alive
  <2> QED
    BY <1>0, <1>2, <2>1
       DEF AcceptInv, StartCommand, StopCommand, ConnectCommand, ExitCommand, GoTo,
           Stopped, AtPrompt, Closing, acceptor
<1>3. CASE CallStep("console")
  <2> USE <1>0 DEF AcceptInv, GoTo, Stopped, AtPrompt, Closing
  <2>1. CASE \/ OpenTables("console") \/ OpenEngine("console") \/ EngineOpened("console")
             \/ CloseEngine("console") \/ CloseClients("console")
    <3>1. UNCHANGED <<acceptor, serverState>> /\ Acceptor!Living' = Acceptor!Living
      BY <2>1 DEF OpenTables, OpenEngine, EngineOpened, CloseEngine, CloseClients,
                  acceptor, Acceptor!Living, Acceptor!Alive
    <3> QED
      BY <2>1, <3>1 DEF OpenTables, OpenEngine, EngineOpened, CloseEngine, CloseClients,
                        acceptor
  <2>2. CASE ClosePipe("console")
    <3>1. UNCHANGED <<acceptor, serverState>> /\ Acceptor!Living' = Acceptor!Living
      BY <2>2 DEF ClosePipe, acceptor, Acceptor!Living, Acceptor!Alive
    <3>2. pc["console"] = "closePipe" /\ pc'["console"] \in {"gone", "ready"}
      BY <2>2 DEF ClosePipe, Through
    <3> QED
      BY <3>1, <3>2 DEF acceptor
  <2>3. CASE Start("console")
    <3>1. Acceptor!Living = {}
      BY <2>3 DEF Start
    <3>2. CASE Acceptor!CreateFails /\ pc' = [pc EXCEPT !["console"] = "acceptFailed"]
      BY <3>1, <3>2 DEF Acceptor!CreateFails, Acceptor!Living, Acceptor!Alive
    <3>3. CASE Acceptor!Create /\ pc' = [pc EXCEPT !["console"] = "acceptCreated"]
      <4>1. PICK t \in Acceptor!Threads :
               acceptHandle' = t /\ acceptPlace' = [acceptPlace EXCEPT ![t] = "created"]
        BY <3>3 DEF Acceptor!Create, Acceptor!Goto
      <4>2. Acceptor!Living' \subseteq {t}
        BY <3>1, <4>1 DEF LifecycleTypeOK, Acceptor!TypeOK, Acceptor!Living, Acceptor!Alive
      <4> QED
        BY <3>3, <4>1, <4>2
    <3> QED
      BY <2>3, <3>2, <3>3 DEF Start
  <2>4. CASE Started("console")
    <3>1. /\ UNCHANGED <<acceptHandle, acceptPlace>> /\ serverState' = "RUNNING"
          /\ pc' = [pc EXCEPT !["console"] = "ready"]
      BY <2>4 DEF Started, Acceptor!StoreIdle, acceptor
    <3> QED
      BY <3>1 DEF Acceptor!Living, Acceptor!Alive
  <2>5. CASE Stop("console") \/ Close("console")
    <3>1. ASSUME NEW from, BeginStop("console", from) PROVE AcceptInv'
      BY <3>1 DEF BeginStop, acceptor, Acceptor!Living, Acceptor!Alive
    <3>2. CASE StopChannel("console")
      <4>1. CASE /\ pc["console"] = "kill" /\ UNCHANGED acceptor
                 /\ pc' = [pc EXCEPT !["console"] =
                            IF Acceptor!HasThread THEN "terminate" ELSE "killed"]
        <5>1. ~Acceptor!HasThread => Acceptor!Living = {}
          BY DEF Acceptor!HasThread, Acceptor!Living, Acceptor!Threads, Acceptor!Null
        <5>2. Acceptor!Living' = Acceptor!Living /\ acceptHandle' = acceptHandle
          BY <4>1 DEF acceptor, Acceptor!Living, Acceptor!Alive
        <5> QED
          BY <4>1, <5>1, <5>2
      <4>2. CASE /\ pc' = [pc EXCEPT !["console"] = "wait"] /\ Acceptor!Terminate
        <5>1. Acceptor!Living' = {}
          BY <4>2 DEF Acceptor!Terminate, Acceptor!Living, Acceptor!Alive
        <5> QED
          BY <4>2, <5>1
      <4>3. CASE /\ pc["console"] \in {"wait", "waiting"}
                 /\ pc' \in {[pc EXCEPT !["console"] = to] : to \in {"waiting", "killed"}}
                 /\ UNCHANGED acceptPlace
        BY <4>3 DEF Acceptor!Living, Acceptor!Alive
      <4> QED
        BY <3>2, <4>1, <4>2, <4>3 DEF StopChannel, Acceptor!Forget, acceptor
    <3>3. CASE EndStop("console")
      <4>1. /\ pc["console"] = "killed" /\ serverState' = "IDLE" /\ UNCHANGED acceptor
            /\ pc' \in {[pc EXCEPT !["console"] = to] : to \in {"close", "closeEngine"}}
        BY <3>3 DEF EndStop
      <4> QED
        BY <4>1 DEF acceptor, Acceptor!Living, Acceptor!Alive
    <3>4. ASSUME UNCHANGED <<acceptor, serverState>>,
                 pc["console"] = "close", serverState # "RUNNING",
                 pc' = [pc EXCEPT !["console"] = "closeEngine"]
          PROVE  AcceptInv'
      BY <3>4 DEF acceptor, Acceptor!Living, Acceptor!Alive
    <3> QED
      BY <2>5, <3>1, <3>2, <3>3, <3>4 DEF Stop, Close
  <2>6. CASE FindDestination \/ Connect
    <3>1. /\ pc["console"] \in AtPrompt /\ UNCHANGED <<acceptor, serverState>>
          /\ pc' \in {[pc EXCEPT !["console"] = to] : to \in AtPrompt}
      BY <2>6 DEF FindDestination, Connect
    <3> QED
      BY <3>1 DEF acceptor, Acceptor!Living, Acceptor!Alive
  <2> QED
    BY <1>3, <2>1, <2>2, <2>3, <2>4, <2>5, <2>6 DEF CallStep
<1>4. CASE ThreadOrClient
  BY <1>1, <1>4, ThreadsAndClientsOnly DEF LifecycleTypeOK, Acceptor!TypeOK
<1>5. CASE UNCHANGED vars
  BY <1>1, <1>5 DEF vars, acceptor, Acceptor!Living, Acceptor!Alive
<1> QED
  BY <1>2, <1>3, <1>4, <1>5, StepsUndisturbed DEF LifeInv

\* No thread lives that could make an instance of the pipe when the server is
\* stopped, and every close() ends with the one that is left.
LEMMA PipeInvStep ==
  ASSUME LifecycleTypeOK, LifeInv, [Next]_vars, Undisturbed'
  PROVE  PipeInv'
<1>0. AcceptInv /\ PipeInv /\ pc \in [Callers -> Steps] /\ "console" \in Callers
  BY StepsUndisturbed, CallersAssumption DEF LifeInv, CallersInv
<1> USE DEF PipeInv, Stopped, AtPrompt
<1>1. CASE StartCommand \/ StopCommand \/ ConnectCommand \/ ExitCommand
  BY <1>0, <1>1 DEF StartCommand, StopCommand, ConnectCommand, ExitCommand, GoTo, listener
<1>2. CASE CallStep("console")
  <2> USE <1>0 DEF GoTo, listener
  <2>1. CASE OpenTables("console") \/ OpenEngine("console") \/ EngineOpened("console")
    BY <2>1 DEF OpenTables, OpenEngine, EngineOpened
  <2>2. CASE Start("console") \/ Started("console")
    BY <2>2 DEF Start, Started
  <2>3. CASE Stop("console") \/ Close("console")
    BY <2>3 DEF Stop, Close, BeginStop, StopChannel, EndStop
  <2>5. CASE FindDestination \/ Connect
    BY <2>5 DEF FindDestination, Connect
  <2>4. CASE CloseEngine("console") \/ CloseClients("console") \/ ClosePipe("console")
    BY <2>4 DEF CloseEngine, CloseClients, ClosePipe
  <2> QED
    BY <1>2, <2>1, <2>2, <2>3, <2>4, <2>5 DEF CallStep
<1>3. CASE ThreadOrClient
  BY <1>0, <1>3, ThreadsAndClientsOnly DEF LifecycleTypeOK, Acceptor!TypeOK, AcceptInv
<1>4. CASE UNCHANGED vars
  BY <1>0, <1>4 DEF vars, listener
<1> QED
  BY <1>1, <1>2, <1>3, <1>4, StepsUndisturbed DEF LifeInv

\* The invariant that both theorems below rest on.
LEMMA LifeInvariant == Spec => []LifeInv
<1>1. Init => LifeInv
  BY CallersAssumption
     DEF Init, LifeInv, CallersInv, AcceptInv, PipeInv, Steps, Stopped, AtPrompt, Closing,
         Acceptor!Init, Acceptor!Living, Acceptor!Alive
<1>2. LifecycleTypeOK /\ LifeInv /\ [Next]_vars => LifeInv'
  BY CallersInvStep, AcceptInvStep, PipeInvStep DEF LifeInv
<1> QED
  BY <1>1, <1>2, LifecycleTypeCorrect, PTL DEF Spec

\* Between commands, unless Ctrl-C has been pressed, a stopped server has no
\* accept thread and a running one none but the one it holds the handle of,
\* however often it is stopped and started and wherever the thread is when it
\* is killed.
THEOREM AcceptThreadsFollow == Spec => []AcceptThreadFollowsServer
<1>1. LifeInv => AcceptThreadFollowsServer
  BY CallersAssumption
     DEF LifeInv, Undisturbed, AcceptInv, AtPrompt, AcceptThreadFollowsServer
<1> QED
  BY <1>1, LifeInvariant, PTL

\* And it has no instance of its pipe, which the thread could have left.
THEOREM StoppedServersAreClosed == Spec => []StoppedServerIsClosed
<1>1. LifeInv => StoppedServerIsClosed
  BY CallersAssumption
     DEF LifeInv, Undisturbed, PipeInv, AtPrompt, StoppedServerIsClosed
<1> QED
  BY <1>1, LifeInvariant, PTL

=============================================================================
