--------------------------- MODULE ClientRegistry ---------------------------
(***************************************************************************)
(* The tables of the routing server between one opening of the server and  *)
(* its closing: client_manager (reference numbers, registered clients, the *)
(* client_info records in shared memory), buffer_manager (audio buffers)   *)
(* and graph_manager (ports and the connections between them).             *)
(*                                                                         *)
(* An action is a whole call of client_manager or graph_manager.  The      *)
(* requests of clients run one at a time under the mutex of the server     *)
(* channel; connect_ports is called from the command line without it.  It  *)
(* is one step here, and two lookups and a push in ServerLifecycle, with   *)
(* the other calls in between.                                             *)
(*                                                                         *)
(* Left out: names, latencies, the notify channel and process ids, which   *)
(* nothing in these tables depends on, and the order of the connection     *)
(* list.                                                                   *)
(***************************************************************************)
EXTENDS Slots

CONSTANTS
  MaxClients,      \* MAX_CLIENTS, 16 in the code
  MaxChannels,     \* MAX_CHANNELS, 16 in the code
  PortFactor,      \* the factor of MAX_PORTS, 256 in the code
  MaxConnections   \* bound of the model: the list of the code has none

ASSUME SizesAssumption ==
  /\ MaxClients \in Nat \ {0}
  /\ MaxChannels \in Nat \ {0}
  /\ PortFactor \in Nat /\ PortFactor >= 2
  /\ MaxConnections \in Nat

MaxBuffers == MaxClients * MaxChannels * 2
MaxPorts == MaxClients * MaxChannels * PortFactor

Refs == 0 .. MaxClients - 1
Channels == 0 .. MaxChannels - 1
BufferIds == 0 .. MaxBuffers - 1
PortIds == 0 .. MaxPorts - 1

\* A channel table in shared memory.  A slot holds whatever the
\* out-parameter of allocate_buffer held, MaxBuffers when it failed.
BufferMaps == [Refs -> [Channels -> 0 .. MaxBuffers]]

Port == [ref : PortIds, client : Refs, channel : Channels, input : BOOLEAN]
Connection == [source : Port, dest : Port]

VARIABLES
  activeRefs,       \* reference numbers taken
  clients,          \* reference numbers with an entry in the clients map
  inputBufferMap,   \* the maps of client_info, in shared memory; they keep
  outputBufferMap,  \* their contents when a client is closed
  activeBuffers,    \* buffers taken
  activePorts,      \* port ids taken
  ports,            \* the port map: id -> port
  connections       \* connections hold copies of their two ports

vars == <<activeRefs, clients, inputBufferMap, outputBufferMap,
          activeBuffers, activePorts, ports, connections>>

-----------------------------------------------------------------------------
\* The definitions named Bad... are slips that a change to the code could
\* make; each stands before the definition it is a variant of, no other
\* definition uses one, and every property is seen to fail under one.

\* find_port that forgets to compare the direction.
BadSamePortAnyDirection(p, q) == p.client = q.client /\ p.channel = q.channel

\* operator== that forgets to compare the client.
BadSamePortAnyClient(p, q) == p.input = q.input /\ p.channel = q.channel

\* port::operator== : the id is not compared.
SamePort(p, q) ==
  /\ p.input = q.input
  /\ p.client = q.client
  /\ p.channel = q.channel

\* The ports find_port can return: it walks the map from the lowest id.
IsFound(id) == \A j \in DOMAIN ports : SamePort(ports[j], ports[id]) => id <= j

\* The ports close_client removes: one remove_port per channel and direction.
RemovedPorts(ref) == {id \in DOMAIN ports : ports[id].client = ref /\ IsFound(id)}

\* remove_port that erases only the connections that start at the port.
BadTouchesSource(conn, id) == SamePort(conn.source, ports[id])

\* remove_port with "and" in place of "or".
BadTouchesBoth(conn, id) ==
  SamePort(conn.source, ports[id]) /\ SamePort(conn.dest, ports[id])

Touches(conn, id) == SamePort(conn.source, ports[id]) \/ SamePort(conn.dest, ports[id])

\* close_client that frees the buffers of one direction only.
BadBuffersOfInputs(ref) == {inputBufferMap[ref][ch] : ch \in Channels}

\* The buffers named by the shared memory record of ref.
BuffersOf(ref) ==
  {inputBufferMap[ref][ch] : ch \in Channels}
    \cup {outputBufferMap[ref][ch] : ch \in Channels}

\* Channels counted from 1.
BadNewPortFromOne(ref, id) ==
  LET k == Rank(activePorts, MaxPorts, id)
  IN  [ref |-> id, client |-> ref, channel |-> (k \div 2) + 1, input |-> (k % 2 = 0)]

\* All inputs first, then all outputs.
BadNewPortGrouped(ref, id) ==
  LET k == Rank(activePorts, MaxPorts, id)
  IN  [ref |-> id, client |-> ref, channel |-> k % MaxChannels, input |-> k < MaxChannels]

\* add_port is called for input and output of channel 0, then of channel 1,
\* and so on: the k-th free id becomes port k of the client.
NewPort(ref, id) ==
  LET k == Rank(activePorts, MaxPorts, id)
  IN  [ref |-> id, client |-> ref, channel |-> k \div 2, input |-> (k % 2 = 0)]

NewPorts == Take(activePorts, MaxPorts, 2 * MaxChannels)

-----------------------------------------------------------------------------
Init ==
  /\ activeRefs = {}
  /\ clients = {}
  /\ inputBufferMap = [ref \in Refs |-> [ch \in Channels |-> 0]]
  /\ outputBufferMap = [ref \in Refs |-> [ch \in Channels |-> 0]]
  /\ activeBuffers = {}
  /\ activePorts = {}
  /\ ports = [id \in {} |-> 0]
  /\ connections = {}

\* add_client is refused when allocate_ref runs off the table; nothing
\* changes then, and the out-parameter is left at MaxClients.
Refused == Refs \subseteq activeRefs

AddClient(ref) ==
  /\ IsFirstFree(activeRefs, ref)
  /\ activeRefs' = activeRefs \cup {ref}
  /\ clients' = clients \cup {ref}
  /\ inputBufferMap' =
       [inputBufferMap EXCEPT ![ref] =
          [ch \in Channels |-> Nth(activeBuffers, MaxBuffers, 2 * ch)]]
  /\ outputBufferMap' =
       [outputBufferMap EXCEPT ![ref] =
          [ch \in Channels |-> Nth(activeBuffers, MaxBuffers, 2 * ch + 1)]]
  /\ activeBuffers' = activeBuffers \cup Take(activeBuffers, MaxBuffers, 2 * MaxChannels)
  /\ activePorts' = activePorts \cup NewPorts
  /\ ports' = [id \in DOMAIN ports \cup NewPorts |->
                 IF id \in DOMAIN ports THEN ports[id] ELSE NewPort(ref, id)]
  /\ UNCHANGED connections

\* close_client without free_ref and clients.erase.
BadCloseKeepsRef(ref) ==
  /\ ref \in clients
  /\ activeBuffers' = activeBuffers \ BuffersOf(ref)
  /\ activePorts' = activePorts \ RemovedPorts(ref)
  /\ ports' = [id \in DOMAIN ports \ RemovedPorts(ref) |-> ports[id]]
  /\ connections' = {conn \in connections :
                       \A id \in RemovedPorts(ref) : ~Touches(conn, id)}
  /\ UNCHANGED <<activeRefs, clients, inputBufferMap, outputBufferMap>>

CloseClient(ref) ==
  /\ ref \in clients
  /\ activeRefs' = activeRefs \ {ref}
  /\ clients' = clients \ {ref}
  /\ activeBuffers' = activeBuffers \ BuffersOf(ref)
  /\ activePorts' = activePorts \ RemovedPorts(ref)
  /\ ports' = [id \in DOMAIN ports \ RemovedPorts(ref) |-> ports[id]]
  /\ connections' = {conn \in connections :
                       \A id \in RemovedPorts(ref) : ~Touches(conn, id)}
  /\ UNCHANGED <<inputBufferMap, outputBufferMap>>

\* connection_exists
Connected(p, q) ==
  \E conn \in connections : SamePort(conn.source, p) /\ SamePort(conn.dest, q)

\* connect_ports with the copies of two ports in its hands.
PushConnection(p, q) ==
  /\ ~Connected(p, q)
  /\ Cardinality(connections) < MaxConnections
  /\ connections' = connections \cup {[source |-> p, dest |-> q]}
  /\ UNCHANGED <<activeRefs, clients, inputBufferMap, outputBufferMap,
                 activeBuffers, activePorts, ports>>

\* The whole of it: ports that are missing, or that are connected already,
\* change nothing.
ConnectPorts(a, b) ==
  /\ {a, b} \subseteq DOMAIN ports
  /\ PushConnection(ports[a], ports[b])

Next ==
  \/ \E ref \in Refs : AddClient(ref) \/ CloseClient(ref)
  \/ \E a, b \in PortIds : ConnectPorts(a, b)

Spec == Init /\ [][Next]_vars

-----------------------------------------------------------------------------
(* Properties                                                              *)

\* The tables hold ids inside their arrays, and every connection two ports.
TypeOK ==
  /\ activeRefs \subseteq Refs
  /\ clients \subseteq Refs
  /\ inputBufferMap \in BufferMaps
  /\ outputBufferMap \in BufferMaps
  /\ activeBuffers \subseteq BufferIds
  /\ activePorts \subseteq PortIds
  /\ DOMAIN ports \subseteq PortIds
  /\ \A id \in DOMAIN ports : ports[id] \in Port
  /\ connections \subseteq Connection

\* The lanes of a client: one per channel and direction.
Lanes == Channels \X BOOLEAN
BufferAt(ref, lane) ==
  IF lane[2] THEN inputBufferMap[ref][lane[1]] ELSE outputBufferMap[ref][lane[1]]

\* No audio buffer is written by two owners: over all registered clients,
\* channels and directions the buffer in shared memory is a different one,
\* although add_client ignores the status of allocate_buffer and a client
\* record keeps the buffer numbers of its predecessor.
BuffersExclusive ==
  \A c, d \in clients : \A x, y \in Lanes :
    BufferAt(c, x) = BufferAt(d, y) => c = d /\ x = y

\* No buffer leaks and none is used while free: the allocated buffers are
\* exactly those that the records of the registered clients name.  In
\* particular add_client never runs out of buffers half way through a client.
BuffersAccounted == activeBuffers = UNION {BuffersOf(c) : c \in clients}

\* Reference numbers, buffers and ports are all handed out lowest first and in
\* equal lots, so that their layouts stay aligned whatever the order of calls:
\* client number r has the buffers and the ports of lot r, in channel order,
\* and no lot is ever split.  This is why the tables cannot run out while
\* allocate_ref still finds a number, and why a record that was not cleared
\* names the right buffers when its number is used again.
Width == 2 * MaxChannels

BuffersInLots ==
  /\ activeBuffers = Lots(Width, clients)
  /\ \A c \in clients : \A ch \in Channels :
       /\ inputBufferMap[c][ch] = Width * c + 2 * ch
       /\ outputBufferMap[c][ch] = Width * c + 2 * ch + 1

LotPort(c, id) ==
  [ref |-> id, client |-> c,
   channel |-> (id - Width * c) \div 2, input |-> ((id - Width * c) % 2 = 0)]

PortsInLots ==
  /\ activePorts = Lots(Width, clients)
  /\ DOMAIN ports = activePorts
  /\ \A c \in clients : \A id \in Lot(Width, c) : ports[id] = LotPort(c, id)

Layout ==
  /\ clients = activeRefs
  /\ BuffersInLots
  /\ PortsInLots

\* The port map and the id table agree, every port belongs to a registered
\* client, and each registered client has exactly one port per channel and
\* direction, however the ids were reused: remove_port finds the first port
\* that matches and would leave a second one behind.
PortsOwned ==
  /\ DOMAIN ports = activePorts
  /\ \A id \in activePorts : ports[id].ref = id /\ ports[id].client \in clients
  /\ \A c \in clients : \A x \in Lanes :
       \E id \in activePorts :
         {j \in activePorts : /\ ports[j].client = c
                              /\ ports[j].channel = x[1]
                              /\ ports[j].input = x[2]} = {id}

\* What graph_manager::process needs of every connection it walks over, as long
\* as the calls on the tables come one after the other: the copies it holds are
\* of live ports, so that get_client_info finds both clients (it returns a null
\* pointer, which process dereferences, when the reference number is free) and
\* the two buffers are allocated.
RoutesResolve ==
  \A conn \in connections :
    /\ conn.source.ref \in DOMAIN ports /\ ports[conn.source.ref] = conn.source
    /\ conn.dest.ref \in DOMAIN ports /\ ports[conn.dest.ref] = conn.dest
    /\ {conn.source.client, conn.dest.client} \subseteq activeRefs
    /\ outputBufferMap[conn.source.client][conn.source.channel] \in activeBuffers
    /\ inputBufferMap[conn.dest.client][conn.dest.channel] \in activeBuffers

\* Registering or closing one client never disturbs another: while a client
\* stays registered its buffers and ports stay as they were, and a connection
\* goes only when one of its clients goes.
Undisturbed ==
  LET staying == clients \cap clients'
  IN  /\ \A c \in staying :
           /\ inputBufferMap'[c] = inputBufferMap[c]
           /\ outputBufferMap'[c] = outputBufferMap[c]
           /\ BuffersOf(c) \cap activeBuffers \subseteq activeBuffers'
      /\ \A id \in DOMAIN ports :
           ports[id].client \in staying =>
             id \in DOMAIN ports' /\ ports'[id] = ports[id]
      /\ \A conn \in connections :
           {conn.source.client, conn.dest.client} \subseteq staying => conn \in connections'

NeighboursUndisturbed == [][Undisturbed]_vars

\* The tables implement the patch bay: reference numbers and their tables can
\* be forgotten, a connection stands for the two jacks its copies name, and
\* it lives as long as both its clients.
JackOf(p) == <<p.client, p.channel, p.input>>

PB == INSTANCE Patchbay WITH
        Clients <- Refs,
        Jacks <- [c \in Refs |-> {c} \X Channels \X BOOLEAN],
        online <- activeRefs,
        patches <- {<<JackOf(conn.source), JackOf(conn.dest)>> : conn \in connections}

ImplementsPatchbay == PB!Spec

=============================================================================
