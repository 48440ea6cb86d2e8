------------------------ MODULE RequestChannelProofs ------------------------
(***************************************************************************)
(* Theorems about RequestChannel, for any number of clients, crashing and  *)
(* opening their configuration or not.                                     *)
(***************************************************************************)
EXTENDS RequestChannel, TLAPS

RegProofs == INSTANCE ClientRegistryProofs

-----------------------------------------------------------------------------
(* One request at a time                                                   *)

\* A connection thread starts once: it is not there before its client has
\* been accepted, so that starting it never pulls it out of a request.
NotYetStarted ==
  /\ \A c \in Clients : state[c] = "idle" => thread[c] = "none"
  /\ \A c \in Clients : arrived = c /\ accepting = "listen" =>
                          state[c] # "idle" /\ thread[c] = "none"
  /\ accepting = "bind" => arrived = None

Holding ==
  /\ thread \in [Clients -> Places]
  /\ state \in [Clients -> {"idle", "opening", "open", "closing", "closed", "failed", "crashed"}]
  /\ mutex \in Clients \cup {None}
  /\ OneRequestAtATime

MutexInv == Holding /\ NotYetStarted

\* No thread handles a request when the server starts.
LEMMA InitMutexInv == Init => MutexInv
BY SessionsAssumption
   DEF Init, MutexInv, Holding, NotYetStarted, OneRequestAtATime, Places, Handling

\* A step of a connection thread keeps the invariant of the mutex.
LEMMA ThreadKeepsMutexInv ==
  ASSUME MutexInv, NEW c \in Clients, ThreadStep(c)
  PROVE  MutexInv'
<1> USE SessionsAssumption DEF MutexInv
<1>0. UNCHANGED <<state, arrived, accepting>>
  BY DEF ThreadStep, clientSide, acceptSide, ReadHeader, Lock, Dispatch, Release,
         ReadOpenSize, ReadOpenBody, Register, ReadCloseSize, ReadCloseRef, Unregister
\* Every step of a thread moves that thread only, and only one that has
\* started; these are the ways it can move.
<1>1. \E place \in Places :
        /\ thread' = [thread EXCEPT ![c] = place]
        /\ thread[c] # "none" /\ place # "none"
        /\ \/ /\ thread[c] \in Handling /\ place \in Handling
              /\ mutex' = mutex
           \/ /\ thread[c] \notin Handling /\ place \notin Handling
              /\ mutex' = mutex
           \/ /\ thread[c] \notin Handling /\ place \in Handling
              /\ mutex = None /\ mutex' = c
           \/ /\ thread[c] \in Handling /\ place \notin Handling
              /\ mutex' = None
  <2> USE DEF Places, Handling, Goto
  <2>1. CASE ReadHeader(c)
    BY <2>1 DEF ReadHeader
  <2>2. CASE Lock(c)
    BY <2>2 DEF Lock
  <2>3. CASE Dispatch(c)
    BY <2>3 DEF Dispatch
  <2>4. CASE Release(c)
    BY <2>4 DEF Release
  <2>5. CASE ReadOpenSize(c)
    BY <2>5 DEF ReadOpenSize
  <2>6. CASE ReadOpenBody(c)
    BY <2>6 DEF ReadOpenBody
  <2>7. CASE Register(c)
    BY <2>7 DEF Register
  <2>8. CASE ReadCloseSize(c)
    BY <2>8 DEF ReadCloseSize
  <2>9. CASE ReadCloseRef(c)
    BY <2>9 DEF ReadCloseRef
  <2>10. CASE Unregister(c)
    BY <2>10 DEF Unregister
  <2> QED
    BY <2>1, <2>2, <2>3, <2>4, <2>5, <2>6, <2>7, <2>8, <2>9, <2>10 DEF ThreadStep
<1>2. PICK place \in Places :
        /\ thread' = [thread EXCEPT ![c] = place]
        /\ thread[c] # "none" /\ place # "none"
        /\ \/ /\ thread[c] \in Handling /\ place \in Handling
              /\ mutex' = mutex
           \/ /\ thread[c] \notin Handling /\ place \notin Handling
              /\ mutex' = mutex
           \/ /\ thread[c] \notin Handling /\ place \in Handling
              /\ mutex = None /\ mutex' = c
           \/ /\ thread[c] \in Handling /\ place \notin Handling
              /\ mutex' = None
  BY <1>1
<1>3. Holding'
  <2>1. thread' \in [Clients -> Places] /\ mutex' \in Clients \cup {None}
    BY <1>2 DEF Holding
  <2>2. ASSUME NEW d \in Clients PROVE thread'[d] \in Handling <=> mutex' = d
    BY <1>2 DEF Holding, OneRequestAtATime
  <2> QED
    BY <2>1, <2>2, <1>0 DEF Holding, OneRequestAtATime
<1>4. NotYetStarted'
  BY <1>0, <1>2 DEF NotYetStarted, Holding
<1> QED
  BY <1>3, <1>4

\* A client has no hand in the mutex.
LEMMA ClientKeepsMutexInv ==
  ASSUME MutexInv, NEW c \in Clients, ClientChoice(c) \/ ClientStep(c)
  PROVE  MutexInv'
<1> USE SessionsAssumption DEF MutexInv, threadSide
<1>1. UNCHANGED <<thread, mutex, accepting>>
  BY DEF ClientChoice, ClientStep, Connect, ConnectFails, OpenConfig, Close, Crash,
         Write, ReadResult, CloseEnd, acceptSide
<1>2. \/ state' = state
      \/ \E s \in {"opening", "open", "closing", "closed", "failed", "crashed"} :
           state' = [state EXCEPT ![c] = s]
  BY DEF ClientChoice, ClientStep, Connect, ConnectFails, OpenConfig, Close, Crash,
         Write, ReadResult, CloseEnd
<1>3. \/ arrived' = arrived
      \/ arrived' = c /\ state[c] = "idle" /\ state'[c] # "idle"
  BY DEF ClientChoice, ClientStep, Connect, ConnectFails, OpenConfig, Close, Crash,
         Write, ReadResult, CloseEnd, acceptSide, Holding
<1>4. Holding' /\ (arrived' # arrived => accepting = "listen")
  BY <1>1, <1>2
     DEF Holding, OneRequestAtATime, ClientChoice, ClientStep, Connect, ConnectFails,
         OpenConfig, Close, Crash, Write, ReadResult, CloseEnd, acceptSide
<1>5. ASSUME NEW d \in Clients, state'[d] = "idle" PROVE state[d] = "idle"
  BY <1>2, <1>5 DEF Holding
<1>6. NotYetStarted'
  BY <1>1, <1>3, <1>4, <1>5 DEF NotYetStarted
<1> QED
  BY <1>4, <1>6

\* The accept thread starts threads, none of them inside a request.
LEMMA AcceptKeepsMutexInv ==
  ASSUME MutexInv, AcceptStep
  PROVE  MutexInv'
<1> USE SessionsAssumption DEF MutexInv, threadSide, clientSide
<1>1. CASE Bind
  <2>1. UNCHANGED <<thread, mutex, state, arrived>>
    BY <1>1 DEF Bind
  <2> QED
    BY <1>1, <2>1 DEF Bind, Holding, OneRequestAtATime, NotYetStarted
<1>2. ASSUME NEW c \in Clients, Accept(c) PROVE MutexInv'
  <2>1. /\ arrived = c /\ accepting = "listen" /\ accepting' = "publish"
        /\ thread' = [thread EXCEPT ![c] = "header"]
        /\ UNCHANGED <<mutex, state, arrived>>
    BY <1>2 DEF Accept
  <2>2. thread[c] = "none" /\ state[c] # "idle"
    BY <2>1 DEF NotYetStarted
  <2>3. Holding'
    BY <2>1, <2>2 DEF Holding, OneRequestAtATime, Places, Handling
  <2>4. NotYetStarted'
    BY <2>1, <2>2 DEF NotYetStarted, Holding
  <2> QED
    BY <2>3, <2>4
<1>3. ASSUME NEW c \in Clients, Publish(c) PROVE MutexInv'
  <2>1. UNCHANGED <<thread, mutex, state>> /\ accepting' = "bind" /\ arrived' = None
    BY <1>3 DEF Publish
  <2> QED
    BY <2>1 DEF Holding, OneRequestAtATime, NotYetStarted
<1>4. ASSUME NEW c \in Clients, AcceptFails(c) PROVE MutexInv'
  <2>1. UNCHANGED <<thread, mutex, state, arrived>> /\ accepting' = "exited"
    BY <1>4 DEF AcceptFails
  <2> QED
    BY <2>1 DEF Holding, OneRequestAtATime, NotYetStarted
<1>5. ASSUME NEW c \in Clients, StartFails(c) PROVE MutexInv'
  <2>1. UNCHANGED <<thread, mutex, state>> /\ accepting' = "bind" /\ arrived' = None
    BY <1>5 DEF StartFails
  <2> QED
    BY <2>1 DEF Holding, OneRequestAtATime, NotYetStarted
<1> QED
  BY <1>1, <1>2, <1>3, <1>4, <1>5 DEF AcceptStep

\* No step breaks the invariant of the mutex.
LEMMA MutexInvStep ==
  ASSUME MutexInv, [Next]_vars
  PROVE  MutexInv'
<1>1. CASE UNCHANGED vars
  BY <1>1 DEF vars, threadSide, clientSide, acceptSide, MutexInv, Holding,
              OneRequestAtATime, NotYetStarted
<1>2. CASE Next
  BY <1>2, ThreadKeepsMutexInv, ClientKeepsMutexInv, AcceptKeepsMutexInv DEF Next
<1> QED
  BY <1>1, <1>2

\* At any moment at most one connection thread handles a request, and it is
\* the one that holds the mutex.
THEOREM RequestsAreSerial == Spec => []OneRequestAtATime
<1>1. Init => MutexInv
  BY InitMutexInv
<1>2. MutexInv /\ [Next]_vars => MutexInv'
  BY MutexInvStep
<1>3. MutexInv => OneRequestAtATime
  BY DEF MutexInv, Holding
<1> QED
  BY <1>1, <1>2, <1>3, PTL DEF Spec

-----------------------------------------------------------------------------
(* The registry inside the sessions                                        *)

Untouched == UNCHANGED registry

\* Steps that are not a registration or its end leave the tables alone.
LEMMA RegistrySteps ==
  ASSUME [Next]_vars
  PROVE  \/ Untouched
         \/ \E r \in Reg!Refs : Reg!AddClient(r)
         \/ \E r \in clients : Reg!CloseClient(r)
<1>1. CASE UNCHANGED vars
  BY <1>1 DEF vars, Untouched
<1>2. ASSUME NEW c \in Clients, ClientChoice(c) \/ ClientStep(c) PROVE Untouched
  BY <1>2 DEF ClientChoice, ClientStep, Connect, ConnectFails, OpenConfig, Close, Crash,
              Write, ReadResult, CloseEnd, Untouched
<1>3. CASE AcceptStep
  BY <1>3 DEF AcceptStep, Bind, Accept, StartFails, AcceptFails, Publish, Untouched
<1>4. ASSUME NEW c \in Clients, ThreadStep(c)
      PROVE  \/ Untouched
             \/ \E r \in Reg!Refs : Reg!AddClient(r)
             \/ \E r \in clients : Reg!CloseClient(r)
  <2>1. CASE Register(c)
    BY <2>1 DEF Register, Untouched
  <2>2. CASE Unregister(c)
    BY <2>2 DEF Unregister, Untouched
  <2>3. CASE ReadHeader(c) \/ Lock(c) \/ Dispatch(c) \/ Release(c)
    BY <2>3 DEF ReadHeader, Lock, Dispatch, Release, Untouched
  <2>4. CASE ReadOpenSize(c) \/ ReadOpenBody(c) \/ ReadCloseSize(c) \/ ReadCloseRef(c)
    BY <2>4 DEF ReadOpenSize, ReadOpenBody, ReadCloseSize, ReadCloseRef, Untouched
  <2> QED
    BY <1>4, <2>1, <2>2, <2>3, <2>4 DEF ThreadStep
<1> QED
  BY <1>1, <1>2, <1>3, <1>4 DEF Next

\* close_client is called with any word that a client cares to send; those
\* that name a registered client are numbers of the table.
LEMMA RegisteredNumbers == Spec => [](clients \subseteq Reg!Refs)
<1>1. Init => clients \subseteq Reg!Refs
  BY DEF Init, Reg!Init
<1>2. clients \subseteq Reg!Refs /\ [Next]_vars => (clients \subseteq Reg!Refs)'
  <2> SUFFICES ASSUME clients \subseteq Reg!Refs, [Next]_vars
               PROVE  clients' \subseteq Reg!Refs
    BY DEF Reg!Refs
  <2>1. CASE Untouched
    BY <2>1 DEF Untouched, registry
  <2>2. ASSUME NEW r \in Reg!Refs, Reg!AddClient(r) PROVE clients' \subseteq Reg!Refs
    BY <2>2 DEF Reg!AddClient
  <2>3. ASSUME NEW r \in clients, Reg!CloseClient(r) PROVE clients' \subseteq Reg!Refs
    BY <2>3 DEF Reg!CloseClient
  <2> QED
    BY <2>1, <2>2, <2>3, RegistrySteps
<1> QED
  BY <1>1, <1>2, PTL DEF Spec

\* The sessions use the registry tables through add_client and close_client
\* only: what they do to the tables is a behaviour of ClientRegistry.
THEOREM SessionsKeepRegistry == Spec => KeepsRegistry
<1>1. Init => Reg!Init
  BY DEF Init
<1>2. clients \subseteq Reg!Refs /\ [Next]_vars => [Reg!Next]_(Reg!vars)
  <2> SUFFICES ASSUME clients \subseteq Reg!Refs, [Next]_vars
               PROVE  Reg!Next \/ Untouched
    BY DEF registry, Reg!vars, Untouched
  <2> QED
    BY RegistrySteps DEF Reg!Next
<1> QED
  BY <1>1, <1>2, RegisteredNumbers, PTL DEF Spec, KeepsRegistry, Reg!Spec

\* The registry of the sessions and the one the theorems of
\* ClientRegistryProofs are about are two instances of the same module, over
\* the same constants and variables: their definitions agree.
LEMMA SameRegistry ==
  /\ Reg!Init <=> RegProofs!Init
  /\ Reg!Next <=> RegProofs!Next
  /\ Reg!vars = RegProofs!vars
  /\ Reg!BuffersExclusive <=> RegProofs!BuffersExclusive
  /\ Reg!TypeOK <=> RegProofs!TypeOK
<1>0. ASSUME NEW S PROVE Reg!Cardinality(S) = RegProofs!Cardinality(S)
  BY DEF Reg!Cardinality, RegProofs!Cardinality
<1>1. Reg!Init <=> RegProofs!Init
  BY DEF Reg!Init, RegProofs!Init, Reg!Refs, RegProofs!Refs, Reg!Channels,
         RegProofs!Channels
<1>2. Reg!vars = RegProofs!vars
  BY DEF Reg!vars, RegProofs!vars
<1>3. ASSUME NEW r PROVE Reg!AddClient(r) <=> RegProofs!AddClient(r)
  <2>1. ASSUME NEW active, NEW max, NEW id
        PROVE  Reg!Rank(active, max, id) = RegProofs!Rank(active, max, id)
    BY <1>0 DEF Reg!Rank, RegProofs!Rank, Reg!FreeIds, RegProofs!FreeIds
  <2>2. ASSUME NEW active, NEW max, NEW n
        PROVE  Reg!Take(active, max, n) = RegProofs!Take(active, max, n)
    BY <2>1 DEF Reg!Take, RegProofs!Take, Reg!FreeIds, RegProofs!FreeIds
  <2>3. ASSUME NEW active, NEW max, NEW k
        PROVE  Reg!Nth(active, max, k) = RegProofs!Nth(active, max, k)
    BY <2>1 DEF Reg!Nth, RegProofs!Nth, Reg!FreeIds, RegProofs!FreeIds
  <2>4. ASSUME NEW id PROVE Reg!NewPort(r, id) = RegProofs!NewPort(r, id)
    BY <2>1 DEF Reg!NewPort, RegProofs!NewPort, Reg!MaxPorts, RegProofs!MaxPorts
  <2>5. Reg!NewPorts = RegProofs!NewPorts
    BY <2>2 DEF Reg!NewPorts, RegProofs!NewPorts, Reg!MaxPorts, RegProofs!MaxPorts
  <2>6. Reg!IsFirstFree(activeRefs, r) <=> RegProofs!IsFirstFree(activeRefs, r)
    BY DEF Reg!IsFirstFree, RegProofs!IsFirstFree
  <2> QED
    BY <2>2, <2>3, <2>4, <2>5, <2>6
       DEF Reg!AddClient, RegProofs!AddClient, Reg!Channels, RegProofs!Channels,
           Reg!MaxBuffers, RegProofs!MaxBuffers
<1>4. ASSUME NEW r PROVE Reg!CloseClient(r) <=> RegProofs!CloseClient(r)
  BY DEF Reg!CloseClient, RegProofs!CloseClient, Reg!BuffersOf,
         RegProofs!BuffersOf, Reg!Channels, RegProofs!Channels,
         Reg!RemovedPorts, RegProofs!RemovedPorts, Reg!IsFound,
         RegProofs!IsFound, Reg!SamePort, RegProofs!SamePort, Reg!Touches,
         RegProofs!Touches
<1>5. ASSUME NEW a, NEW b PROVE Reg!ConnectPorts(a, b) <=> RegProofs!ConnectPorts(a, b)
  <2>1. ASSUME NEW p, NEW q PROVE Reg!Connected(p, q) <=> RegProofs!Connected(p, q)
    BY DEF Reg!Connected, RegProofs!Connected, Reg!SamePort, RegProofs!SamePort
  <2>2. ASSUME NEW p, NEW q
        PROVE  Reg!PushConnection(p, q) <=> RegProofs!PushConnection(p, q)
    BY <2>1, <1>0 DEF Reg!PushConnection, RegProofs!PushConnection
  <2> QED
    BY <2>2 DEF Reg!ConnectPorts, RegProofs!ConnectPorts
<1>6. Reg!Refs = RegProofs!Refs /\ Reg!PortIds = RegProofs!PortIds
  BY DEF Reg!Refs, RegProofs!Refs, Reg!PortIds, RegProofs!PortIds,
         Reg!MaxPorts, RegProofs!MaxPorts
<1>7. Reg!Next <=> RegProofs!Next
  BY <1>3, <1>4, <1>5, <1>6 DEF Reg!Next, RegProofs!Next
<1>8. Reg!BuffersExclusive <=> RegProofs!BuffersExclusive
  BY DEF Reg!BuffersExclusive, RegProofs!BuffersExclusive, Reg!Lanes,
         RegProofs!Lanes, Reg!BufferAt, RegProofs!BufferAt, Reg!Channels,
         RegProofs!Channels
<1>9. Reg!TypeOK <=> RegProofs!TypeOK
  BY <1>6 DEF Reg!TypeOK, RegProofs!TypeOK, Reg!BufferMaps, RegProofs!BufferMaps, Reg!Channels,
              RegProofs!Channels, Reg!BufferIds, RegProofs!BufferIds, Reg!MaxBuffers,
              RegProofs!MaxBuffers, Reg!Port, RegProofs!Port, Reg!Connection,
              RegProofs!Connection
<1> QED
  BY <1>1, <1>2, <1>7, <1>8, <1>9

\* The tables of the sessions behave as the registry that was proved about.
LEMMA SessionsKeepTables == Spec => RegProofs!Spec
<1>1. [Reg!Next]_(Reg!vars) => [RegProofs!Next]_(RegProofs!vars)
  BY SameRegistry DEF Reg!vars, RegProofs!vars
<1>2. Reg!Init => RegProofs!Init
  BY SameRegistry
<1> QED
  BY <1>1, <1>2, SessionsKeepRegistry, PTL DEF KeepsRegistry, Reg!Spec, RegProofs!Spec

\* So while sessions open, close, crash and send out of step, two connected
\* clients never share an audio buffer, and the tables keep their types.
THEOREM SessionBuffersExclusive == Spec => [](Reg!BuffersExclusive /\ Reg!TypeOK)
<1>1. RegProofs!SizesAssumption
  BY SessionsAssumption DEF RegProofs!SizesAssumption
<1>2. RegProofs!Spec => [](RegProofs!BuffersExclusive /\ RegProofs!TypeOK)
  BY <1>1, RegProofs!BuffersStayExclusive, RegProofs!TypeCorrect, PTL
<1>3. RegProofs!BuffersExclusive /\ RegProofs!TypeOK => Reg!BuffersExclusive /\ Reg!TypeOK
  BY SameRegistry
<1> QED
  BY <1>2, <1>3, SessionsKeepTables, PTL

\* No request of one client, in step or out of step, touches the buffers or the
\* ports of another that stays.
THEOREM SessionsLeaveNeighbours == Spec => RegProofs!NeighboursUndisturbed
<1>1. RegProofs!SizesAssumption
  BY SessionsAssumption DEF RegProofs!SizesAssumption
<1>2. RegProofs!Spec => RegProofs!NeighboursUndisturbed
  BY <1>1, RegProofs!NeighboursStayUndisturbed
<1> QED
  BY <1>2, SessionsKeepTables

=============================================================================
