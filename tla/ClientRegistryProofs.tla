------------------------ MODULE ClientRegistryProofs ------------------------
(***************************************************************************)
(* Theorems about ClientRegistry, for every number of clients, channels    *)
(* and ports that SizesAssumption allows.                                  *)
(*                                                                         *)
(* The inductive invariant is IInv.  Neither the exclusive use of buffers  *)
(* nor the safety of process() is inductive by itself: what add_client     *)
(* takes depends on which ids are free.  Layout says exactly which, and    *)
(* the lemmas of SlotsProofs turn that into what the next client gets.     *)
(***************************************************************************)
EXTENDS ClientRegistry, SlotsProofs

IInv == TypeOK /\ Layout /\ RoutesResolve

-----------------------------------------------------------------------------
(* Sizes and lots                                                          *)

\* The widths and sizes of the tables are naturals that the provers can use.
LEMMA Sizes ==
  /\ Width \in Nat \ {0}
  /\ MaxBuffers \in Nat
  /\ MaxPorts \in Nat
  /\ MaxBuffers <= MaxPorts
  /\ Width * MaxClients = MaxBuffers
<1> USE SizesAssumption
<1>1. Width \in Nat \ {0} /\ MaxBuffers \in Nat /\ MaxPorts \in Nat
  BY DEF Width, MaxBuffers, MaxPorts
<1> DEFINE n == MaxClients * MaxChannels
<1>2. n \in Nat
  OBVIOUS
<1>3. Width * MaxClients = n * 2
  BY DEF Width
<1>4. n * 2 <= n * PortFactor
  <2> HIDE DEF n
  <2>1. CASE PortFactor = 2
    BY <1>2, <2>1
  <2>2. CASE 2 < PortFactor
    <3>1. n * 2 + n <= n * PortFactor
      BY <1>2, <2>2, LaterLot
    <3> QED
      BY <3>1, <1>2
  <2> QED
    BY <2>1, <2>2
<1> QED
  BY <1>1, <1>2, <1>3, <1>4 DEF MaxBuffers, MaxPorts

\* The lot of a reference number fits the buffer table and the port table.
LEMMA LotFits ==
  ASSUME NEW ref \in Refs
  PROVE  /\ ref \in Nat
         /\ Width * ref \in Nat
         /\ Width * ref + Width <= MaxBuffers
         /\ Width * ref + Width <= MaxPorts
<1>1. ref \in Nat /\ MaxClients \in Nat /\ ref < MaxClients
  BY SizesAssumption DEF Refs
<1>2. Width * ref + Width <= Width * MaxClients
  BY <1>1, Sizes, LaterLot
<1>3. Width * ref \in Nat
  BY <1>1, Sizes
<1> QED
  BY <1>1, <1>2, <1>3, Sizes

\* Every id of a lot is the place of one channel in one direction.
LEMMA LaneOfId ==
  ASSUME NEW ref \in Refs, NEW id \in Lot(Width, ref)
  PROVE  /\ id \in Nat
         /\ id - Width * ref \in 0 .. Width - 1
         /\ (id - Width * ref) \div 2 \in Channels
         /\ \/ /\ (id - Width * ref) % 2 = 0
               /\ id = Width * ref + 2 * ((id - Width * ref) \div 2)
            \/ /\ (id - Width * ref) % 2 = 1
               /\ id = Width * ref + 2 * ((id - Width * ref) \div 2) + 1
<1> DEFINE s == Width * ref
           k == id - s
<1> SUFFICES /\ id \in Nat
             /\ k \in 0 .. Width - 1
             /\ k \div 2 \in Channels
             /\ \/ k % 2 = 0 /\ id = s + 2 * (k \div 2)
                \/ k % 2 = 1 /\ id = s + 2 * (k \div 2) + 1
  BY Zenon
<1>1. s \in Nat /\ id \in Int /\ s <= id /\ id < s + Width
  BY LotFits, LotBounds, Sizes
<1> HIDE DEF s
<1>2. k \in Nat /\ k < 2 * MaxChannels /\ id = s + k
  BY <1>1, SizesAssumption DEF Width
<1> HIDE DEF k
<1>3. k \div 2 \in Nat /\ \/ k % 2 = 0 /\ k = 2 * (k \div 2)
                          \/ k % 2 = 1 /\ k = 2 * (k \div 2) + 1
  BY <1>2
<1>4. k \div 2 \in Channels
  <2> DEFINE q == k \div 2
  <2>1. q \in Nat /\ (k = 2 * q \/ k = 2 * q + 1)
    BY <1>3
  <2> HIDE DEF q
  <2>2. q < MaxChannels /\ MaxChannels \in Nat
    BY <1>2, <2>1, SizesAssumption
  <2>3. q \in 0 .. MaxChannels - 1
    BY <2>1, <2>2
  <2> QED
    BY <2>3 DEF Channels, q
<1>5. k \in 0 .. Width - 1 /\ id \in Nat
  BY <1>1, <1>2, SizesAssumption DEF Width
<1>6. \/ k % 2 = 0 /\ id = s + 2 * (k \div 2)
      \/ k % 2 = 1 /\ id = s + 2 * (k \div 2) + 1
  BY <1>1, <1>2, <1>3
<1> QED
  BY <1>4, <1>5, <1>6

\* And the two places of a channel lie in the lot.
LEMMA IdOfLane ==
  ASSUME NEW ref \in Refs, NEW ch \in Channels
  PROVE  /\ Width * ref + 2 * ch \in Lot(Width, ref)
         /\ Width * ref + 2 * ch + 1 \in Lot(Width, ref)
<1> DEFINE s == Width * ref
<1>1. s \in Nat
  BY LotFits
<1> HIDE DEF s
<1>2. ch \in Nat /\ 2 * ch + 1 < Width
  BY SizesAssumption DEF Channels, Width
<1>3. s + 2 * ch \in s .. s + Width - 1 /\ s + 2 * ch + 1 \in s .. s + Width - 1
  BY <1>1, <1>2, Sizes
<1> QED
  BY <1>3 DEF s, Lot

\* Registering a number adds its lot to the lots that are taken.
LEMMA LotsGrow ==
  ASSUME NEW rs, NEW r
  PROVE  Lots(Width, rs) \cup Lot(Width, r) = Lots(Width, rs \cup {r})
BY DEF Lots

\* Closing a number takes its lot, and no id of another, out of them.
LEMMA LotsShrink ==
  ASSUME NEW rs \in SUBSET Refs, NEW r \in rs
  PROVE  Lots(Width, rs) \ Lot(Width, r) = Lots(Width, rs \ {r})
<1>1. Refs \subseteq Nat /\ Width \in Nat
  BY LotFits, Sizes
<1>2. ASSUME NEW id, NEW c \in rs, id \in Lot(Width, c), id \in Lot(Width, r)
      PROVE  c = r
  BY <1>1, <1>2, LotsDisjoint
<1> QED
  BY <1>2 DEF Lots

\* The lots of registered numbers lie inside the buffer and port tables.
LEMMA LotsInTables ==
  ASSUME NEW rs \in SUBSET Refs
  PROVE  Lots(Width, rs) \subseteq BufferIds /\ Lots(Width, rs) \subseteq PortIds
<1> SUFFICES ASSUME NEW c \in rs, NEW id \in Lot(Width, c)
             PROVE  id \in BufferIds /\ id \in PortIds
  BY DEF Lots
<1>1. id \in Int /\ Width * c <= id /\ id < Width * c + Width
  BY LotFits, LotBounds, Sizes
<1> QED
  BY <1>1, LotFits, Sizes DEF BufferIds, PortIds

-----------------------------------------------------------------------------
(* What one step does to the lots                                          *)

\* The fields of the port that a lot has at an id.
LEMMA LotPortFields ==
  ASSUME NEW c, NEW id
  PROVE  LotPort(c, id).ref = id /\ LotPort(c, id).client = c
BY DEF LotPort

\* In the table of the next client, id is the port of rank id - start.
LEMMA PortOfLot ==
  ASSUME NEW c \in Refs, NEW id \in Lot(Width, c)
  PROVE  LotPort(c, id) \in Port
<1>1. id \in PortIds
  BY LotsInTables DEF Lots
<1>2. (id - Width * c) \div 2 \in Channels
  BY LaneOfId
<1> QED
  BY <1>1, <1>2 DEF LotPort, Port

\* A port of a lot names its id: two lanes of a client are never confused.
LEMMA LotPortInjective ==
  ASSUME NEW c \in Refs, NEW i \in Lot(Width, c), NEW d \in Refs, NEW j \in Lot(Width, d),
         SamePort(LotPort(c, i), LotPort(d, j))
  PROVE  c = d /\ i = j
<1>1. c = d
  BY DEF SamePort, LotPort
<1> DEFINE s == Width * c
<1>2. /\ (i - s) \div 2 = (j - s) \div 2
      /\ ((i - s) % 2 = 0) <=> ((j - s) % 2 = 0)
  BY <1>1 DEF SamePort, LotPort
<1>3. /\ \/ (i - s) % 2 = 0 /\ i = s + 2 * ((i - s) \div 2)
         \/ (i - s) % 2 = 1 /\ i = s + 2 * ((i - s) \div 2) + 1
      /\ \/ (j - s) % 2 = 0 /\ j = s + 2 * ((j - s) \div 2)
         \/ (j - s) % 2 = 1 /\ j = s + 2 * ((j - s) \div 2) + 1
  BY <1>1, LaneOfId
<1> DEFINE qi == (i - s) \div 2
           qj == (j - s) \div 2
           ri == (i - s) % 2
           rj == (j - s) % 2
<1>4. /\ qi = qj
      /\ (ri = 0) <=> (rj = 0)
      /\ \/ ri = 0 /\ i = s + 2 * qi
         \/ ri = 1 /\ i = s + 2 * qi + 1
      /\ \/ rj = 0 /\ j = s + 2 * qj
         \/ rj = 1 /\ j = s + 2 * qj + 1
  BY <1>2, <1>3
<1> HIDE DEF s, qi, qj, ri, rj
<1> QED
  BY <1>1, <1>4

\* What add_client does to tables that are laid out in lots.
LEMMA AddEffect ==
  ASSUME IInv, NEW ref \in Refs, AddClient(ref)
  PROVE  /\ ref \notin clients
         /\ clients' = clients \cup {ref}
         /\ activeRefs' = clients'
         /\ activeBuffers' = Lots(Width, clients')
         /\ activePorts' = Lots(Width, clients')
         /\ inputBufferMap' = [inputBufferMap EXCEPT ![ref] =
                                 [ch \in Channels |-> Width * ref + 2 * ch]]
         /\ outputBufferMap' = [outputBufferMap EXCEPT ![ref] =
                                 [ch \in Channels |-> Width * ref + 2 * ch + 1]]
         /\ DOMAIN ports' = activePorts'
         /\ \A id \in DOMAIN ports : id \notin Lot(Width, ref) /\ ports'[id] = ports[id]
         /\ \A id \in Lot(Width, ref) : ports'[id] = LotPort(ref, id)
         /\ UNCHANGED connections
<1>1. /\ activeBuffers = Lots(Width, clients)
      /\ activePorts = Lots(Width, clients)
      /\ DOMAIN ports = activePorts
      /\ clients = activeRefs /\ clients \in SUBSET Refs
  BY DEF IInv, TypeOK, Layout, BuffersInLots, PortsInLots
<1>2. /\ ref \in Nat /\ Width \in Nat \ {0} /\ MaxBuffers \in Nat /\ MaxPorts \in Nat
      /\ Width * ref + Width <= MaxBuffers
      /\ Width * ref + Width <= MaxPorts
      /\ clients \in SUBSET Nat
      /\ IsFirstFree(clients, ref)
  BY <1>1, LotFits, Sizes DEF AddClient
<1>3. /\ Take(activeBuffers, MaxBuffers, Width) = Lot(Width, ref)
      /\ \A k \in 0 .. Width - 1 : Nth(activeBuffers, MaxBuffers, k) = Width * ref + k
  BY <1>1, <1>2, FirstFreeLot
<1>4. NewPorts = Lot(Width, ref)
  BY <1>1, <1>2, FirstFreeLot DEF NewPorts, Width
<1>5. ASSUME NEW id \in Lot(Width, ref)
      PROVE  /\ Rank(activePorts, MaxPorts, id) = id - Width * ref
             /\ id \notin DOMAIN ports
             /\ NewPort(ref, id) = LotPort(ref, id)
  <2>1. /\ id \in FreeIds(activePorts, MaxPorts)
        /\ Rank(activePorts, MaxPorts, id) = id - Width * ref
    BY <1>1, <1>2, RankInFirstLot
  <2> QED
    BY <2>1, <1>1 DEF FreeIds, NewPort, LotPort
<1>6. ASSUME NEW ch \in Channels
      PROVE  /\ Nth(activeBuffers, MaxBuffers, 2 * ch) = Width * ref + 2 * ch
             /\ Nth(activeBuffers, MaxBuffers, 2 * ch + 1) = Width * ref + 2 * ch + 1
  <2>1. 2 * ch \in 0 .. Width - 1 /\ 2 * ch + 1 \in 0 .. Width - 1
    BY SizesAssumption DEF Channels, Width
  <2>2. Nth(activeBuffers, MaxBuffers, 2 * ch + 1) = Width * ref + (2 * ch + 1)
    BY <2>1, <1>3
  <2>3. Width * ref + (2 * ch + 1) = Width * ref + 2 * ch + 1
    BY <1>2, SizesAssumption DEF Channels
  <2> QED
    BY <2>1, <2>2, <2>3, <1>3
<1>7. /\ activeBuffers' = activeBuffers \cup Lot(Width, ref)
      /\ activePorts' = activePorts \cup Lot(Width, ref)
      /\ clients' = clients \cup {ref}
      /\ activeRefs' = clients'
  BY <1>1, <1>3, <1>4 DEF AddClient, Width
<1>8. /\ activeBuffers' = Lots(Width, clients')
      /\ activePorts' = Lots(Width, clients')
  BY <1>1, <1>7, LotsGrow
<1>9. ref \notin clients
  BY <1>2 DEF IsFirstFree
<1>10. /\ inputBufferMap' = [inputBufferMap EXCEPT ![ref] =
                                 [ch \in Channels |-> Width * ref + 2 * ch]]
       /\ outputBufferMap' = [outputBufferMap EXCEPT ![ref] =
                                 [ch \in Channels |-> Width * ref + 2 * ch + 1]]
  BY <1>6 DEF AddClient
<1>11. ports' = [id \in DOMAIN ports \cup Lot(Width, ref) |->
                   IF id \in DOMAIN ports THEN ports[id] ELSE NewPort(ref, id)]
  BY <1>4 DEF AddClient
<1>12. /\ DOMAIN ports' = activePorts'
       /\ \A id \in DOMAIN ports : id \notin Lot(Width, ref) /\ ports'[id] = ports[id]
       /\ \A id \in Lot(Width, ref) : ports'[id] = LotPort(ref, id)
  BY <1>1, <1>5, <1>7, <1>11
<1> QED
  BY <1>7, <1>8, <1>9, <1>10, <1>12 DEF AddClient

\* The part of BuffersInLots that speaks of the records.
RecordsInLots ==
  \A c \in clients : \A ch \in Channels :
    /\ inputBufferMap[c][ch] = Width * c + 2 * ch
    /\ outputBufferMap[c][ch] = Width * c + 2 * ch + 1

\* The record of a registered client names the buffers of its lot.
LEMMA BuffersOfLot ==
  ASSUME RecordsInLots, NEW c \in clients, c \in Refs
  PROVE  BuffersOf(c) = Lot(Width, c)
<1>1. \A ch \in Channels : /\ inputBufferMap[c][ch] = Width * c + 2 * ch
                           /\ outputBufferMap[c][ch] = Width * c + 2 * ch + 1
  BY DEF RecordsInLots
<1>2. ASSUME NEW id \in Lot(Width, c) PROVE id \in BuffersOf(c)
  <2> DEFINE ch == (id - Width * c) \div 2
  <2>1. ch \in Channels /\ (id = Width * c + 2 * ch \/ id = Width * c + 2 * ch + 1)
    BY LaneOfId
  <2> HIDE DEF ch
  <2> QED
    BY <1>1, <2>1 DEF BuffersOf
<1>3. ASSUME NEW id \in BuffersOf(c) PROVE id \in Lot(Width, c)
  BY <1>1, IdOfLane DEF BuffersOf
<1> QED
  BY <1>2, <1>3

\* What close_client does to tables that are laid out in lots.
LEMMA CloseEffect ==
  ASSUME IInv, NEW ref \in Refs, CloseClient(ref)
  PROVE  /\ ref \in clients
         /\ clients' = clients \ {ref}
         /\ activeRefs' = clients'
         /\ activeBuffers' = Lots(Width, clients')
         /\ activePorts' = Lots(Width, clients')
         /\ UNCHANGED <<inputBufferMap, outputBufferMap>>
         /\ RemovedPorts(ref) = Lot(Width, ref)
         /\ DOMAIN ports' = activePorts'
         /\ \A id \in DOMAIN ports' : id \in DOMAIN ports /\ ports'[id] = ports[id]
<1>1. /\ activeBuffers = Lots(Width, clients)
      /\ activePorts = Lots(Width, clients)
      /\ DOMAIN ports = Lots(Width, clients)
      /\ \A c \in clients : \A id \in Lot(Width, c) : ports[id] = LotPort(c, id)
      /\ clients = activeRefs /\ clients \in SUBSET Refs
      /\ ref \in clients
  BY DEF IInv, TypeOK, Layout, BuffersInLots, PortsInLots, CloseClient
<1>2. RemovedPorts(ref) = Lot(Width, ref)
  <2>1. ASSUME NEW id \in RemovedPorts(ref) PROVE id \in Lot(Width, ref)
    <3>1. PICK c \in clients : id \in Lot(Width, c)
      BY <1>1 DEF RemovedPorts, Lots
    <3>2. ports[id].client = c
      BY <1>1, <3>1, LotPortFields
    <3> QED
      BY <3>1, <3>2 DEF RemovedPorts
  <2>2. ASSUME NEW id \in Lot(Width, ref) PROVE id \in RemovedPorts(ref)
    <3>1. id \in DOMAIN ports /\ ports[id].client = ref
      BY <1>1, LotPortFields DEF Lots
    <3>2. ASSUME NEW j \in DOMAIN ports, SamePort(ports[j], ports[id]) PROVE id <= j
      <4>1. PICK c \in clients : j \in Lot(Width, c)
        BY <1>1 DEF Lots
      <4>2. SamePort(LotPort(c, j), LotPort(ref, id))
        BY <1>1, <3>2, <4>1
      <4>3. id = j
        BY <4>1, <4>2, <1>1, LotPortInjective
      <4>4. id \in Nat
        BY LaneOfId
      <4> QED
        BY <4>3, <4>4
    <3> QED
      BY <3>1, <3>2 DEF RemovedPorts, IsFound
  <2> QED
    BY <2>1, <2>2
<1>3. BuffersOf(ref) = Lot(Width, ref)
  BY <1>1, BuffersOfLot DEF IInv, Layout, BuffersInLots, RecordsInLots
<1>4. Lots(Width, clients) \ Lot(Width, ref) = Lots(Width, clients \ {ref})
  BY <1>1, LotsShrink
<1>5. /\ clients' = clients \ {ref} /\ activeRefs' = clients'
      /\ activeBuffers' = Lots(Width, clients')
      /\ activePorts' = Lots(Width, clients')
      /\ UNCHANGED <<inputBufferMap, outputBufferMap>>
      /\ ports' = [id \in DOMAIN ports \ Lot(Width, ref) |-> ports[id]]
  BY <1>1, <1>2, <1>3, <1>4 DEF CloseClient
<1>6. /\ DOMAIN ports' = activePorts'
      /\ \A id \in DOMAIN ports' : id \in DOMAIN ports /\ ports'[id] = ports[id]
  BY <1>1, <1>4, <1>5
<1> QED
  BY <1>1, <1>2, <1>5, <1>6

-----------------------------------------------------------------------------
(* The inductive invariant                                                 *)

\* A live port belongs to a registered client, and both buffers of its
\* channel are allocated.
LEMMA LivePort ==
  ASSUME TypeOK, Layout, NEW id \in DOMAIN ports
  PROVE  /\ ports[id] \in Port
         /\ ports[id].ref = id
         /\ ports[id].client \in clients
         /\ id \in Lot(Width, ports[id].client)
         /\ ports[id].channel \in Channels
         /\ outputBufferMap[ports[id].client][ports[id].channel] \in activeBuffers
         /\ inputBufferMap[ports[id].client][ports[id].channel] \in activeBuffers
<1>1. PICK c \in clients : id \in Lot(Width, c)
  BY DEF Layout, PortsInLots, Lots
<1>2. ports[id] = LotPort(c, id)
  BY <1>1 DEF Layout, PortsInLots
<1>3. ports[id].ref = id /\ ports[id].client = c
  BY <1>2, LotPortFields
<1>4. ports[id] \in Port /\ ports[id].channel \in Channels
  BY DEF TypeOK, Port
<1>5. c \in Refs
  BY DEF TypeOK
<1> DEFINE ch == ports[id].channel
<1>6. /\ outputBufferMap[c][ch] \in Lot(Width, c)
      /\ inputBufferMap[c][ch] \in Lot(Width, c)
  <2> HIDE DEF ch
  <2>1. ch \in Channels
    BY <1>4 DEF ch
  <2> QED
    BY <2>1, <1>5, IdOfLane DEF Layout, BuffersInLots
<1>7. Lot(Width, c) \subseteq activeBuffers
  BY DEF Layout, BuffersInLots, Lots
<1> QED
  BY <1>1, <1>3, <1>4, <1>6, <1>7

\* The empty tables are laid out.
LEMMA InitIInv == Init => IInv
<1> SUFFICES ASSUME Init PROVE IInv
  OBVIOUS
<1>1. 0 \in 0 .. MaxBuffers
  BY Sizes
<1>2. TypeOK
  BY <1>1 DEF Init, TypeOK, BufferMaps
<1>3. Layout
  BY DEF Init, Layout, BuffersInLots, PortsInLots, Lots
<1>4. RoutesResolve
  BY DEF Init, RoutesResolve
<1> QED
  BY <1>2, <1>3, <1>4 DEF IInv

\* add_client keeps the invariant.
LEMMA AddKeeps ==
  ASSUME IInv, NEW ref \in Refs, AddClient(ref)
  PROVE  IInv'
<1> USE DEF IInv
<1>1. /\ ref \notin clients
      /\ clients' = clients \cup {ref}
      /\ activeRefs' = clients'
      /\ activeBuffers' = Lots(Width, clients')
      /\ activePorts' = Lots(Width, clients')
      /\ inputBufferMap' = [inputBufferMap EXCEPT ![ref] =
                              [ch \in Channels |-> Width * ref + 2 * ch]]
      /\ outputBufferMap' = [outputBufferMap EXCEPT ![ref] =
                              [ch \in Channels |-> Width * ref + 2 * ch + 1]]
      /\ DOMAIN ports' = activePorts'
      /\ \A id \in DOMAIN ports : id \notin Lot(Width, ref) /\ ports'[id] = ports[id]
      /\ \A id \in Lot(Width, ref) : ports'[id] = LotPort(ref, id)
      /\ UNCHANGED connections
  BY AddEffect
<1>2. /\ clients \in SUBSET Refs /\ clients' \in SUBSET Refs
      /\ inputBufferMap \in BufferMaps /\ outputBufferMap \in BufferMaps
  BY <1>1 DEF TypeOK
<1>3. /\ DOMAIN ports' = DOMAIN ports \cup Lot(Width, ref)
      /\ DOMAIN ports = Lots(Width, clients)
      /\ activeBuffers' = activeBuffers \cup Lot(Width, ref)
  BY <1>1, LotsGrow DEF Layout, BuffersInLots, PortsInLots
<1>4. TypeOK'
  <2>1. /\ activeBuffers' \subseteq BufferIds
        /\ activePorts' \subseteq PortIds
    BY <1>1, <1>2, LotsInTables
  <2>2. ASSUME NEW ch \in Channels
        PROVE  /\ Width * ref + 2 * ch \in 0 .. MaxBuffers
               /\ Width * ref + 2 * ch + 1 \in 0 .. MaxBuffers
    <3>1. Lot(Width, ref) \subseteq BufferIds
      BY LotsInTables DEF Lots
    <3>2. BufferIds \subseteq 0 .. MaxBuffers
      BY Sizes DEF BufferIds
    <3> QED
      BY <3>1, <3>2, IdOfLane
  <2>3. inputBufferMap' \in BufferMaps /\ outputBufferMap' \in BufferMaps
    BY <1>1, <1>2, <2>2 DEF BufferMaps
  <2>4. ASSUME NEW id \in DOMAIN ports' PROVE ports'[id] \in Port
    <3>1. CASE id \in DOMAIN ports
      BY <3>1, <1>1 DEF TypeOK
    <3>2. CASE id \in Lot(Width, ref)
      BY <3>2, <1>1, PortOfLot
    <3> QED
      BY <3>1, <3>2, <1>3
  <2> QED
    BY <2>1, <2>3, <2>4, <1>1, <1>2 DEF TypeOK
<1>5. BuffersInLots'
  <2>1. ASSUME NEW c \in clients', NEW ch \in Channels
        PROVE  /\ inputBufferMap'[c][ch] = Width * c + 2 * ch
               /\ outputBufferMap'[c][ch] = Width * c + 2 * ch + 1
    <3>1. CASE c = ref
      BY <3>1, <1>1, <1>2 DEF BufferMaps
    <3>2. CASE c # ref
      BY <3>2, <1>1, <1>2 DEF BufferMaps, Layout, BuffersInLots
    <3> QED
      BY <3>1, <3>2
  <2> QED
    BY <2>1, <1>1 DEF BuffersInLots
<1>6. PortsInLots'
  <2>1. ASSUME NEW c \in clients', NEW id \in Lot(Width, c)
        PROVE  ports'[id] = LotPort(c, id)
    <3>1. CASE c = ref
      BY <3>1, <1>1
    <3>2. CASE c # ref
      <4>1. id \in DOMAIN ports /\ ports[id] = LotPort(c, id)
        BY <3>2, <1>1, <1>3 DEF Layout, PortsInLots, Lots
      <4> QED
        BY <4>1, <1>1
    <3> QED
      BY <3>1, <3>2
  <2> QED
    BY <2>1, <1>1 DEF PortsInLots, LotPort
<1>7. RoutesResolve'
  <2> SUFFICES ASSUME NEW conn \in connections
               PROVE  /\ conn.source.ref \in DOMAIN ports' /\ ports'[conn.source.ref] = conn.source
                      /\ conn.dest.ref \in DOMAIN ports' /\ ports'[conn.dest.ref] = conn.dest
                      /\ {conn.source.client, conn.dest.client} \subseteq activeRefs'
                      /\ outputBufferMap'[conn.source.client][conn.source.channel] \in activeBuffers'
                      /\ inputBufferMap'[conn.dest.client][conn.dest.channel] \in activeBuffers'
    BY <1>1 DEF RoutesResolve
  <2>1. /\ conn.source.ref \in DOMAIN ports /\ ports[conn.source.ref] = conn.source
        /\ conn.dest.ref \in DOMAIN ports /\ ports[conn.dest.ref] = conn.dest
        /\ conn.source.client \in clients /\ conn.dest.client \in clients
        /\ outputBufferMap[conn.source.client][conn.source.channel] \in activeBuffers
        /\ inputBufferMap[conn.dest.client][conn.dest.channel] \in activeBuffers
    BY DEF RoutesResolve, Layout
  <2>2. /\ outputBufferMap'[conn.source.client] = outputBufferMap[conn.source.client]
        /\ inputBufferMap'[conn.dest.client] = inputBufferMap[conn.dest.client]
    BY <2>1, <1>1, <1>2 DEF BufferMaps
  <2> QED
    BY <2>1, <2>2, <1>1, <1>3
<1> QED
  BY <1>1, <1>4, <1>5, <1>6, <1>7 DEF Layout

\* close_client keeps the invariant.
LEMMA CloseKeeps ==
  ASSUME IInv, NEW ref \in Refs, CloseClient(ref)
  PROVE  IInv'
<1> USE DEF IInv
<1>1. /\ ref \in clients
      /\ clients' = clients \ {ref}
      /\ activeRefs' = clients'
      /\ activeBuffers' = Lots(Width, clients')
      /\ activePorts' = Lots(Width, clients')
      /\ UNCHANGED <<inputBufferMap, outputBufferMap>>
      /\ RemovedPorts(ref) = Lot(Width, ref)
      /\ DOMAIN ports' = activePorts'
      /\ \A id \in DOMAIN ports' : id \in DOMAIN ports /\ ports'[id] = ports[id]
  BY CloseEffect
<1>2. clients \in SUBSET Refs /\ clients' \in SUBSET Refs
  BY <1>1 DEF TypeOK
<1>3. connections' \subseteq connections
  BY DEF CloseClient
<1>4. TypeOK'
  <2>1. activeBuffers' \subseteq BufferIds /\ activePorts' \subseteq PortIds
    BY <1>1, <1>2, LotsInTables
  <2> QED
    BY <2>1, <1>1, <1>2, <1>3 DEF TypeOK
<1>5. BuffersInLots'
  BY <1>1 DEF Layout, BuffersInLots
<1>6. PortsInLots'
  <2>1. ASSUME NEW c \in clients', NEW id \in Lot(Width, c)
        PROVE  ports'[id] = LotPort(c, id)
    <3>1. id \in DOMAIN ports'
      BY <1>1 DEF Lots
    <3>2. ports[id] = LotPort(c, id)
      BY <1>1 DEF Layout, PortsInLots
    <3> QED
      BY <3>1, <3>2, <1>1
  <2> QED
    BY <2>1, <1>1 DEF PortsInLots, LotPort
\* A port of the closed client would have taken its connections with it.
<1>7. ASSUME NEW conn \in connections', NEW p \in {conn.source, conn.dest}
      PROVE  /\ p.ref \in DOMAIN ports' /\ ports'[p.ref] = p
             /\ p.client \in clients' /\ p.channel \in Channels
  <2>1. conn \in connections /\ p.ref \in DOMAIN ports /\ ports[p.ref] = p
    BY <1>3 DEF RoutesResolve
  <2>2. /\ p.client \in clients /\ p.channel \in Channels
        /\ p.ref \in Lot(Width, p.client)
    BY <2>1, LivePort
  <2>3. p.client # ref
    <3> SUFFICES ASSUME p.client = ref PROVE FALSE
      OBVIOUS
    <3>1. p.ref \in RemovedPorts(ref)
      BY <2>2, <1>1
    <3>2. Touches(conn, p.ref)
      BY <2>1 DEF Touches, SamePort
    <3> QED
      BY <3>1, <3>2 DEF CloseClient
  <2>4. p.client \in clients' /\ p.ref \in DOMAIN ports'
    BY <2>2, <2>3, <1>1 DEF Lots
  <2> QED
    BY <2>1, <2>2, <2>4, <1>1
<1>8. ASSUME NEW c \in clients', NEW ch \in Channels
      PROVE  outputBufferMap'[c][ch] \in activeBuffers' /\ inputBufferMap'[c][ch] \in activeBuffers'
  <2>1. /\ inputBufferMap'[c][ch] = Width * c + 2 * ch
        /\ outputBufferMap'[c][ch] = Width * c + 2 * ch + 1
    BY <1>5 DEF BuffersInLots
  <2>2. c \in Refs
    BY <1>2
  <2> QED
    BY <2>1, <2>2, <1>1, IdOfLane DEF Lots
<1>9. RoutesResolve'
  BY <1>1, <1>7, <1>8 DEF RoutesResolve
<1> QED
  BY <1>1, <1>4, <1>5, <1>6, <1>9 DEF Layout

\* connect_ports keeps the invariant.
LEMMA ConnectKeeps ==
  ASSUME IInv, NEW a \in PortIds, NEW b \in PortIds, ConnectPorts(a, b)
  PROVE  IInv'
<1> USE DEF IInv
<1> DEFINE new == [source |-> ports[a], dest |-> ports[b]]
<1>1. /\ a \in DOMAIN ports /\ b \in DOMAIN ports
      /\ connections' = connections \cup {new}
      /\ UNCHANGED <<activeRefs, clients, inputBufferMap, outputBufferMap,
                     activeBuffers, activePorts, ports>>
  BY DEF ConnectPorts, PushConnection
<1>2. TypeOK'
  <2>1. new \in Connection
    BY <1>1, LivePort DEF Connection
  <2> QED
    BY <1>1, <2>1 DEF TypeOK
<1>3. Layout'
  BY <1>1 DEF Layout, BuffersInLots, PortsInLots, LotPort
<1>4. RoutesResolve'
  <2>1. clients = activeRefs
    BY DEF Layout
  <2> QED
    BY <1>1, <2>1, LivePort DEF RoutesResolve
<1> QED
  BY <1>2, <1>3, <1>4

\* IInv holds in every reachable state of the tables.
THEOREM TablesInvariant == Spec => []IInv
<1>1. Init => IInv
  BY InitIInv
<1>2. IInv /\ [Next]_vars => IInv'
  <2> SUFFICES ASSUME IInv, [Next]_vars PROVE IInv'
    OBVIOUS
  <2>1. ASSUME NEW ref \in Refs, AddClient(ref) PROVE IInv'
    BY <2>1, AddKeeps
  <2>2. ASSUME NEW ref \in Refs, CloseClient(ref) PROVE IInv'
    BY <2>2, CloseKeeps
  <2>3. ASSUME NEW a \in PortIds, NEW b \in PortIds, ConnectPorts(a, b) PROVE IInv'
    BY <2>3, ConnectKeeps
  <2>4. CASE UNCHANGED vars
    BY <2>4 DEF vars, IInv, TypeOK, Layout, BuffersInLots, PortsInLots, LotPort, RoutesResolve
  <2> QED
    BY <2>1, <2>2, <2>3, <2>4 DEF Next
<1> QED
  BY <1>1, <1>2, PTL DEF Spec

-----------------------------------------------------------------------------
(* What the invariant gives                                                *)

\* Every id in the tables is inside its array, and ports and connections are
\* well formed.
THEOREM TypeCorrect == Spec => []TypeOK
<1>1. IInv => TypeOK
  BY DEF IInv
<1> QED
  BY <1>1, TablesInvariant, PTL

\* The layouts of the three tables never drift apart: whatever clients come
\* and go, number r owns lot r.
THEOREM LayoutKept == Spec => []Layout
<1>1. IInv => Layout
  BY DEF IInv
<1> QED
  BY <1>1, TablesInvariant, PTL

\* process() never meets a connection whose client has gone.
THEOREM RoutesStayResolved == Spec => []RoutesResolve
<1>1. IInv => RoutesResolve
  BY DEF IInv
<1> QED
  BY <1>1, TablesInvariant, PTL

\* Clients whose records name their lots share no buffer.
LEMMA RecordsExclusive ==
  ASSUME RecordsInLots, clients \subseteq Refs
  PROVE  BuffersExclusive
<1> SUFFICES ASSUME NEW c \in clients, NEW d \in clients,
                    NEW x \in Lanes, NEW y \in Lanes,
                    BufferAt(c, x) = BufferAt(d, y)
             PROVE  c = d /\ x = y
  BY DEF BuffersExclusive
<1>1. c \in Refs /\ d \in Refs
  OBVIOUS
<1>2. ASSUME NEW e \in clients, NEW z \in Lanes
      PROVE  /\ BufferAt(e, z) \in Lot(Width, e)
             /\ BufferAt(e, z) = Width * e + 2 * z[1] + (IF z[2] THEN 0 ELSE 1)
  <2>1. z[1] \in Channels /\ z[2] \in BOOLEAN /\ e \in Refs
    BY DEF Lanes
  <2>2. /\ inputBufferMap[e][z[1]] = Width * e + 2 * z[1]
        /\ outputBufferMap[e][z[1]] = Width * e + 2 * z[1] + 1
    BY <2>1 DEF RecordsInLots
  <2>3. Width * e + 2 * z[1] \in Nat
    BY <2>1, IdOfLane, LaneOfId
  <2> QED
    BY <2>1, <2>2, <2>3, IdOfLane DEF BufferAt
<1>3. c = d
  <2>1. c \in Nat /\ d \in Nat /\ Width \in Nat
    BY <1>1, LotFits, Sizes
  <2> QED
    BY <1>2, <2>1, LotsDisjoint
<1> DEFINE s == Width * c
<1>4. /\ s + 2 * x[1] + (IF x[2] THEN 0 ELSE 1) = s + 2 * y[1] + (IF y[2] THEN 0 ELSE 1)
      /\ s \in Nat
  BY <1>1, <1>2, <1>3, LotFits
<1> HIDE DEF s
<1>5. /\ x[1] \in Nat /\ y[1] \in Nat
      /\ x[2] \in BOOLEAN /\ y[2] \in BOOLEAN
      /\ x = <<x[1], x[2]>> /\ y = <<y[1], y[2]>>
  BY SizesAssumption DEF Lanes, Channels
<1>6. x[1] = y[1] /\ x[2] = y[2]
  BY <1>4, <1>5
<1> QED
  BY <1>3, <1>5, <1>6

\* Two registered clients, channels or directions never share a buffer.
THEOREM BuffersStayExclusive == Spec => []BuffersExclusive
<1>1. IInv => BuffersExclusive
  BY RecordsExclusive DEF IInv, TypeOK, Layout, BuffersInLots, RecordsInLots
<1> QED
  BY <1>1, TablesInvariant, PTL

\* No buffer leaks and none is in use while free.
THEOREM BuffersStayAccounted == Spec => []BuffersAccounted
<1>1. IInv => BuffersAccounted
  <2> SUFFICES ASSUME IInv PROVE BuffersAccounted
    OBVIOUS
  <2>1. clients \subseteq Refs /\ BuffersInLots
    BY DEF IInv, TypeOK, Layout
  <2>2. \A c \in clients : BuffersOf(c) = Lot(Width, c)
    BY <2>1, BuffersOfLot DEF BuffersInLots, RecordsInLots
  <2> QED
    BY <2>1, <2>2 DEF BuffersAccounted, BuffersInLots, Lots
<1> QED
  BY <1>1, TablesInvariant, PTL

\* A lane is its channel and its direction.
LEMMA HalvesOfLane ==
  ASSUME NEW q \in Nat
  PROVE  /\ (2 * q) \div 2 = q /\ (2 * q) % 2 = 0
         /\ (2 * q + 1) \div 2 = q /\ (2 * q + 1) % 2 = 1
OBVIOUS

\* Each registered client has exactly one port per channel and direction.
THEOREM PortsStayOwned == Spec => []PortsOwned
<1>1. IInv => PortsOwned
  <2> SUFFICES ASSUME IInv PROVE PortsOwned
    OBVIOUS
  <2>1. /\ DOMAIN ports = activePorts
        /\ activePorts = Lots(Width, clients)
        /\ \A c \in clients : \A id \in Lot(Width, c) : ports[id] = LotPort(c, id)
        /\ clients \subseteq Refs
    BY DEF IInv, TypeOK, Layout, PortsInLots
  <2>2. ASSUME NEW id \in activePorts
        PROVE  ports[id].ref = id /\ ports[id].client \in clients
    BY <2>1, LivePort DEF IInv
  <2>3. ASSUME NEW c \in clients, NEW x \in Lanes
        PROVE  \E id \in activePorts :
                 {j \in activePorts : /\ ports[j].client = c
                                      /\ ports[j].channel = x[1]
                                      /\ ports[j].input = x[2]} = {id}
    <3> DEFINE id == Width * c + 2 * x[1] + (IF x[2] THEN 0 ELSE 1)
    <3>1. x[1] \in Channels /\ x[2] \in BOOLEAN /\ c \in Refs
      BY <2>1 DEF Lanes
    <3>2. id \in Lot(Width, c)
      <4>1. /\ Width * c + 2 * x[1] \in Lot(Width, c)
            /\ Width * c + 2 * x[1] + 1 \in Lot(Width, c)
            /\ Width * c + 2 * x[1] \in Nat
        BY <3>1, IdOfLane, LaneOfId
      <4> QED
        BY <4>1
    <3>3. LotPort(c, id).channel = x[1] /\ LotPort(c, id).input = x[2]
      <4> DEFINE k == id - Width * c
      <4>1. k = 2 * x[1] + (IF x[2] THEN 0 ELSE 1) /\ x[1] \in Nat
        <5>1. Width * c \in Nat /\ x[1] \in Nat
          BY <3>1, LotFits, SizesAssumption DEF Channels
        <5> QED
          BY <5>1
      <4> HIDE DEF k
      <4>2. k \div 2 = x[1] /\ (k % 2 = 0) = x[2]
        <5>1. CASE x[2] = TRUE
          <6>1. k = 2 * x[1]
            BY <4>1, <5>1
          <6> QED
            BY <4>1, <5>1, <6>1, HalvesOfLane
        <5>2. CASE x[2] = FALSE
          <6>1. k = 2 * x[1] + 1
            BY <4>1, <5>2
          <6>2. k \div 2 = x[1] /\ k % 2 = 1
            BY <4>1, <6>1, HalvesOfLane
          <6>3. (k % 2 = 0) = FALSE
            BY <6>2
          <6> QED
            BY <5>2, <6>2, <6>3, Zenon
        <5> QED
          BY <5>1, <5>2, <3>1
      <4> HIDE DEF id
      <4> QED
        BY <4>2 DEF LotPort, k
    <3> HIDE DEF id
    <3>4. id \in activePorts /\ ports[id] = LotPort(c, id)
      BY <2>1, <3>2 DEF Lots
    <3>5. ASSUME NEW j \in activePorts, ports[j].client = c,
                 ports[j].channel = x[1], ports[j].input = x[2]
          PROVE  j = id
      <4>1. j \in Lot(Width, c)
        BY <2>1, <3>5, LivePort DEF IInv
      <4>2. ports[j] = LotPort(c, j)
        BY <2>1, <4>1
      <4>3. SamePort(LotPort(c, j), LotPort(c, id))
        BY <3>3, <3>4, <3>5, <4>2, LotPortFields DEF SamePort
      <4> QED
        BY <3>1, <3>2, <4>1, <4>3, LotPortInjective
    <3> QED
      BY <3>3, <3>4, <3>5, LotPortFields
  <2> QED
    BY <2>1, <2>2, <2>3 DEF PortsOwned
<1> QED
  BY <1>1, TablesInvariant, PTL

-----------------------------------------------------------------------------
(* Steps                                                                   *)

\* What close_client erases is what touches the closed client.
LEMMA ErasedConnections ==
  ASSUME IInv, NEW ref \in Refs, CloseClient(ref)
  PROVE  connections' = {conn \in connections :
                           conn.source.client # ref /\ conn.dest.client # ref}
<1>1. RemovedPorts(ref) = Lot(Width, ref) /\ ref \in clients
  BY CloseEffect
<1>2. ASSUME NEW conn \in connections, NEW id \in RemovedPorts(ref), Touches(conn, id)
      PROVE  conn.source.client = ref \/ conn.dest.client = ref
  BY <1>2 DEF RemovedPorts, Touches, SamePort
<1>3. ASSUME NEW conn \in connections, NEW p \in {conn.source, conn.dest}, p.client = ref
      PROVE  \E id \in RemovedPorts(ref) : Touches(conn, id)
  <2>1. p.ref \in DOMAIN ports /\ ports[p.ref] = p
    BY DEF IInv, RoutesResolve
  <2>2. p.ref \in Lot(Width, ref)
    BY <2>1, <1>3, LivePort DEF IInv
  <2>3. Touches(conn, p.ref)
    BY <2>1 DEF Touches, SamePort
  <2> QED
    BY <1>1, <2>2, <2>3
<1>4. connections' = {conn \in connections : \A id \in RemovedPorts(ref) : ~Touches(conn, id)}
  BY DEF CloseClient
<1> QED
  BY <1>2, <1>3, <1>4

\* While a client stays registered no call for another changes its buffers,
\* its ports or the connections among those that stay.
THEOREM NeighboursStayUndisturbed == Spec => NeighboursUndisturbed
<1>1. IInv /\ [Next]_vars => [Undisturbed]_vars
  <2> SUFFICES ASSUME IInv, Next PROVE Undisturbed
    BY DEF Undisturbed
  <2>1. ASSUME NEW ref \in Refs, AddClient(ref) PROVE Undisturbed
    <3>1. /\ ref \notin clients
          /\ inputBufferMap' = [inputBufferMap EXCEPT ![ref] =
                                  [ch \in Channels |-> Width * ref + 2 * ch]]
          /\ outputBufferMap' = [outputBufferMap EXCEPT ![ref] =
                                  [ch \in Channels |-> Width * ref + 2 * ch + 1]]
          /\ \A id \in DOMAIN ports : ports'[id] = ports[id]
          /\ DOMAIN ports' = activePorts'
          /\ UNCHANGED connections
      BY <2>1, AddEffect
    <3>2. /\ activeBuffers \subseteq activeBuffers'
          /\ activePorts \subseteq activePorts'
      BY <2>1 DEF AddClient
    <3>3. DOMAIN ports = activePorts /\ clients \subseteq Refs
          /\ inputBufferMap \in BufferMaps /\ outputBufferMap \in BufferMaps
      BY DEF IInv, TypeOK, Layout, PortsInLots
    <3>4. ASSUME NEW c \in clients
          PROVE  inputBufferMap'[c] = inputBufferMap[c] /\ outputBufferMap'[c] = outputBufferMap[c]
      BY <3>1, <3>3 DEF BufferMaps
    <3> QED
      BY <3>1, <3>2, <3>3, <3>4 DEF Undisturbed
  <2>2. ASSUME NEW ref \in Refs, CloseClient(ref) PROVE Undisturbed
    <3>1. /\ clients' = clients \ {ref}
          /\ UNCHANGED <<inputBufferMap, outputBufferMap>>
          /\ activeBuffers' = Lots(Width, clients')
          /\ DOMAIN ports' = Lots(Width, clients')
          /\ \A id \in DOMAIN ports' : ports'[id] = ports[id]
      BY <2>2, CloseEffect
    <3>2. clients \subseteq Refs /\ BuffersInLots
      BY DEF IInv, TypeOK, Layout
    <3>3. ASSUME NEW c \in clients \cap clients'
          PROVE  BuffersOf(c) \subseteq activeBuffers'
      BY <3>1, <3>2, BuffersOfLot DEF Lots, BuffersInLots, RecordsInLots
    <3>4. ASSUME NEW id \in DOMAIN ports, ports[id].client \in clients'
          PROVE  id \in DOMAIN ports'
      BY <3>1, <3>4, LivePort DEF IInv, Lots
    <3>5. connections' = {conn \in connections :
                            conn.source.client # ref /\ conn.dest.client # ref}
      BY <2>2, ErasedConnections
    <3> QED
      BY <3>1, <3>3, <3>4, <3>5 DEF Undisturbed
  <2>3. ASSUME NEW a \in PortIds, NEW b \in PortIds, ConnectPorts(a, b) PROVE Undisturbed
    BY <2>3 DEF ConnectPorts, PushConnection, Undisturbed
  <2> QED
    BY <2>1, <2>2, <2>3 DEF Next
<1> QED
  BY <1>1, TablesInvariant, PTL DEF Spec, NeighboursUndisturbed

-----------------------------------------------------------------------------
(* Implementation of the patch bay                                         *)

Jacks == [c \in Refs |-> {c} \X Channels \X BOOLEAN]
PatchOf(conn) == <<JackOf(conn.source), JackOf(conn.dest)>>
Patches == {PatchOf(conn) : conn \in connections}

\* The jack of a port is a jack of its client and of no other.
LEMMA JackOfClient ==
  ASSUME NEW p \in Port, NEW c \in Refs
  PROVE  JackOf(p) \in Jacks[c] <=> p.client = c
BY DEF JackOf, Jacks, Port

\* The tables implement the patch bay: every call is a patch bay step, or
\* changes nothing there.
THEOREM TablesImplementPatchbay == Spec => ImplementsPatchbay
<1> USE DEF Jacks, Patches, PatchOf
<1>1. Init => PB!Init
  BY DEF Init, PB!Init
<1>2. IInv /\ [Next]_vars => [PB!Next]_PB!vars
  <2> SUFFICES ASSUME IInv, [Next]_vars PROVE [PB!Next]_PB!vars
    OBVIOUS
  <2>0. /\ clients = activeRefs /\ clients \subseteq Refs
        /\ \A conn \in connections : conn.source \in Port /\ conn.dest \in Port
    BY DEF IInv, TypeOK, Layout, Connection
  <2>1. ASSUME NEW ref \in Refs, AddClient(ref) PROVE PB!Join(ref)
    BY <2>0, <2>1, AddEffect DEF PB!Join
  <2>2. ASSUME NEW ref \in Refs, CloseClient(ref) PROVE PB!Leave(ref)
    <3>1. connections' = {conn \in connections :
                            conn.source.client # ref /\ conn.dest.client # ref}
      BY <2>2, ErasedConnections
    <3>2. \A conn \in connections :
            /\ PatchOf(conn)[1] \in Jacks[ref] <=> conn.source.client = ref
            /\ PatchOf(conn)[2] \in Jacks[ref] <=> conn.dest.client = ref
      BY <2>0, JackOfClient
    <3> HIDE DEF Jacks, PatchOf
    <3>3. Patches' = {p \in Patches : p[1] \notin Jacks[ref] /\ p[2] \notin Jacks[ref]}
      BY <3>1, <3>2
    <3>4. ref \in activeRefs /\ activeRefs' = activeRefs \ {ref}
      BY <2>0, <2>2 DEF CloseClient
    <3> QED
      BY <3>3, <3>4 DEF PB!Leave, Jacks, PatchOf
  <2>3. ASSUME NEW a \in PortIds, NEW b \in PortIds, ConnectPorts(a, b)
        PROVE  \E x, y \in PB!OnlineJacks : PB!Patch(x, y)
    <3> DEFINE x == JackOf(ports[a])
               y == JackOf(ports[b])
               new == [source |-> ports[a], dest |-> ports[b]]
    <3>1. /\ connections' = connections \cup {new}
          /\ activeRefs' = activeRefs
          /\ a \in DOMAIN ports /\ b \in DOMAIN ports
      BY <2>3 DEF ConnectPorts, PushConnection
    <3>2. x \in PB!OnlineJacks /\ y \in PB!OnlineJacks
      <4>1. ASSUME NEW id \in DOMAIN ports
            PROVE  JackOf(ports[id]) \in PB!OnlineJacks
        <5>1. ports[id] \in Port /\ ports[id].client \in activeRefs
          BY <2>0, LivePort DEF IInv
        <5>2. ports[id].client \in Refs /\ JackOf(ports[id]) \in Jacks[ports[id].client]
          BY <5>1, <2>0, JackOfClient
        <5> QED
          BY <5>1, <5>2 DEF PB!OnlineJacks
      <4> QED
        BY <3>1, <4>1
    <3>3. <<x, y>> \notin Patches
      BY <2>3 DEF ConnectPorts, PushConnection, Connected, SamePort, JackOf
    <3>4. Patches' = Patches \cup {<<x, y>>}
      <4>1. PatchOf(new) = <<x, y>>
        OBVIOUS
      <4>2. Patches' = {PatchOf(conn) : conn \in connections'}
        OBVIOUS
      <4> HIDE DEF PatchOf, new
      <4> QED
        BY <4>1, <4>2, <3>1
    <3>5. PB!Patch(x, y)
      BY <3>1, <3>2, <3>3, <3>4 DEF PB!Patch
    <3> QED
      BY <3>2, <3>5
  <2>4. CASE UNCHANGED vars
    BY <2>4 DEF vars, PB!vars
  <2> QED
    BY <2>1, <2>2, <2>3, <2>4 DEF Next, PB!Next
<1> QED
  BY <1>1, <1>2, TablesInvariant, PTL DEF Spec, ImplementsPatchbay, PB!Spec

-----------------------------------------------------------------------------
(* The ports without the records                                           *)

\* What is left of IInv when the map of clients is emptied and the records are
\* made anew under registered clients, as the server does when it is closed and
\* opened again, and when a connection is added of ports that are gone: the ports
\* follow the reference numbers, and whatever a connection has copied is what
\* the port of that client is whenever the client has one.
IsCopy(p) == p.client \in Refs /\ p.ref \in Lot(Width, p.client) /\ p = LotPort(p.client, p.ref)

PortsInv ==
  /\ activeRefs \subseteq Refs /\ clients \subseteq activeRefs
  /\ activePorts = Lots(Width, activeRefs)
  /\ DOMAIN ports = activePorts
  /\ \A c \in activeRefs : \A id \in Lot(Width, c) : ports[id] = LotPort(c, id)
  /\ \A conn \in connections : IsCopy(conn.source) /\ IsCopy(conn.dest)

\* A port that is in the map is that of its id and of a number that is taken.
LEMMA PortOfNumber ==
  ASSUME PortsInv, NEW id \in DOMAIN ports
  PROVE  /\ ports[id].ref = id
         /\ ports[id].client \in activeRefs
         /\ id \in Lot(Width, ports[id].client)
         /\ IsCopy(ports[id])
<1>1. PICK c \in activeRefs : id \in Lot(Width, c)
  BY DEF PortsInv, Lots
<1>2. ports[id] = LotPort(c, id)
  BY <1>1 DEF PortsInv
<1> QED
  BY <1>1, <1>2, LotPortFields DEF IsCopy, PortsInv

\* add_client gives the new number the ports of its lot.
LEMMA AddKeepsPorts ==
  ASSUME PortsInv, NEW ref \in Refs, AddClient(ref)
  PROVE  PortsInv'
<1> USE DEF PortsInv
<1>1. /\ ref \in Nat /\ Width \in Nat \ {0} /\ MaxPorts \in Nat
      /\ Width * ref + Width <= MaxPorts
      /\ activeRefs \in SUBSET Nat
      /\ IsFirstFree(activeRefs, ref)
  BY LotFits, Sizes DEF AddClient
<1>2. NewPorts = Lot(Width, ref)
  BY <1>1, FirstFreeLot DEF NewPorts, Width
<1>3. ASSUME NEW id \in Lot(Width, ref)
      PROVE  id \notin DOMAIN ports /\ NewPort(ref, id) = LotPort(ref, id)
  <2> DEFINE lots == Lots(Width, activeRefs)
  <2>1. /\ id \in FreeIds(lots, MaxPorts)
        /\ Rank(lots, MaxPorts, id) = id - Width * ref
    BY <1>1, RankInFirstLot
  <2> QED
    BY <2>1 DEF FreeIds, NewPort, LotPort
<1>4. /\ activeRefs' = activeRefs \cup {ref} /\ clients' = clients \cup {ref}
      /\ activePorts' = activePorts \cup Lot(Width, ref)
      /\ ports' = [id \in DOMAIN ports \cup Lot(Width, ref) |->
                     IF id \in DOMAIN ports THEN ports[id] ELSE NewPort(ref, id)]
      /\ UNCHANGED connections
  BY <1>2 DEF AddClient
<1>5. activePorts' = Lots(Width, activeRefs') /\ DOMAIN ports' = activePorts'
  BY <1>4, LotsGrow
<1>6. ASSUME NEW c \in activeRefs', NEW id \in Lot(Width, c)
      PROVE  ports'[id] = LotPort(c, id)
  <2>1. CASE c \in activeRefs
    <3>1. id \in DOMAIN ports /\ ports[id] = LotPort(c, id)
      BY <2>1 DEF Lots
    <3> QED
      BY <3>1, <1>4
  <2>2. CASE c = ref
    BY <2>2, <1>3, <1>4
  <2> QED
    BY <2>1, <2>2, <1>4
<1>8. activeRefs' \subseteq Refs /\ clients' \subseteq activeRefs'
  BY <1>4
<1> QED
  BY <1>4, <1>5, <1>6, <1>8 DEF LotPort, IsCopy

\* The ports that close_client finds are all those of its number.
LEMMA RemovedLot ==
  ASSUME PortsInv, NEW ref \in activeRefs
  PROVE  RemovedPorts(ref) = Lot(Width, ref)
<1> USE DEF PortsInv
<1>1. ASSUME NEW id \in RemovedPorts(ref) PROVE id \in Lot(Width, ref)
  BY PortOfNumber DEF RemovedPorts
<1>2. ASSUME NEW id \in Lot(Width, ref) PROVE id \in RemovedPorts(ref)
  <2>1. id \in DOMAIN ports /\ ports[id].client = ref
    BY LotPortFields DEF Lots
  <2>2. ASSUME NEW j \in DOMAIN ports, SamePort(ports[j], ports[id]) PROVE id <= j
    <3>1. PICK c \in activeRefs : j \in Lot(Width, c)
      BY DEF Lots
    <3>2. SamePort(LotPort(c, j), LotPort(ref, id))
      BY <2>2, <3>1
    <3>3. id = j
      BY <3>1, <3>2, LotPortInjective
    <3>4. id \in Nat
      BY LaneOfId
    <3> QED
      BY <3>3, <3>4
  <2> QED
    BY <2>1, <2>2 DEF RemovedPorts, IsFound
<1> QED
  BY <1>1, <1>2

\* close_client takes the ports of the number, and the connections with them,
\* whatever buffers its record names.
LEMMA CloseKeepsPorts ==
  ASSUME PortsInv, NEW ref \in Refs, CloseClient(ref)
  PROVE  PortsInv'
<1> USE DEF PortsInv
<1>1. ref \in activeRefs
  BY DEF CloseClient
<1>2. RemovedPorts(ref) = Lot(Width, ref)
  BY <1>1, RemovedLot
<1>3. /\ activeRefs' = activeRefs \ {ref} /\ clients' = clients \ {ref}
      /\ activePorts' = Lots(Width, activeRefs')
      /\ ports' = [id \in DOMAIN ports \ Lot(Width, ref) |-> ports[id]]
  BY <1>1, <1>2, LotsShrink DEF CloseClient
<1>4. DOMAIN ports' = activePorts'
  BY <1>1, <1>3, LotsShrink
<1>5. ASSUME NEW c \in activeRefs', NEW id \in Lot(Width, c)
      PROVE  ports'[id] = LotPort(c, id)
  <2>1. id \in DOMAIN ports'
    BY <1>4, <1>3 DEF Lots
  <2>2. ports[id] = LotPort(c, id)
    BY <1>3
  <2> QED
    BY <2>1, <2>2, <1>3
<1>6. connections' \subseteq connections
  BY DEF CloseClient
<1> QED
  BY <1>3, <1>4, <1>5, <1>6 DEF LotPort, IsCopy

\* A connection that has a copy of a port of the number goes with the number.
LEMMA CloseTakesConnections ==
  ASSUME PortsInv, NEW ref \in Refs, CloseClient(ref), NEW conn \in connections'
  PROVE  conn \in connections /\ conn.source.client # ref /\ conn.dest.client # ref
<1>1. conn \in connections /\ ref \in activeRefs
  BY DEF CloseClient, PortsInv
<1>2. ASSUME NEW p \in {conn.source, conn.dest}, p.client = ref PROVE FALSE
  <2>1. p.ref \in RemovedPorts(ref) /\ p = LotPort(ref, p.ref)
    BY <1>1, <1>2, RemovedLot DEF PortsInv, IsCopy
  <2>2. ports[p.ref] = p
    BY <1>1, <1>2, <2>1, RemovedLot DEF PortsInv
  <2>3. Touches(conn, p.ref)
    BY <2>2 DEF Touches, SamePort
  <2> QED
    BY <2>1, <2>3 DEF CloseClient
<1> QED
  BY <1>1, <1>2

\* The end of connect_ports adds a connection of two copies, of ports that may
\* be gone.
LEMMA PushKeepsPorts ==
  ASSUME PortsInv, NEW p, NEW q, IsCopy(p), IsCopy(q), PushConnection(p, q)
  PROVE  PortsInv'
BY DEF PortsInv, PushConnection, IsCopy, LotPort

\* Of what the rest of the server does to the tables, the ports notice nothing.
LEMMA PortsKept ==
  ASSUME PortsInv, clients' \subseteq clients,
         UNCHANGED <<activeRefs, activePorts, ports, connections>>
  PROVE  PortsInv'
BY DEF PortsInv, LotPort, IsCopy

\* The ports are those of the numbers.
LEMMA PortsInvGives ==
  ASSUME PortsInv
  PROVE  /\ activePorts = Lots(Width, activeRefs)
         /\ DOMAIN ports = activePorts
         /\ \A id \in activePorts : ports[id].client = id \div Width
<1>1. ASSUME NEW id \in DOMAIN ports PROVE ports[id].client = id \div Width
  <2>1. PICK c \in activeRefs : c = ports[id].client /\ id \in Lot(Width, c)
    BY PortOfNumber
  <2>2. c \in Nat /\ id \in Int /\ Width * c <= id /\ id < Width * c + Width
    BY <2>1, LotFits, LotBounds, Sizes DEF PortsInv
  <2>3. id \div Width = c
    <3> DEFINE W == Width
               k == id - W * c
    <3>1. W \in Nat \ {0} /\ c \in Nat /\ W * c \in Nat /\ W * c = c * W
      BY <2>2, Sizes
    <3>2. k \in 0 .. W - 1 /\ id = c * W + k
      BY <2>2, <3>1
    <3> HIDE DEF W, k
    <3>3. (c * W + k) \div W = c
      BY <3>1, <3>2, SMT
    <3> QED
      BY <3>2, <3>3 DEF W
  <2> QED
    BY <2>1, <2>3
<1> QED
  BY <1>1, PortOfNumber DEF PortsInv

\* The buffers too, as long as the records are those that add_client made.
BuffersInv ==
  /\ activeBuffers = Lots(Width, activeRefs)
  /\ inputBufferMap \in BufferMaps /\ outputBufferMap \in BufferMaps
  /\ RecordsInLots

\* At first there is no client and every record is zero.
LEMMA InitBuffers == Init => BuffersInv
<1>1. 0 \in 0 .. MaxBuffers
  BY Sizes
<1> QED
  BY <1>1 DEF Init, BuffersInv, RecordsInLots, BufferMaps, Lots

\* A client that registers gets the pairs of buffers of its own lot: the free
\* ids that the code takes one by one are those.
LEMMA AddKeepsBuffers ==
  ASSUME PortsInv, BuffersInv, NEW ref \in Refs, AddClient(ref)
  PROVE  BuffersInv'
<1>1. /\ ref \in Nat /\ Width \in Nat \ {0} /\ MaxBuffers \in Nat
      /\ Width * ref + Width <= MaxBuffers
      /\ activeRefs \in SUBSET Nat
      /\ IsFirstFree(activeRefs, ref)
  BY LotFits, Sizes DEF AddClient, PortsInv
<1>2. /\ Take(activeBuffers, MaxBuffers, Width) = Lot(Width, ref)
      /\ \A k \in 0 .. Width - 1 : Nth(activeBuffers, MaxBuffers, k) = Width * ref + k
  BY <1>1, FirstFreeLot DEF BuffersInv
<1>3. ASSUME NEW ch \in Channels
      PROVE  /\ Nth(activeBuffers, MaxBuffers, 2 * ch) = Width * ref + 2 * ch
             /\ Nth(activeBuffers, MaxBuffers, 2 * ch + 1) = Width * ref + 2 * ch + 1
             /\ Width * ref + 2 * ch \in 0 .. MaxBuffers
             /\ Width * ref + 2 * ch + 1 \in 0 .. MaxBuffers
  <2>1. 2 * ch \in 0 .. Width - 1 /\ 2 * ch + 1 \in 0 .. Width - 1
    BY SizesAssumption DEF Channels, Width
  <2>2. /\ Nth(activeBuffers, MaxBuffers, 2 * ch) = Width * ref + 2 * ch
        /\ Nth(activeBuffers, MaxBuffers, 2 * ch + 1) = Width * ref + (2 * ch + 1)
    BY <2>1, <1>2
  <2> DEFINE s == Width * ref
  <2>3. s \in Nat /\ s + Width <= MaxBuffers
    BY <1>1, LotFits
  <2> HIDE DEF s
  <2>4. /\ s + (2 * ch + 1) = s + 2 * ch + 1
        /\ s + 2 * ch \in 0 .. MaxBuffers /\ s + 2 * ch + 1 \in 0 .. MaxBuffers
    BY <2>1, <2>3, <1>1, SizesAssumption DEF Channels
  <2> QED
    BY <2>2, <2>4 DEF s
<1>4. /\ clients' = clients \cup {ref} /\ activeRefs' = activeRefs \cup {ref}
      /\ activeBuffers' = activeBuffers \cup Lot(Width, ref)
  BY <1>2 DEF AddClient, Width
<1>5. /\ inputBufferMap' = [inputBufferMap EXCEPT ![ref] =
                               [ch \in Channels |-> Width * ref + 2 * ch]]
      /\ outputBufferMap' = [outputBufferMap EXCEPT ![ref] =
                               [ch \in Channels |-> Width * ref + 2 * ch + 1]]
  BY <1>3 DEF AddClient
<1>6. activeBuffers' = Lots(Width, activeRefs')
  BY <1>4, LotsGrow DEF BuffersInv
<1>7. inputBufferMap' \in BufferMaps /\ outputBufferMap' \in BufferMaps
  BY <1>3, <1>5 DEF BufferMaps, BuffersInv
<1>8. ASSUME NEW c \in clients', NEW ch \in Channels
      PROVE  /\ inputBufferMap'[c][ch] = Width * c + 2 * ch
             /\ outputBufferMap'[c][ch] = Width * c + 2 * ch + 1
  <2>1. CASE c = ref
    BY <2>1, <1>5 DEF BufferMaps, BuffersInv
  <2>2. CASE c # ref
    BY <2>2, <1>4, <1>5 DEF BufferMaps, BuffersInv, RecordsInLots
  <2> QED
    BY <2>1, <2>2
<1> QED
  BY <1>6, <1>7, <1>8 DEF BuffersInv, RecordsInLots

\* After any step, too, records that are those of the lots name the lots.
LEMMA NextRecordsNameLots ==
  (RecordsInLots => \A c \in clients \cap Refs : BuffersOf(c) = Lot(Width, c))'
<1>1. RecordsInLots => \A c \in clients \cap Refs : BuffersOf(c) = Lot(Width, c)
  BY BuffersOfLot
<1> QED
  BY <1>1, PTL

\* What a new client finds in its record is its lot.
LEMMA NewClientHasLot ==
  ASSUME PortsInv, BuffersInv, NEW ref \in Refs, AddClient(ref)
  PROVE  BuffersOf(ref)' = Lot(Width, ref)
<1>1. RecordsInLots' /\ ref \in (clients \cap Refs)'
  BY AddKeepsBuffers DEF BuffersInv, AddClient, Refs
<1> QED
  BY <1>1, NextRecordsNameLots

\* A client that leaves gives back its lot and no more.
LEMMA CloseKeepsBuffers ==
  ASSUME PortsInv, BuffersInv, NEW ref \in Refs, CloseClient(ref)
  PROVE  BuffersInv'
<1>1. ref \in clients /\ ref \in activeRefs /\ activeRefs \in SUBSET Refs
  BY DEF CloseClient, PortsInv
<1>2. BuffersOf(ref) = Lot(Width, ref)
  BY <1>1, BuffersOfLot DEF BuffersInv
<1>3. /\ activeRefs' = activeRefs \ {ref} /\ clients' = clients \ {ref}
      /\ activeBuffers' = activeBuffers \ Lot(Width, ref)
      /\ UNCHANGED <<inputBufferMap, outputBufferMap>>
  BY <1>2 DEF CloseClient
<1>4. activeBuffers' = Lots(Width, activeRefs')
  BY <1>1, <1>3, LotsShrink DEF BuffersInv
<1> QED
  BY <1>3, <1>4 DEF BuffersInv, RecordsInLots

\* Clients may be forgotten, and records made anew when there is no client.
LEMMA BuffersKept ==
  ASSUME BuffersInv, UNCHANGED <<activeRefs, activeBuffers>>,
         \/ /\ clients' \subseteq clients
            /\ UNCHANGED <<inputBufferMap, outputBufferMap>>
         \/ /\ clients' = {}
            /\ inputBufferMap' = [r \in Refs |-> [ch \in Channels |-> 0]]
            /\ outputBufferMap' = [r \in Refs |-> [ch \in Channels |-> 0]]
  PROVE  BuffersInv'
<1>1. 0 \in 0 .. MaxBuffers
  BY Sizes
<1> QED
  BY <1>1 DEF BuffersInv, RecordsInLots, BufferMaps

\* What the lots give: no two channels of two clients share a buffer.
LEMMA BuffersInvGives ==
  ASSUME PortsInv, BuffersInv
  PROVE  BuffersExclusive
BY RecordsExclusive DEF PortsInv, BuffersInv

-----------------------------------------------------------------------------
(* Types alone                                                             *)

\* What an allocation leaves in its out-parameter lies inside the array or at
\* its end, and what a row of them takes was free, whatever the table is like.
LEMMA AllocationTypes ==
  ASSUME NEW active, NEW max \in Nat, NEW n
  PROVE  /\ Nth(active, max, n) \in 0 .. max
         /\ Take(active, max, n) \subseteq 0 .. max - 1
BY DEF Nth, Take, FreeIds

\* How many free ids lie below an id is a number.
LEMMA RankType ==
  ASSUME NEW active, NEW max \in Nat, NEW id
  PROVE  Rank(active, max, id) \in Nat
<1>1. IsFiniteSet(0 .. max - 1)
  BY FS_Interval
<1>2. {j \in FreeIds(active, max) : j < id} \in SUBSET (0 .. max - 1)
  BY DEF FreeIds
<1> QED
  BY <1>1, <1>2, FS_Subset, FS_CardinalityType DEF Rank

\* The tables keep their types also in a server that has forgotten its clients,
\* where nothing is known of lots.
LEMMA AddKeepsTypes ==
  ASSUME TypeOK, NEW ref \in Refs, AddClient(ref)
  PROVE  TypeOK'
<1>1. inputBufferMap' \in BufferMaps /\ outputBufferMap' \in BufferMaps
  <2>1. \A n : Nth(activeBuffers, MaxBuffers, n) \in 0 .. MaxBuffers
    BY Sizes, AllocationTypes
  <2> QED
    BY <2>1 DEF TypeOK, AddClient, BufferMaps
<1>2. activeBuffers' \subseteq BufferIds /\ activePorts' \subseteq PortIds
  BY Sizes, AllocationTypes DEF TypeOK, AddClient, BufferIds, PortIds, NewPorts
<1>3. ASSUME NEW id \in NewPorts PROVE NewPort(ref, id) \in Port
  <2> DEFINE k == Rank(activePorts, MaxPorts, id)
  <2>1. id \in PortIds
    BY Sizes, AllocationTypes DEF NewPorts, PortIds
  <2>2. k \in Nat /\ k < 2 * MaxChannels
    BY Sizes, RankType DEF NewPorts, Take
  <2> HIDE DEF k
  <2>3. k \div 2 \in Channels /\ (k % 2 = 0) \in BOOLEAN
    BY <2>2, SizesAssumption DEF Channels
  <2> QED
    BY <2>1, <2>3 DEF NewPort, Port, k
<1>4. /\ DOMAIN ports' = DOMAIN ports \cup NewPorts
      /\ \A id \in DOMAIN ports' :
           ports'[id] = IF id \in DOMAIN ports THEN ports[id] ELSE NewPort(ref, id)
  BY DEF AddClient
<1>5. NewPorts \subseteq PortIds
  BY Sizes, AllocationTypes DEF NewPorts, PortIds
<1> QED
  BY <1>1, <1>2, <1>3, <1>4, <1>5 DEF TypeOK, AddClient

\* So do the operations that only take away, or add a connection of two ports,
\* and what open() and close() of the server do to the tables.
LEMMA OthersKeepTypes ==
  ASSUME TypeOK,
         \/ \E ref : CloseClient(ref)
         \/ \E p, q \in Port : PushConnection(p, q)
         \/ /\ clients' \subseteq clients
            /\ inputBufferMap' \in BufferMaps /\ outputBufferMap' \in BufferMaps
            /\ UNCHANGED <<activeRefs, activeBuffers, activePorts, ports, connections>>
  PROVE  TypeOK'
<1>1. ASSUME NEW ref, CloseClient(ref) PROVE TypeOK'
  BY <1>1 DEF TypeOK, CloseClient
<1>2. ASSUME NEW p \in Port, NEW q \in Port, PushConnection(p, q) PROVE TypeOK'
  <2>1. [source |-> p, dest |-> q] \in Connection
    BY DEF Connection
  <2> QED
    BY <1>2, <2>1 DEF TypeOK, PushConnection
<1> QED
  BY <1>1, <1>2 DEF TypeOK

=============================================================================
