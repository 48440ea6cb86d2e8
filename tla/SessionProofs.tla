--------------------------- MODULE SessionProofs ---------------------------
(***************************************************************************)
(* What a client of RequestChannel can rely on for its session, for any    *)
(* number of clients: that the number it was told stays its own while it   *)
(* is open, and that nothing of it is left after a clean close.            *)
(*                                                                         *)
(* The argument follows the words of each client that no thread has read   *)
(* yet, those in the pipe and those still to be written.                   *)
(***************************************************************************)
EXTENDS RequestChannelProofs, SequenceTheorems

-----------------------------------------------------------------------------
(* Words on their way                                                      *)

\* Two sequences cut at two places, one apart.
LEMMA CutOneLater ==
  ASSUME NEW S, NEW u \in Seq(S), NEW o \in Seq(S), NEW v \in Seq(S), NEW t \in Seq(S),
         Len(v) = Len(u) + 1, Len(o) = Len(t) + 1,
         v[Len(u) + 1] = o[1],
         \A i \in 1 .. Len(u) : v[i] = u[i],
         \A i \in 1 .. Len(t) : t[i] = o[i + 1]
  PROVE  v \o t = u \o o
<1>1. Len(u) \in Nat /\ Len(t) \in Nat
  BY LenProperties
<1>2. /\ u \o o \in Seq(S) /\ Len(u \o o) = Len(u) + Len(o)
      /\ \A i \in 1 .. Len(u) + Len(o) :
           (u \o o)[i] = IF i <= Len(u) THEN u[i] ELSE o[i - Len(u)]
  BY ConcatProperties
<1>3. /\ v \o t \in Seq(S) /\ Len(v \o t) = Len(v) + Len(t)
      /\ \A i \in 1 .. Len(v) + Len(t) :
           (v \o t)[i] = IF i <= Len(v) THEN v[i] ELSE t[i - Len(v)]
  BY ConcatProperties
<1>4. ASSUME NEW i \in 1 .. Len(u) + Len(o) PROVE (v \o t)[i] = (u \o o)[i]
  <2>0. i \in 1 .. Len(v) + Len(t)
    BY <1>1
  <2>1. CASE i <= Len(u)
    BY <2>0, <2>1, <1>1, <1>2, <1>3
  <2>2. CASE i = Len(u) + 1
    BY <2>0, <2>2, <1>1, <1>2, <1>3
  <2>3. CASE i > Len(u) + 1
    <3>1. i - Len(v) \in 1 .. Len(t) /\ (i - Len(v)) + 1 = i - Len(u)
      BY <2>3, <1>1
    <3>2. (v \o t)[i] = t[i - Len(v)] /\ (u \o o)[i] = o[i - Len(u)]
      BY <2>0, <2>3, <1>1, <1>2, <1>3
    <3> QED
      BY <3>1, <3>2
  <2>4. i <= Len(u) \/ i = Len(u) + 1 \/ i > Len(u) + 1
    BY <1>1
  <2> QED
    BY <2>1, <2>2, <2>3, <2>4
<1> QED
  BY <1>1, <1>2, <1>3, <1>4, SeqEqual

\* Writing a word moves it from the client to the pipe: the words on their
\* way are the same.
LEMMA WritingMoves ==
  ASSUME NEW S, NEW u \in Seq(S), NEW o \in Seq(S), o # << >>
  PROVE  /\ Append(u, Head(o)) \in Seq(S) /\ Tail(o) \in Seq(S)
         /\ Append(u, Head(o)) \o Tail(o) = u \o o
<1>1. /\ Head(o) \in S /\ Head(o) = o[1]
      /\ Tail(o) \in Seq(S) /\ Len(o) = Len(Tail(o)) + 1
      /\ \A i \in 1 .. Len(Tail(o)) : Tail(o)[i] = o[i + 1]
  BY HeadTailProperties, EmptySeq, LenProperties
<1>2. /\ Append(u, Head(o)) \in Seq(S) /\ Len(Append(u, Head(o))) = Len(u) + 1
      /\ Append(u, Head(o))[Len(u) + 1] = o[1]
      /\ \A i \in 1 .. Len(u) : Append(u, Head(o))[i] = u[i]
  BY <1>1
<1>3. \A v, t \in Seq(S) :
        /\ Len(v) = Len(u) + 1 /\ Len(o) = Len(t) + 1 /\ v[Len(u) + 1] = o[1]
        /\ \A i \in 1 .. Len(u) : v[i] = u[i]
        /\ \A i \in 1 .. Len(t) : t[i] = o[i + 1]
        => v \o t = u \o o
  BY CutOneLater
<1> QED
  BY <1>1, <1>2, <1>3, Zenon

\* Reading takes the first of the words on their way.
LEMMA ReadingTakesFirst ==
  ASSUME NEW S, NEW u \in Seq(S), NEW o \in Seq(S), u # << >>
  PROVE  /\ u \o o # << >> /\ Head(u) \in S /\ Tail(u) \in Seq(S)
         /\ Head(u) = (u \o o)[1]
         /\ Tail(u) \o o = Tail(u \o o)
<1>1. /\ Head(u) \in S /\ Head(u) = u[1]
      /\ Tail(u) \in Seq(S) /\ Len(Tail(u)) = Len(u) - 1
      /\ \A i \in 1 .. Len(Tail(u)) : Tail(u)[i] = u[i + 1]
      /\ Len(u) \in Nat \ {0} /\ Len(o) \in Nat
  BY HeadTailProperties, EmptySeq, LenProperties
<1>2. /\ u \o o \in Seq(S) /\ Len(u \o o) = Len(u) + Len(o)
      /\ \A i \in 1 .. Len(u) + Len(o) :
           (u \o o)[i] = IF i <= Len(u) THEN u[i] ELSE o[i - Len(u)]
  BY ConcatProperties
<1>3. u \o o # << >>
  BY <1>1, <1>2, EmptySeq
<1>4. /\ Tail(u \o o) \in Seq(S) /\ Len(Tail(u \o o)) = Len(u) + Len(o) - 1
      /\ \A i \in 1 .. Len(u) + Len(o) - 1 : Tail(u \o o)[i] = (u \o o)[i + 1]
  BY <1>2, <1>3, HeadTailProperties
<1>5. /\ Tail(u) \o o \in Seq(S) /\ Len(Tail(u) \o o) = Len(u) + Len(o) - 1
      /\ \A i \in 1 .. Len(u) + Len(o) - 1 :
           (Tail(u) \o o)[i] = IF i <= Len(u) - 1 THEN Tail(u)[i] ELSE o[i - (Len(u) - 1)]
  <2>1. Len(Tail(u)) + Len(o) = Len(u) + Len(o) - 1
    BY <1>1
  <2> QED
    BY <2>1, <1>1, ConcatProperties
<1>6. ASSUME NEW i \in 1 .. Len(u) + Len(o) - 1
      PROVE  (Tail(u) \o o)[i] = Tail(u \o o)[i]
  <2>0. i + 1 \in 1 .. Len(u) + Len(o) /\ i - (Len(u) - 1) = (i + 1) - Len(u)
    BY <1>1
  <2>1. CASE i <= Len(u) - 1
    BY <2>0, <2>1, <1>1, <1>2, <1>4, <1>5
  <2>2. CASE i > Len(u) - 1
    BY <2>0, <2>2, <1>1, <1>2, <1>4, <1>5
  <2> QED
    BY <2>1, <2>2, <1>1
<1>7. Tail(u) \o o = Tail(u \o o)
  BY <1>4, <1>5, <1>6, SeqEqual
<1> QED
  BY <1>1, <1>2, <1>3, <1>7

\* The tails of the requests.
LEMMA TailsOfRequests ==
  ASSUME NEW a, NEW b, NEW c
  PROVE  /\ Tail(<<a, b, c>>) = <<b, c>> /\ Tail(<<b, c>>) = <<c>> /\ Tail(<<c>>) = << >>
         /\ <<a, b, c>> # << >> /\ <<b, c>> # << >> /\ <<c>> # << >>
  OBVIOUS

\* What a request adds behind the words on their way.
LEMMA AppendedRequest ==
  ASSUME NEW S, NEW u \in Seq(S), NEW a \in S, NEW b \in S, NEW d \in S
  PROVE  /\ <<a, b, d>> \in Seq(S)
         /\ u \o <<a, b, d>> \in Seq(S)
         /\ Len(u \o <<a, b, d>>) = Len(u) + 3
         /\ \A i \in 1 .. Len(u) : (u \o <<a, b, d>>)[i] = u[i]
         /\ (u \o <<a, b, d>>)[Len(u) + 1] = a
         /\ (u \o <<a, b, d>>)[Len(u) + 2] = b
         /\ (u \o <<a, b, d>>)[Len(u) + 3] = d
<1> DEFINE t == <<a, b, d>>
<1>1. t \in Seq(S) /\ Len(t) = 3 /\ t[1] = a /\ t[2] = b /\ t[3] = d
  OBVIOUS
<1>2. Len(u) \in Nat
  BY LenProperties
<1> HIDE DEF t
<1>3. /\ u \o t \in Seq(S) /\ Len(u \o t) = Len(u) + Len(t)
      /\ \A i \in 1 .. Len(u) + Len(t) :
           (u \o t)[i] = IF i <= Len(u) THEN u[i] ELSE t[i - Len(u)]
  BY <1>1, ConcatProperties
<1>4. /\ \A i \in 1 .. Len(u) : (u \o t)[i] = u[i]
      /\ (u \o t)[Len(u) + 1] = a /\ (u \o t)[Len(u) + 2] = b /\ (u \o t)[Len(u) + 3] = d
  BY <1>1, <1>2, <1>3
<1> QED
  BY <1>1, <1>3, <1>4 DEF t

-----------------------------------------------------------------------------
(* Types                                                                   *)

\* A client is answered with a number of the table or with its size, so that
\* the number it takes for its own is one of these.
ClientTypes ==
  /\ state \in [Clients -> {"idle", "opening", "open", "closing", "closed", "failed", "crashed"}]
  /\ ref \in [Clients -> {Bad} \cup 0 .. MaxClients]
  /\ asked \subseteq Clients
  /\ attached \subseteq Clients

QueueTypes ==
  /\ outbox \in [Clients -> Seq(Words)]
  /\ up \in [Clients -> Seq(Words)]
  /\ down \in [Clients -> Seq(0 .. MaxClients)]

AcceptTypes ==
  /\ accepting \in {"bind", "listen", "publish", "exited"}
  /\ arrived \in Clients \cup {None}
  /\ channelConnections \subseteq Clients
  /\ decoder \subseteq Clients

ConnectionTypes ==
  /\ word \in [Clients -> Words]
  /\ serverUp \in BOOLEAN
  /\ owned \in [Clients -> SUBSET Reg!Refs]

SessionTypes == ClientTypes /\ QueueTypes /\ AcceptTypes /\ ConnectionTypes

\* A request is words.
LEMMA RequestTypes ==
  ASSUME NEW r \in {Bad} \cup 0 .. MaxClients
  PROVE  /\ OpenRequest \in Seq(Words) /\ CloseRequest(r) \in Seq(Words)
         /\ ConfigRequest(r) \in Seq(Words)
  BY SessionsAssumption DEF Words, OpenRequest, CloseRequest, ConfigRequest

\* What a thread reads is a word, or that there is none.
LEMMA ReadTypes ==
  ASSUME QueueTypes, NEW c \in Clients
  PROVE  /\ WordRead(c) \in Words
         /\ Consume(c) => up' \in [Clients -> Seq(Words)]
<1>1. up[c] \in Seq(Words) /\ Bad \in Words
  BY DEF QueueTypes, Words
<1>2. up[c] # << >> => Head(up[c]) \in Words /\ Tail(up[c]) \in Seq(Words)
  BY <1>1, HeadTailProperties
<1>3. WordRead(c) \in Words
  BY <1>1, <1>2 DEF WordRead
<1>4. (IF up[c] = << >> THEN up[c] ELSE Tail(up[c])) \in Seq(Words)
  BY <1>1, <1>2
<1>5. Consume(c) => up' \in [Clients -> Seq(Words)]
  BY <1>4 DEF Consume, QueueTypes
<1> QED
  BY <1>3, <1>5

\* The client takes its number from the pipe, where only numbers are.
LEMMA ClientTypesStep ==
  ASSUME SessionTypes, [Next]_vars
  PROVE  ClientTypes'
<1> USE DEF SessionTypes, ClientTypes, clientSide, pipes
<1>1. ASSUME NEW c \in Clients, ReadResult(c) PROVE ClientTypes'
  <2>1. Head(down[c]) \in 0 .. MaxClients
    BY <1>1, HeadTailProperties DEF ReadResult, QueueTypes
  <2> QED
    BY <1>1, <2>1 DEF ReadResult
<1>2. ASSUME NEW c \in Clients, ClientChoice(c) \/ Write(c) \/ CloseEnd(c) PROVE ClientTypes'
  BY <1>2 DEF ClientChoice, Connect, ConnectFails, OpenConfig, Close, Crash, Write, CloseEnd
<1>3. CASE AcceptStep
  BY <1>3 DEF AcceptStep, Bind, Accept, StartFails, AcceptFails, Publish
<1>4. ASSUME NEW c \in Clients, ThreadStep(c) PROVE ClientTypes'
  <2>1. UNCHANGED <<state, ref, asked, attached>>
    BY <1>4 DEF ThreadStep, ReadHeader, Lock, Dispatch, Release, ReadOpenSize, ReadOpenBody,
                Register, ReadCloseSize, ReadCloseRef, Unregister
  <2> QED
    BY <2>1
<1>5. CASE UNCHANGED vars
  BY <1>5 DEF vars
<1> QED
  BY <1>1, <1>2, <1>3, <1>4, <1>5 DEF Next, ClientStep

\* Clients write words of requests, threads answer with numbers.
LEMMA QueueTypesStep ==
  ASSUME SessionTypes, [Next]_vars
  PROVE  QueueTypes'
<1> USE DEF SessionTypes, QueueTypes, clientSide, pipes
<1>0. ASSUME NEW c \in Clients
      PROVE  up[c] \in Seq(Words) /\ outbox[c] \in Seq(Words) /\ down[c] \in Seq(0 .. MaxClients)
             /\ ref[c] \in {Bad} \cup 0 .. MaxClients
  BY DEF ClientTypes
<1>1. ASSUME NEW c \in Clients, Write(c) PROVE QueueTypes'
  <2>1. Append(up[c], Head(outbox[c])) \in Seq(Words) /\ Tail(outbox[c]) \in Seq(Words)
    BY <1>0, <1>1, WritingMoves DEF Write
  <2> QED
    BY <1>1, <2>1 DEF Write
<1>2. ASSUME NEW c \in Clients, ReadResult(c) PROVE QueueTypes'
  <2>1. Tail(down[c]) \in Seq(0 .. MaxClients)
    BY <1>0, <1>2, HeadTailProperties DEF ReadResult
  <2> QED
    BY <1>2, <2>1 DEF ReadResult
<1>3. ASSUME NEW c \in Clients, Connect(c) \/ OpenConfig(c) \/ Close(c) \/ Crash(c)
      PROVE  QueueTypes'
  <2>1. /\ OpenRequest \in Seq(Words) /\ CloseRequest(ref[c]) \in Seq(Words)
        /\ ConfigRequest(ref[c]) \in Seq(Words) /\ << >> \in Seq(Words)
    BY <1>0, RequestTypes
  <2> QED
    BY <1>3, <2>1 DEF Connect, OpenConfig, Close, Crash
<1>4. ASSUME NEW c \in Clients, ConnectFails(c) \/ CloseEnd(c) PROVE QueueTypes'
  BY <1>4 DEF ConnectFails, CloseEnd
<1>5. CASE AcceptStep
  BY <1>5 DEF AcceptStep, Bind, Accept, StartFails, AcceptFails, Publish
<1>6. ASSUME NEW c \in Clients,
             ReadHeader(c) \/ ReadOpenSize(c) \/ ReadOpenBody(c) \/ ReadCloseSize(c)
             \/ ReadCloseRef(c),
             UNCHANGED clientSide
      PROVE  QueueTypes'
  <2>1. Consume(c) /\ UNCHANGED <<down, outbox>>
    BY <1>6 DEF ReadHeader, ReadOpenSize, ReadOpenBody, ReadCloseSize, ReadCloseRef
  <2> QED
    BY <2>1, ReadTypes
<1>7. ASSUME NEW c \in Clients, Register(c), UNCHANGED clientSide PROVE QueueTypes'
  <2>1. PICK r \in 0 .. MaxClients : Reply(c, r)
    <3>1. \E r \in Reg!Refs \cup {MaxClients} : Reply(c, r)
      BY <1>7 DEF Register
    <3> QED
      BY <3>1, SessionsAssumption DEF Reg!Refs
  <2>2. Append(down[c], r) \in Seq(0 .. MaxClients)
    BY <1>0
  <2>3. down' \in [Clients -> Seq(0 .. MaxClients)]
    BY <2>1, <2>2 DEF Reply
  <2> QED
    BY <1>7, <2>3 DEF Register
<1>8. ASSUME NEW c \in Clients, Lock(c) \/ Dispatch(c) \/ Release(c) \/ Unregister(c),
             UNCHANGED clientSide
      PROVE  QueueTypes'
  BY <1>8 DEF Lock, Dispatch, Release, Unregister
<1>9. CASE UNCHANGED vars
  BY <1>9 DEF vars
<1> QED
  BY <1>1, <1>2, <1>3, <1>4, <1>5, <1>6, <1>7, <1>8, <1>9
     DEF Next, ClientStep, ClientChoice, ThreadStep

\* The accept thread and its lists.
LEMMA AcceptTypesStep ==
  ASSUME SessionTypes, [Next]_vars
  PROVE  AcceptTypes'
<1> USE DEF SessionTypes, AcceptTypes, acceptSide
<1>1. ASSUME NEW c \in Clients, ClientChoice(c) \/ ClientStep(c) PROVE AcceptTypes'
  BY <1>1 DEF ClientChoice, ClientStep, Connect, ConnectFails, OpenConfig, Close, Crash,
              Write, ReadResult, CloseEnd
<1>2. CASE AcceptStep
  BY <1>2 DEF AcceptStep, Bind, Accept, StartFails, AcceptFails, Publish
<1>3. ASSUME NEW c \in Clients, ThreadStep(c) PROVE AcceptTypes'
  <2>1. UNCHANGED acceptSide
    BY <1>3 DEF ThreadStep, ReadHeader, Lock, Dispatch, Release, ReadOpenSize, ReadOpenBody,
                Register, ReadCloseSize, ReadCloseRef, Unregister
  <2> QED
    BY <2>1
<1>4. CASE UNCHANGED vars
  BY <1>4 DEF vars
<1> QED
  BY <1>1, <1>2, <1>3, <1>4 DEF Next

\* What a thread has read, and what has been registered from it.
LEMMA ConnectionTypesStep ==
  ASSUME SessionTypes, [Next]_vars
  PROVE  ConnectionTypes'
<1> USE DEF SessionTypes, ConnectionTypes, threadSide
<1>1. ASSUME NEW c \in Clients, ClientChoice(c) \/ ClientStep(c) PROVE ConnectionTypes'
  BY <1>1 DEF ClientChoice, ClientStep, Connect, ConnectFails, OpenConfig, Close, Crash,
              Write, ReadResult, CloseEnd
<1>2. CASE AcceptStep
  BY <1>2 DEF AcceptStep, Bind, Accept, StartFails, AcceptFails, Publish
<1>3. ASSUME NEW c \in Clients, ReadHeader(c) \/ ReadCloseSize(c) \/ ReadCloseRef(c)
      PROVE  ConnectionTypes'
  <2>1. WordRead(c) \in Words /\ Bad \in Words
    BY ReadTypes DEF Words
  <2> QED
    BY <1>3, <2>1 DEF ReadHeader, ReadCloseSize, ReadCloseRef
<1>4. ASSUME NEW c \in Clients, ReadOpenSize(c) \/ ReadOpenBody(c) \/ Lock(c) \/ Release(c)
      PROVE  ConnectionTypes'
  BY <1>4 DEF ReadOpenSize, ReadOpenBody, Lock, Release
<1>5. ASSUME NEW c \in Clients, Dispatch(c) PROVE ConnectionTypes'
  <2>1. serverUp' \in BOOLEAN /\ UNCHANGED <<word, owned>>
    BY <1>5 DEF Dispatch
  <2> QED
    BY <2>1
<1>6. ASSUME NEW c \in Clients, Register(c) \/ Unregister(c) PROVE ConnectionTypes'
  <2>1. owned' \in [Clients -> SUBSET Reg!Refs] /\ UNCHANGED <<word, serverUp>>
    BY <1>6 DEF Register, Unregister
  <2> QED
    BY <2>1
<1>7. CASE UNCHANGED vars
  BY <1>7 DEF vars
<1> QED
  BY <1>1, <1>2, <1>3, <1>4, <1>5, <1>6, <1>7 DEF Next, ThreadStep

\* At the start every queue is empty.
LEMMA SessionTypesInit == Init => SessionTypes
<1>1. Init => ClientTypes /\ AcceptTypes
  BY SessionsAssumption DEF Init, ClientTypes, AcceptTypes
<1>2. Init => QueueTypes
  BY DEF Init, QueueTypes
<1>3. Init => ConnectionTypes
  BY DEF Init, ConnectionTypes, Words
<1> QED
  BY <1>1, <1>2, <1>3 DEF SessionTypes

-----------------------------------------------------------------------------
(* Steps                                                                   *)

\* The words of a client that nobody has read yet.
Left(c) == up[c] \o outbox[c]

\* The words left, the two queues they are in, and when there are none.
LEMMA LeftType ==
  ASSUME QueueTypes, NEW c \in Clients
  PROVE  /\ up[c] \in Seq(Words) /\ outbox[c] \in Seq(Words) /\ Left(c) \in Seq(Words)
         /\ outbox[c] = << >> => Left(c) = up[c]
         /\ Left(c) = << >> => up[c] = << >> /\ outbox[c] = << >>
  BY ConcatProperties, ConcatEmptySeq, ConcatEqualIffEmpty DEF QueueTypes, Left

\* All that a session is made of, the registered numbers aside.
SameSession(d) ==
  /\ state'[d] = state[d] /\ outbox'[d] = outbox[d] /\ ref'[d] = ref[d]
  /\ up'[d] = up[d] /\ down'[d] = down[d]
  /\ thread'[d] = thread[d] /\ word'[d] = word[d]
  /\ (d \in attached' <=> d \in attached) /\ (d \in asked' <=> d \in asked)

\* A session that is left alone has the same words left.
LEMMA SameLeft ==
  ASSUME NEW d, SameSession(d)
  PROVE  Left(d)' = Left(d)
  BY DEF SameSession, Left

\* A client and the thread of its connection touch no other session, but for
\* the numbers that close_client takes away.
LEMMA OthersKeepSession ==
  ASSUME SessionTypes, Holding, NEW c \in Clients, NEW d \in Clients \ {c},
         ThreadStep(c) \/ ClientChoice(c) \/ ClientStep(c)
  PROVE  SameSession(d)
<1> USE DEF SessionTypes, ClientTypes, QueueTypes, ConnectionTypes, Holding, SameSession,
            clientSide, pipes, threadSide
<1>1. CASE ClientChoice(c)
  BY <1>1 DEF ClientChoice, Connect, ConnectFails, OpenConfig, Close, Crash
<1>2. CASE ClientStep(c)
  BY <1>2 DEF ClientStep, Write, ReadResult, CloseEnd
<1>3. CASE ThreadStep(c)
  <2> USE <1>3 DEF ThreadStep, Goto, Consume
  <2>1. CASE ReadHeader(c) \/ ReadOpenSize(c) \/ ReadOpenBody(c)
    BY <2>1 DEF ReadHeader, ReadOpenSize, ReadOpenBody
  <2>2. CASE ReadCloseSize(c) \/ ReadCloseRef(c)
    BY <2>2 DEF ReadCloseSize, ReadCloseRef
  <2>3. CASE Lock(c) \/ Dispatch(c) \/ Release(c) \/ Unregister(c)
    BY <2>3 DEF Lock, Dispatch, Release, Unregister
  <2>4. CASE Register(c)
    BY <2>4 DEF Register, Reply
  <2> QED
    BY <2>1, <2>2, <2>3, <2>4
<1> QED
  BY <1>1, <1>2, <1>3

\* The accept thread does nothing to a session but start its thread.
LEMMA AcceptKeepsSession ==
  ASSUME SessionTypes, MutexInv, AcceptStep, NEW d \in Clients
  PROVE  /\ UNCHANGED <<owned, registry>>
         /\ \/ SameSession(d)
            \/ /\ thread[d] = "none" /\ thread'[d] = "header" /\ state[d] # "idle"
               /\ UNCHANGED <<clientSide, pipes, word>>
<1> USE DEF MutexInv, Holding, NotYetStarted, clientSide, pipes, threadSide, SameSession
<1>1. CASE Bind
  BY <1>1 DEF Bind
<1>2. ASSUME NEW c \in Clients, StartFails(c) \/ AcceptFails(c) \/ Publish(c)
      PROVE  SameSession(d) /\ UNCHANGED <<owned, registry>>
  BY <1>2 DEF StartFails, AcceptFails, Publish
<1>3. ASSUME NEW c \in Clients, Accept(c)
      PROVE  /\ UNCHANGED <<owned, registry>>
             /\ \/ SameSession(d)
                \/ /\ thread[d] = "none" /\ thread'[d] = "header" /\ state[d] # "idle"
                   /\ UNCHANGED <<clientSide, pipes, word>>
  BY <1>3 DEF Accept
<1> QED
  BY <1>1, <1>2, <1>3 DEF AcceptStep

\* A read takes the first word left, or finds that the client has gone.
LEMMA ReadingLeft ==
  ASSUME SessionTypes, NEW c \in Clients, Consume(c), Readable(c), UNCHANGED outbox
  PROVE  \/ /\ Left(c) # << >> /\ WordRead(c) = Left(c)[1] /\ WordRead(c) \in Words
            /\ Left(c)' = Tail(Left(c))
         \/ /\ c \notin attached /\ up[c] = << >> /\ WordRead(c) = Bad /\ Left(c)' = Left(c)
<1>1. up[c] \in Seq(Words) /\ outbox[c] \in Seq(Words)
  BY DEF SessionTypes, QueueTypes
<1>2. CASE up[c] = << >>
  BY <1>2 DEF SessionTypes, QueueTypes, Readable, WordRead, Consume, Left
<1>3. CASE up[c] # << >>
  <2>1. up'[c] = Tail(up[c])
    BY <1>3 DEF SessionTypes, QueueTypes, Consume
  <2>2. /\ up[c] \o outbox[c] # << >> /\ Head(up[c]) \in Words
        /\ Head(up[c]) = (up[c] \o outbox[c])[1]
        /\ Tail(up[c]) \o outbox[c] = Tail(up[c] \o outbox[c])
    BY <1>1, <1>3, ReadingTakesFirst
  <2> QED
    BY <1>3, <2>1, <2>2 DEF WordRead, Left
<1> QED
  BY <1>2, <1>3

\* Writing leaves the words left as they were.
LEMMA WritingLeft ==
  ASSUME SessionTypes, NEW c \in Clients, Write(c)
  PROVE  Left(c)' = Left(c)
<1>1. up[c] \in Seq(Words) /\ outbox[c] \in Seq(Words) /\ outbox[c] # << >>
  BY DEF SessionTypes, QueueTypes, Write
<1>2. up'[c] = Append(up[c], Head(outbox[c])) /\ outbox'[c] = Tail(outbox[c])
  BY DEF SessionTypes, QueueTypes, Write
<1>3. Append(up[c], Head(outbox[c])) \o Tail(outbox[c]) = up[c] \o outbox[c]
  BY <1>1, WritingMoves
<1> QED
  BY <1>2, <1>3 DEF Left

-----------------------------------------------------------------------------
(* A client closes no number but its own                                   *)

\* The number that a client may still be closing.
Parting(c) == IF state[c] \in {"closing", "closed", "crashed"} THEN {ref[c]} ELSE {}

\* The words that a thread takes for the type and the size of a close request
\* are those of a close request, whatever it took for a header before: only
\* that request has the one before the other.
CloseWords(q, numbers) ==
  \A i \in 1 .. Len(q) - 1 :
    q[i] = CLIENT_CLOSE /\ q[i + 1] = RefSize =>
      numbers # {} /\ (i + 2 <= Len(q) => q[i + 2] \in numbers)

SizeFirst(q, numbers) ==
  Len(q) >= 1 /\ q[1] = RefSize => numbers # {} /\ (Len(q) >= 2 => q[2] \in numbers)

NumberFirst(q, numbers) == numbers # {} /\ (Len(q) >= 1 => q[1] \in numbers)

ReadsClose(c) ==
  thread[c] = "closeSize" \/ (thread[c] \in {"lock", "dispatch"} /\ word[c] = CLIENT_CLOSE)

ClosesOwn(c) ==
  /\ CloseWords(Left(c), Parting(c))
  /\ ReadsClose(c) => SizeFirst(Left(c), Parting(c))
  /\ thread[c] = "closeRef" => NumberFirst(Left(c), Parting(c))
  /\ thread[c] = "unregister" => word[c] \in {Bad} \cup Parting(c)

\* Reading on.
LEMMA CloseWordsRead ==
  ASSUME NEW q \in Seq(Words), NEW numbers, q # << >>, CloseWords(q, numbers)
  PROVE  /\ CloseWords(Tail(q), numbers)
         /\ q[1] = CLIENT_CLOSE => SizeFirst(Tail(q), numbers)
         /\ q[1] = RefSize /\ SizeFirst(q, numbers) => NumberFirst(Tail(q), numbers)
<1>1. /\ Tail(q) \in Seq(Words) /\ Len(Tail(q)) = Len(q) - 1 /\ Len(q) \in Nat \ {0}
      /\ \A i \in 1 .. Len(q) - 1 : Tail(q)[i] = q[i + 1]
  BY HeadTailProperties, EmptySeq
<1> DEFINE t == Tail(q)
<1> HIDE DEF t
<1>2. /\ Len(t) = Len(q) - 1 /\ Len(q) \in Nat \ {0} /\ Len(t) \in Nat
      /\ \A i \in 1 .. Len(q) - 1 : t[i] = q[i + 1]
  BY <1>1 DEF t
<1>3. CloseWords(t, numbers)
  <2> SUFFICES ASSUME NEW i \in 1 .. Len(t) - 1, t[i] = CLIENT_CLOSE, t[i + 1] = RefSize
               PROVE  numbers # {} /\ (i + 2 <= Len(t) => t[i + 2] \in numbers)
    BY DEF CloseWords
  <2>1. /\ i + 1 \in 1 .. Len(q) - 1 /\ q[i + 1] = CLIENT_CLOSE /\ q[(i + 1) + 1] = RefSize
        /\ i + 2 <= Len(t) => (i + 1) + 2 <= Len(q) /\ t[i + 2] = q[(i + 1) + 2]
    BY <1>2
  <2> QED
    BY <2>1 DEF CloseWords
<1>4. q[1] = CLIENT_CLOSE => SizeFirst(t, numbers)
  BY <1>2 DEF CloseWords, SizeFirst
<1>5. q[1] = RefSize /\ SizeFirst(q, numbers) => NumberFirst(t, numbers)
  BY <1>2 DEF SizeFirst, NumberFirst
<1> QED
  BY <1>3, <1>4, <1>5 DEF t

\* A client that dies leaves the words that it has written.
LEMMA CloseWordsCut ==
  ASSUME NEW u \in Seq(Words), NEW o \in Seq(Words), NEW numbers, NEW more,
         numbers \subseteq more
  PROVE  /\ CloseWords(u \o o, numbers) => CloseWords(u, more)
         /\ SizeFirst(u \o o, numbers) => SizeFirst(u, more)
         /\ NumberFirst(u \o o, numbers) => NumberFirst(u, more)
<1> DEFINE q == u \o o
<1>1. /\ Len(q) = Len(u) + Len(o) /\ Len(u) \in Nat /\ Len(o) \in Nat
      /\ \A i \in 1 .. Len(u) : q[i] = u[i]
  BY ConcatProperties, LenProperties
<1> HIDE DEF q
<1>2. CloseWords(q, numbers) => CloseWords(u, more)
  BY <1>1 DEF CloseWords
<1>3. SizeFirst(q, numbers) => SizeFirst(u, more)
  BY <1>1 DEF SizeFirst
<1>4. NumberFirst(q, numbers) => NumberFirst(u, more)
  BY <1>1 DEF NumberFirst
<1> QED
  BY <1>2, <1>3, <1>4 DEF q

\* A client that sends another request has not closed yet, and only a close
\* request has the words of one.
LEMMA CloseWordsAppended ==
  ASSUME NEW q \in Seq(Words), NEW a \in Words \ {RefSize}, NEW b \in Words, NEW d \in Words,
         NEW numbers,
         a = CLIENT_CLOSE => b = RefSize /\ d \in numbers,
         b # CLIENT_CLOSE
  PROVE  /\ CloseWords(q, {}) => CloseWords(q \o <<a, b, d>>, numbers)
         /\ SizeFirst(q, {}) => SizeFirst(q \o <<a, b, d>>, numbers)
<1> DEFINE t == q \o <<a, b, d>>
<1>1. /\ Len(t) = Len(q) + 3 /\ Len(q) \in Nat
      /\ \A i \in 1 .. Len(q) : t[i] = q[i]
      /\ t[Len(q) + 1] = a /\ t[Len(q) + 2] = b /\ t[Len(q) + 3] = d
  BY AppendedRequest, LenProperties
<1> HIDE DEF t
<1>2. ASSUME CloseWords(q, {}) PROVE CloseWords(t, numbers)
  <2> SUFFICES ASSUME NEW i \in 1 .. Len(t) - 1, t[i] = CLIENT_CLOSE, t[i + 1] = RefSize
               PROVE  numbers # {} /\ (i + 2 <= Len(t) => t[i + 2] \in numbers)
    BY DEF CloseWords
  <2>1. CASE i <= Len(q) - 1
    BY <1>1, <1>2, <2>1 DEF CloseWords
  <2>2. CASE i = Len(q)
    BY <1>1, <2>2
  <2>3. CASE i = Len(q) + 1
    BY <1>1, <2>3
  <2>4. CASE i = Len(q) + 2
    BY <1>1, <2>4
  <2>5. i <= Len(q) - 1 \/ i = Len(q) \/ i = Len(q) + 1 \/ i = Len(q) + 2
    BY <1>1
  <2> QED
    BY <2>1, <2>2, <2>3, <2>4, <2>5
<1>3. ASSUME SizeFirst(q, {}) PROVE SizeFirst(t, numbers)
  BY <1>1, <1>3 DEF SizeFirst
<1> QED
  BY <1>2, <1>3 DEF t

-----------------------------------------------------------------------------
(* A client before it is open                                              *)

\* Where a thread stands that has handled nothing yet, or a CLIENT_OPEN.
BeforeHeader(c) == thread[c] = "header" \/ (thread[c] = "release" /\ word[c] = CLIENT_OPEN)

\* Nothing is known of a client that has not connected.
Fresh(c) ==
  /\ thread[c] = "none" /\ Left(c) = << >>
  /\ ref[c] = Bad /\ down[c] = << >> /\ owned[c] = {}

\* While a client opens, its thread reads the words of its request one after
\* the other, and nothing has been registered for it ...
Asking(c) ==
  /\ ref[c] = Bad /\ down[c] = << >> /\ owned[c] = {}
  /\ \/ thread[c] \in {"none", "header"} /\ Left(c) = OpenRequest
     \/ /\ word[c] = CLIENT_OPEN
        /\ \/ thread[c] \in {"lock", "dispatch", "openSize"} /\ Left(c) = <<OpenSize, PidAndName>>
           \/ thread[c] = "openBody" /\ Left(c) = <<PidAndName>>
           \/ thread[c] = "register" /\ Left(c) = << >>

\* The number that was registered for a client is the one that it was told,
\* if there was one.
Granted(c, r) == owned[c] = IF r = MaxClients THEN {} ELSE {r}

\* ... or it has been registered and answered, or refused and answered.
Answered(c) ==
  /\ BeforeHeader(c) /\ Left(c) = << >> /\ ref[c] = Bad
  /\ \E r \in 0 .. MaxClients : down[c] = <<r>> /\ Granted(c, r)

Opens(c) ==
  /\ state[c] = "idle" => Fresh(c)
  /\ state[c] = "opening" => Asking(c) \/ Answered(c)
  /\ state[c] \in {"opening", "open", "closing"} => c \in attached
  /\ state[c] = "open" => ref[c] # Bad

-----------------------------------------------------------------------------
(* The steps that keep ClosesOwn                                           *)

\* The thread of a client reads on, and remembers what it has read.
LEMMA ThreadKeepsClosesOwn ==
  ASSUME SessionTypes, Holding, NEW c \in Clients, ClosesOwn(c), ThreadStep(c)
  PROVE  ClosesOwn(c)'
<1> DEFINE q == Left(c)
<1> DEFINE n == Parting(c)
<1>0. /\ thread \in [Clients -> Places] /\ word \in [Clients -> Words]
      /\ q \in Seq(Words) /\ Parting(c)' = n /\ UNCHANGED outbox
  BY LeftType DEF SessionTypes, Holding, ConnectionTypes, ThreadStep, clientSide, Parting
<1>1. ASSUME Consume(c), Readable(c)
      PROVE  /\ CloseWords(Left(c)', n)
             /\ WordRead(c) = CLIENT_CLOSE => SizeFirst(Left(c)', n)
             /\ WordRead(c) = RefSize /\ SizeFirst(q, n) => NumberFirst(Left(c)', n)
             /\ NumberFirst(q, n) => WordRead(c) \in {Bad} \cup n
  <2>0. CloseWords(q, n)
    BY DEF ClosesOwn
  <2>1. CASE q # << >> /\ WordRead(c) = q[1] /\ Left(c)' = Tail(q)
    <3>1. /\ CloseWords(Tail(q), n)
          /\ q[1] = CLIENT_CLOSE => SizeFirst(Tail(q), n)
          /\ q[1] = RefSize /\ SizeFirst(q, n) => NumberFirst(Tail(q), n)
      BY <1>0, <2>0, <2>1, CloseWordsRead
    <3>2. NumberFirst(q, n) => q[1] \in n
      BY <1>0, <2>1, EmptySeq DEF NumberFirst
    <3> HIDE DEF q, n
    <3> QED
      BY <2>1, <3>1, <3>2
  <2>2. CASE WordRead(c) = Bad /\ Left(c)' = q
    <3> HIDE DEF q, n
    <3> QED
      BY <2>0, <2>2 DEF Bad, CLIENT_CLOSE, RefSize
  <2> QED
    BY <1>0, <1>1, <2>1, <2>2, ReadingLeft
<1>2. /\ CloseWords(q, n)
      /\ ReadsClose(c) => SizeFirst(q, n)
      /\ thread[c] = "closeRef" => NumberFirst(q, n)
      /\ thread[c] = "unregister" => word[c] \in {Bad} \cup n
  BY DEF ClosesOwn
<1>3. CASE Lock(c) \/ Dispatch(c) \/ Register(c) \/ Unregister(c) \/ Release(c)
  <2>1. Left(c)' = q
    BY <1>0, <1>3 DEF Lock, Dispatch, Register, Unregister, Release, pipes, Left
  <2> HIDE DEF q, n
  <2>2. word' = word /\ (ReadsClose(c)' => ReadsClose(c))
        /\ thread'[c] \notin {"closeRef", "unregister"}
    <3> USE <1>0, <1>3 DEF Goto, ReadsClose, ThreadStep, threadSide, pipes, CLIENT_OPEN, CLIENT_CLOSE
    <3>1. CASE Lock(c)
      BY <3>1 DEF Lock
    <3>2. CASE Dispatch(c)
      BY <3>2 DEF Dispatch
    <3>3. CASE Register(c)
      BY <3>3 DEF Register
    <3>4. CASE Unregister(c)
      BY <3>4 DEF Unregister
    <3>5. CASE Release(c)
      BY <3>5 DEF Release
    <3> QED
      BY <1>3, <3>1, <3>2, <3>3, <3>4, <3>5
  <2> QED
    BY <1>0, <1>2, <2>1, <2>2 DEF ClosesOwn
<1>4. CASE ReadHeader(c)
  <2>1. Consume(c) /\ Readable(c) /\ thread'[c] = "lock" /\ word'[c] = WordRead(c)
    BY <1>0, <1>4 DEF ReadHeader, Goto
  <2> HIDE DEF q, n
  <2>2. CloseWords(Left(c)', n) /\ (word'[c] = CLIENT_CLOSE => SizeFirst(Left(c)', n))
    BY <1>1, <2>1
  <2>3. Parting(c)' = n
    BY <1>0
  <2> QED
    BY <2>1, <2>2, <2>3 DEF ClosesOwn, ReadsClose
<1>5. CASE ReadOpenSize(c) \/ ReadOpenBody(c)
  <2>1. Consume(c) /\ Readable(c) /\ thread'[c] \in {"openBody", "register"}
    BY <1>0, <1>5 DEF ReadOpenSize, ReadOpenBody, Goto
  <2> HIDE DEF q, n
  <2>2. CloseWords(Left(c)', n) /\ Parting(c)' = n
    BY <1>0, <1>1, <2>1
  <2> QED
    BY <2>1, <2>2 DEF ClosesOwn, ReadsClose
<1>6. CASE ReadCloseSize(c)
  <2>1. /\ Consume(c) /\ Readable(c) /\ thread[c] = "closeSize" /\ word'[c] = Bad
        /\ thread'[c] = IF WordRead(c) = RefSize THEN "closeRef" ELSE "unregister"
    BY <1>0, <1>6 DEF ReadCloseSize, Goto
  <2> HIDE DEF q, n
  <2>2. CloseWords(Left(c)', n) /\ (thread'[c] = "closeRef" => NumberFirst(Left(c)', n))
    BY <1>1, <1>2, <2>1 DEF ReadsClose
  <2>3. Parting(c)' = n
    BY <1>0
  <2> QED
    BY <2>1, <2>2, <2>3 DEF ClosesOwn, ReadsClose
<1>7. CASE ReadCloseRef(c)
  <2>1. /\ Consume(c) /\ Readable(c) /\ thread[c] = "closeRef" /\ word'[c] = WordRead(c)
        /\ thread'[c] = "unregister"
    BY <1>0, <1>7 DEF ReadCloseRef, Goto
  <2> HIDE DEF q, n
  <2>2. CloseWords(Left(c)', n) /\ word'[c] \in {Bad} \cup n
    BY <1>1, <1>2, <2>1
  <2>3. Parting(c)' = n
    BY <1>0
  <2> QED
    BY <2>1, <2>2, <2>3 DEF ClosesOwn, ReadsClose
<1>8. \/ Lock(c) \/ Dispatch(c) \/ Register(c) \/ Unregister(c) \/ Release(c) \/ ReadHeader(c) \/ ReadOpenSize(c) \/ ReadOpenBody(c)
      \/ ReadCloseSize(c) \/ ReadCloseRef(c)
  BY DEF ThreadStep
<1> QED
  BY <1>3, <1>4, <1>5, <1>6, <1>7, <1>8

\* The client adds a request, or dies half way through one.
LEMMA ClientKeepsClosesOwn ==
  ASSUME SessionTypes, NEW c \in Clients, ClosesOwn(c), Opens(c),
         ClientChoice(c) \/ ClientStep(c)
  PROVE  ClosesOwn(c)'
<1> DEFINE q == Left(c)
<1>0. /\ state \in [Clients -> {"idle", "opening", "open", "closing", "closed", "failed", "crashed"}]
      /\ ref[c] \in Words /\ q \in Seq(Words)
      /\ up[c] \in Seq(Words) /\ outbox \in [Clients -> Seq(Words)]
      /\ UNCHANGED <<thread, word>>
  <2>1. UNCHANGED <<thread, word>>
    BY DEF ClientChoice, ClientStep, Connect, ConnectFails, OpenConfig, Close, Crash,
           Write, ReadResult, CloseEnd, threadSide
  <2> QED
    BY <2>1, LeftType DEF SessionTypes, ClientTypes, QueueTypes, Words
<1>1. CASE Write(c) \/ ReadResult(c) \/ CloseEnd(c) \/ ConnectFails(c)
  <2>1. Left(c)' = q
    BY <1>1, WritingLeft DEF ReadResult, CloseEnd, ConnectFails, Left, pipes
  <2>2. Parting(c)' = Parting(c)
    BY <1>0, <1>1 DEF Write, ReadResult, CloseEnd, ConnectFails, Parting
  <2> HIDE DEF q
  <2> QED
    BY <1>0, <2>1, <2>2 DEF ClosesOwn, ReadsClose, q
<1>2. CASE Crash(c)
  <2>1. Left(c)' = up[c]
    <3>1. outbox'[c] = << >> /\ up' = up
      BY <1>0, <1>2 DEF Crash
    <3> QED
      BY <1>0, <3>1, ConcatEmptySeq DEF Left
  <2>2. Parting(c) \subseteq Parting(c)'
    BY <1>0, <1>2 DEF Crash, Parting
  <2>3. /\ CloseWords(q, Parting(c)) => CloseWords(up[c], Parting(c)')
        /\ SizeFirst(q, Parting(c)) => SizeFirst(up[c], Parting(c)')
        /\ NumberFirst(q, Parting(c)) => NumberFirst(up[c], Parting(c)')
    BY <1>0, <2>2, CloseWordsCut DEF Left
  <2>4. /\ CloseWords(q, Parting(c))
        /\ ReadsClose(c) => SizeFirst(q, Parting(c))
        /\ thread[c] = "closeRef" => NumberFirst(q, Parting(c))
        /\ thread[c] = "unregister" => word[c] \in {Bad} \cup Parting(c)
    BY DEF ClosesOwn
  <2>5. ReadsClose(c)' <=> ReadsClose(c)
    BY <1>0 DEF ReadsClose
  <2> HIDE DEF q
  <2> QED
    BY <1>0, <2>1, <2>2, <2>3, <2>4, <2>5 DEF ClosesOwn
<1>3. CASE Connect(c) \/ OpenConfig(c) \/ Close(c)
  <2>1. Parting(c) = {} /\ outbox[c] = << >> /\ up' = up
    <3>1. state[c] \in {"idle", "open"} /\ up' = up /\ (state[c] = "open" => outbox[c] = << >>)
      BY <1>3 DEF Connect, OpenConfig, Close, pipes
    <3>2. state[c] = "idle" => outbox[c] = << >>
      BY LeftType DEF Opens, Fresh, SessionTypes
    <3> QED
      BY <3>1, <3>2 DEF Parting
  <2>2. PICK a \in Words \ {RefSize}, b \in Words \ {CLIENT_CLOSE}, d \in Words :
          /\ outbox'[c] = <<a, b, d>>
          /\ a = CLIENT_CLOSE => b = RefSize /\ d \in Parting(c)'
    <3> USE <1>0 DEF Words, CLIENT_OPEN, CLIENT_CLOSE, OPEN_CONFIG, OpenSize, RefSize, PidAndName
    <3>1. CASE Connect(c)
      BY <3>1 DEF Connect, OpenRequest
    <3>2. CASE OpenConfig(c)
      BY <3>2 DEF OpenConfig, ConfigRequest
    <3>3. CASE Close(c)
      <4>1. outbox'[c] = <<CLIENT_CLOSE, RefSize, ref[c]>> /\ ref[c] \in Parting(c)'
        BY <3>3 DEF Close, CloseRequest, Parting
      <4> QED
        BY <4>1
    <3> QED
      BY <1>3, <3>1, <3>2, <3>3
  <2>3. q = up[c] /\ Left(c)' = q \o <<a, b, d>>
    BY <1>0, <2>1, <2>2, ConcatEmptySeq DEF Left
  <2>4. /\ CloseWords(q, {}) => CloseWords(Left(c)', Parting(c)')
        /\ SizeFirst(q, {}) => SizeFirst(Left(c)', Parting(c)')
    BY <1>0, <2>2, <2>3, CloseWordsAppended
  <2>5. ~NumberFirst(q, {})
    BY DEF NumberFirst
  <2> HIDE DEF q
  <2> QED
    BY <1>0, <2>1, <2>4, <2>5 DEF ClosesOwn, ReadsClose, q
<1> QED
  BY <1>1, <1>2, <1>3 DEF ClientChoice, ClientStep

-----------------------------------------------------------------------------
(* Numbers and their owners                                                *)

\* The numbers that came from the connections are registered, each for one of
\* them.
Owns ==
  /\ clients = activeRefs
  /\ \A c \in Clients : owned[c] \subseteq clients
  /\ \A c, d \in Clients : c # d => owned[c] \cap owned[d] = {}

\* As long as its thread has not ended, and as long as it is open, a client has
\* the number that it was told.
Keeps(c) ==
  (thread[c] \notin Dead \/ state[c] = "open") /\ ref[c] \notin {Bad, MaxClients} =>
    ref[c] \in owned[c]

SessionInv ==
  /\ SessionTypes /\ MutexInv /\ Owns
  /\ \A c \in Clients : ClosesOwn(c) /\ Opens(c) /\ Keeps(c)

\* A thread takes no number away but its own, and that of its client only when
\* the client has parted: nobody else loses one.
LEMMA OthersKeepNumbers ==
  ASSUME SessionInv, NEW c \in Clients, ThreadStep(c)
  PROVE  /\ \A d \in Clients \ {c} : owned'[d] = owned[d]
         /\ state[c] = "open" => owned[c] \subseteq owned'[c]
         /\ thread'[c] \notin Dead => owned[c] \subseteq owned'[c]
<1>0. /\ owned \in [Clients -> SUBSET Reg!Refs] /\ thread \in [Clients -> Places]
      /\ \A d \in Clients : Bad \notin owned[d] /\ MaxClients \notin owned[d]
  BY SessionsAssumption
     DEF SessionInv, SessionTypes, ConnectionTypes, MutexInv, Holding, Reg!Refs, Bad
<1>1. CASE Unregister(c)
  <2>1. /\ owned' = [d \in Clients |-> owned[d] \ {word[c]}]
        /\ thread[c] = "unregister" /\ thread'[c] = "killed"
    BY <1>0, <1>1 DEF Unregister, Goto
  <2>2. word[c] = Bad \/ (word[c] = ref[c] /\ state[c] # "open")
    BY <2>1 DEF SessionInv, ClosesOwn, Parting
  <2>3. ASSUME word[c] \notin {Bad, MaxClients}
        PROVE  \A d \in Clients \ {c} : word[c] \notin owned[d]
    <3>1. word[c] = ref[c] /\ ref[c] \in owned[c]
      BY <2>1, <2>2, <2>3 DEF SessionInv, Keeps, Dead
    <3> QED
      BY <3>1 DEF SessionInv, Owns
  <2>4. \A d \in Clients \ {c} : word[c] \notin owned[d]
    BY <1>0, <2>3
  <2>5. thread'[c] \in Dead
    BY <2>1 DEF Dead
  <2> QED
    BY <1>0, <2>1, <2>2, <2>4, <2>5
<1>2. CASE Register(c)
  <2>1. owned' = owned \/ \E r \in Reg!Refs : owned' = [owned EXCEPT ![c] = @ \cup {r}]
    BY <1>2 DEF Register
  <2> QED
    BY <1>0, <2>1
<1>3. CASE \/ ReadHeader(c) \/ Lock(c) \/ Dispatch(c) \/ Release(c)
           \/ ReadOpenSize(c) \/ ReadOpenBody(c) \/ ReadCloseSize(c) \/ ReadCloseRef(c)
  <2>1. owned' = owned
    BY <1>3 DEF ReadHeader, Lock, Dispatch, Release, ReadOpenSize, ReadOpenBody,
                ReadCloseSize, ReadCloseRef
  <2> QED
    BY <2>1
<1> QED
  BY <1>1, <1>2, <1>3 DEF ThreadStep

\* Clients and the accept thread leave all numbers alone.
LEMMA OnlyThreadsRegister ==
  ASSUME \/ AcceptStep
         \/ \E c \in Clients : ClientChoice(c) \/ ClientStep(c)
         \/ UNCHANGED vars
  PROVE  UNCHANGED <<owned, registry>>
<1>1. CASE AcceptStep
  BY <1>1 DEF AcceptStep, Bind, Accept, StartFails, AcceptFails, Publish
<1>2. CASE \E c \in Clients : ClientChoice(c) \/ ClientStep(c)
  BY <1>2 DEF ClientChoice, ClientStep, Connect, ConnectFails, OpenConfig, Close, Crash,
              Write, ReadResult, CloseEnd
<1>3. CASE UNCHANGED vars
  BY <1>3 DEF vars
<1> QED
  BY <1>1, <1>2, <1>3

\* A registration takes a number that is free; its end gives it back to all.
LEMMA OwnsStep ==
  ASSUME SessionInv, [Next]_vars
  PROVE  Owns'
<1>0. owned \in [Clients -> SUBSET Reg!Refs] /\ Owns
  BY DEF SessionInv, SessionTypes, ConnectionTypes
<1>1. ASSUME NEW c \in Clients, Register(c) PROVE Owns'
  <2>1. CASE UNCHANGED <<registry, owned>>
    BY <1>0, <2>1 DEF Owns, registry
  <2>2. ASSUME NEW r \in Reg!Refs, Reg!AddClient(r), owned' = [owned EXCEPT ![c] = @ \cup {r}]
        PROVE  Owns'
    <3>1. /\ r \notin activeRefs /\ activeRefs' = activeRefs \cup {r}
          /\ clients' = clients \cup {r}
      BY <2>2 DEF Reg!AddClient, Reg!IsFirstFree
    <3>2. \A d \in Clients : owned'[d] = IF d = c THEN owned[c] \cup {r} ELSE owned[d]
      BY <1>0, <2>2
    <3> QED
      BY <1>0, <3>1, <3>2 DEF Owns
  <2> QED
    BY <1>1, <2>1, <2>2 DEF Register
<1>2. ASSUME NEW c \in Clients, Unregister(c) PROVE Owns'
  <2>1. owned' = [d \in Clients |-> owned[d] \ {word[c]}]
    BY <1>2 DEF Unregister
  <2>2. CASE word[c] \in clients
    <3>1. activeRefs' = activeRefs \ {word[c]} /\ clients' = clients \ {word[c]}
      BY <1>2, <2>2 DEF Unregister, Reg!CloseClient
    <3> QED
      BY <1>0, <2>1, <3>1 DEF Owns
  <2>3. CASE word[c] \notin clients
    <3>1. UNCHANGED <<activeRefs, clients>>
      BY <1>2, <2>3 DEF Unregister, registry
    <3> QED
      BY <1>0, <2>1, <2>3, <3>1 DEF Owns
  <2> QED
    BY <2>2, <2>3
<1>3. CASE UNCHANGED <<owned, registry>>
  BY <1>0, <1>3 DEF Owns, registry
<1>4. ASSUME NEW c \in Clients,
             \/ ReadHeader(c) \/ Lock(c) \/ Dispatch(c) \/ Release(c)
             \/ ReadOpenSize(c) \/ ReadOpenBody(c) \/ ReadCloseSize(c) \/ ReadCloseRef(c)
      PROVE  UNCHANGED <<owned, registry>>
  BY <1>4 DEF ReadHeader, Lock, Dispatch, Release, ReadOpenSize, ReadOpenBody,
              ReadCloseSize, ReadCloseRef
<1> QED
  BY <1>1, <1>2, <1>3, <1>4, OnlyThreadsRegister DEF Next, ThreadStep

-----------------------------------------------------------------------------
(* The steps that keep the rest                                            *)

\* A session that is left alone.
LEMMA LeftAlone ==
  ASSUME NEW d, SameSession(d), owned'[d] = owned[d],
         ClosesOwn(d), Opens(d), Keeps(d)
  PROVE  ClosesOwn(d)' /\ Opens(d)' /\ Keeps(d)'
<1>1. Left(d)' = Left(d)
  BY SameLeft
<1>2. ClosesOwn(d)'
  BY <1>1 DEF SameSession, ClosesOwn, ReadsClose, Parting
<1>3. Opens(d)'
  BY <1>1 DEF SameSession, Opens, Fresh, Asking, Answered, BeforeHeader, Granted
<1>4. Keeps(d)'
  BY DEF SameSession, Keeps
<1> QED
  BY <1>2, <1>3, <1>4

\* The accept thread starts the thread of a client that has connected.
LEMMA AcceptKeepsRest ==
  ASSUME SessionInv, AcceptStep, NEW d \in Clients
  PROVE  ClosesOwn(d)' /\ Opens(d)' /\ Keeps(d)'
<1>0. UNCHANGED owned /\ ClosesOwn(d) /\ Opens(d) /\ Keeps(d)
  BY AcceptKeepsSession DEF SessionInv
<1>1. CASE SameSession(d)
  BY <1>0, <1>1, LeftAlone
<1>2. CASE /\ thread[d] = "none" /\ thread'[d] = "header" /\ state[d] # "idle"
           /\ UNCHANGED <<clientSide, pipes, word>>
  <2>1. Left(d)' = Left(d) /\ UNCHANGED <<state, ref, down, word, attached>>
    BY <1>2 DEF clientSide, pipes, Left
  <2>2. ClosesOwn(d)'
    BY <1>0, <1>2, <2>1 DEF ClosesOwn, ReadsClose, Parting
  <2>3. Opens(d)'
    BY <1>0, <1>2, <2>1 DEF Opens, Asking, Answered, BeforeHeader, Granted
  <2>4. Keeps(d)'
    BY <1>0, <1>2, <2>1 DEF Keeps, Dead
  <2> QED
    BY <2>2, <2>3, <2>4
<1> QED
  BY <1>1, <1>2, AcceptKeepsSession DEF SessionInv

\* What a client does in its own session.
LEMMA ClientKeepsRest ==
  ASSUME SessionInv, NEW c \in Clients, ClientChoice(c) \/ ClientStep(c)
  PROVE  Opens(c)' /\ Keeps(c)'
<1>0. /\ state \in [Clients -> {"idle", "opening", "open", "closing", "closed", "failed", "crashed"}]
      /\ ref \in [Clients -> {Bad} \cup 0 .. MaxClients]
      /\ outbox \in [Clients -> Seq(Words)]
      /\ down \in [Clients -> Seq(0 .. MaxClients)]
      /\ Opens(c) /\ Keeps(c) /\ UNCHANGED <<owned, thread, word>>
  <2>1. UNCHANGED <<thread, word>>
    BY DEF ClientChoice, ClientStep, Connect, ConnectFails, OpenConfig, Close, Crash,
           Write, ReadResult, CloseEnd, threadSide
  <2> QED
    BY <2>1, OnlyThreadsRegister DEF SessionInv, SessionTypes, ClientTypes, QueueTypes
<1>1. CASE Connect(c)
  <2>1. /\ state[c] = "idle" /\ state'[c] = "opening" /\ outbox'[c] = OpenRequest
        /\ c \in attached' /\ UNCHANGED <<ref, up, down>>
    BY <1>0, <1>1 DEF Connect
  <2>2. up[c] = << >> /\ Fresh(c)
    BY <1>0, <2>1, LeftType DEF Opens, Fresh, SessionInv, SessionTypes
  <2>3. Left(c)' = OpenRequest
    BY <2>1, <2>2 DEF Left, OpenRequest
  <2> QED
    BY <1>0, <2>1, <2>2, <2>3 DEF Opens, Fresh, Asking, Keeps
<1>2. CASE ReadResult(c)
  <2>1. /\ state[c] = "opening" /\ state'[c] = "open" /\ down[c] # << >>
        /\ ref'[c] = Head(down[c]) /\ UNCHANGED attached
    BY <1>0, <1>2 DEF ReadResult
  <2>2. PICK r \in 0 .. MaxClients : down[c] = <<r>> /\ Granted(c, r)
    BY <1>0, <2>1 DEF Opens, Asking, Answered
  <2>3. ref'[c] = r /\ r # Bad
    BY <2>1, <2>2, SessionsAssumption DEF Bad
  <2> QED
    BY <1>0, <2>1, <2>2, <2>3 DEF Opens, Keeps, Granted
<1>3. CASE Write(c)
  <2>1. Left(c)' = Left(c) /\ UNCHANGED <<state, ref, down, attached>>
    BY <1>3, WritingLeft DEF Write, SessionInv
  <2> QED
    BY <1>0, <2>1 DEF Opens, Fresh, Asking, Answered, BeforeHeader, Granted, Keeps
<1>4. CASE ConnectFails(c) \/ OpenConfig(c) \/ Close(c) \/ CloseEnd(c) \/ Crash(c)
  <2>1. /\ state'[c] \notin {"idle", "opening"} /\ UNCHANGED ref
        /\ state'[c] = "open" => state[c] = "open"
        /\ state'[c] \in {"open", "closing"} => state[c] = "open" /\ UNCHANGED attached
    BY <1>0, <1>4 DEF ConnectFails, OpenConfig, Close, CloseEnd, Crash, pipes
  <2> QED
    BY <1>0, <2>1 DEF Opens, Keeps
<1> QED
  BY <1>1, <1>2, <1>3, <1>4 DEF ClientChoice, ClientStep

\* What its thread does.
LEMMA ThreadKeepsRest ==
  ASSUME SessionInv, NEW c \in Clients, ThreadStep(c)
  PROVE  Opens(c)' /\ Keeps(c)'
<1>0. /\ thread \in [Clients -> Places] /\ word \in [Clients -> Words]
      /\ owned \in [Clients -> SUBSET Reg!Refs]
      /\ down \in [Clients -> Seq(0 .. MaxClients)]
      /\ Opens(c) /\ Keeps(c) /\ UNCHANGED <<state, ref, outbox, asked, attached>>
  <2>1. UNCHANGED <<state, ref, outbox, asked, attached>>
    BY DEF ThreadStep, clientSide, pipes, ReadHeader, Lock, Dispatch, Release, ReadOpenSize,
           ReadOpenBody, Register, ReadCloseSize, ReadCloseRef, Unregister
  <2> QED
    BY <2>1 DEF SessionInv, SessionTypes, ConnectionTypes, QueueTypes, MutexInv, Holding
<1>1. Keeps(c)'
  <2>1. thread[c] \notin Dead
    BY DEF ThreadStep, ReadHeader, Lock, Dispatch, Release, ReadOpenSize, ReadOpenBody,
           Register, ReadCloseSize, ReadCloseRef, Unregister, Dead
  <2> QED
    BY <1>0, <2>1, OthersKeepNumbers DEF Keeps
<1>2. thread[c] # "none" /\ state[c] # "idle"
  <2>1. thread[c] # "none"
    BY DEF ThreadStep, ReadHeader, Lock, Dispatch, Release, ReadOpenSize, ReadOpenBody,
           Register, ReadCloseSize, ReadCloseRef, Unregister
  <2> QED
    BY <1>0, <2>1 DEF Opens, Fresh
<1>3. ASSUME state[c] = "opening" PROVE (Asking(c) \/ Answered(c))'
  <2>0. c \in attached /\ (Asking(c) \/ Answered(c))
    BY <1>0, <1>3 DEF Opens
  <2>1. ASSUME Consume(c), Readable(c)
        PROVE  /\ Left(c) # << >> /\ WordRead(c) = Left(c)[1] /\ Left(c)' = Tail(Left(c))
    BY <1>0, <2>0, <2>1, ReadingLeft DEF SessionInv
  <2>2. CASE Answered(c)
    <3>1. Release(c) /\ thread[c] = "release" /\ word[c] = CLIENT_OPEN
      <4>1. ~ReadHeader(c)
        BY <2>1, <2>2 DEF ReadHeader, Answered
      <4> QED
        BY <2>2, <4>1
           DEF Answered, BeforeHeader, ThreadStep, ReadHeader, Lock, Dispatch, Release,
               ReadOpenSize, ReadOpenBody, Register, ReadCloseSize, ReadCloseRef, Unregister
    <3>2. thread'[c] = "header" /\ UNCHANGED <<up, down, owned>>
      BY <1>0, <3>1 DEF Release, Goto, pipes, CLIENT_OPEN, Bad
    <3>3. Left(c)' = Left(c)
      BY <1>0, <3>2 DEF Left
    <3> QED
      BY <1>0, <2>2, <3>2, <3>3 DEF Answered, BeforeHeader, Granted
  <2>3. CASE Asking(c)
    <3>0. ref[c] = Bad /\ down[c] = << >> /\ owned[c] = {}
      BY <2>3 DEF Asking
    <3>1. CASE ReadHeader(c)
      <4>1. /\ Consume(c) /\ Readable(c) /\ thread[c] = "header" /\ thread'[c] = "lock"
            /\ word'[c] = WordRead(c) /\ UNCHANGED <<down, owned>>
        BY <1>0, <3>1 DEF ReadHeader, Goto
      <4>2. Left(c) = OpenRequest
        BY <2>3, <4>1 DEF Asking
      <4>3. WordRead(c) = CLIENT_OPEN /\ Left(c)' = <<OpenSize, PidAndName>>
        BY <2>1, <4>1, <4>2, TailsOfRequests DEF OpenRequest
      <4> QED
        BY <1>0, <3>0, <4>1, <4>3 DEF Asking
    <3>2. CASE Lock(c) \/ Dispatch(c)
      <4>1. thread[c] \in {"lock", "dispatch"}
        BY <3>2 DEF Lock, Dispatch
      <4>2. word[c] = CLIENT_OPEN /\ Left(c) = <<OpenSize, PidAndName>>
        BY <2>3, <4>1 DEF Asking
      <4>3. /\ thread'[c] \in {"dispatch", "openSize"}
            /\ UNCHANGED <<up, down, owned, word>>
        BY <1>0, <3>2, <4>2 DEF Lock, Dispatch, Goto, pipes
      <4>4. Left(c)' = Left(c)
        BY <1>0, <4>3 DEF Left
      <4> QED
        BY <1>0, <3>0, <4>2, <4>3, <4>4 DEF Asking
    <3>3. CASE ReadOpenSize(c)
      <4>1. /\ Consume(c) /\ Readable(c) /\ thread[c] = "openSize" /\ UNCHANGED <<down, owned, word>>
            /\ thread'[c] = IF WordRead(c) = OpenSize THEN "openBody" ELSE "register"
        BY <1>0, <3>3 DEF ReadOpenSize, Goto
      <4>2. word[c] = CLIENT_OPEN /\ Left(c) = <<OpenSize, PidAndName>>
        BY <2>3, <4>1 DEF Asking
      <4>3. WordRead(c) = OpenSize /\ Left(c)' = <<PidAndName>>
        BY <2>1, <4>1, <4>2, TailsOfRequests
      <4> QED
        BY <1>0, <3>0, <4>1, <4>2, <4>3 DEF Asking
    <3>4. CASE ReadOpenBody(c)
      <4>1. /\ Consume(c) /\ Readable(c) /\ thread[c] = "openBody" /\ thread'[c] = "register"
            /\ UNCHANGED <<down, owned, word>>
        BY <1>0, <3>4 DEF ReadOpenBody, Goto
      <4>2. word[c] = CLIENT_OPEN /\ Left(c) = <<PidAndName>>
        BY <2>3, <4>1 DEF Asking
      <4>3. Left(c)' = << >>
        BY <2>1, <4>1, <4>2, TailsOfRequests
      <4> QED
        BY <1>0, <3>0, <4>1, <4>2, <4>3 DEF Asking
    <3>5. CASE Register(c)
      <4>1. thread[c] = "register" /\ thread'[c] = "release" /\ UNCHANGED <<word, up>>
        BY <1>0, <3>5 DEF Register, Goto
      <4>2. word[c] = CLIENT_OPEN /\ Left(c) = << >> /\ Left(c)' = << >>
        BY <1>0, <2>3, <4>1 DEF Asking, Left
      <4>3. \E r \in 0 .. MaxClients : down'[c] = <<r>> /\ Granted(c, r)'
        <5>1. ASSUME NEW r \in Reg!Refs, owned' = [owned EXCEPT ![c] = @ \cup {r}], Reply(c, r)
              PROVE  r \in 0 .. MaxClients /\ down'[c] = <<r>> /\ Granted(c, r)'
          <6>1. down'[c] = <<r>> /\ owned'[c] = {r}
            BY <1>0, <2>0, <3>0, <5>1 DEF Reply
          <6> QED
            BY <6>1, SessionsAssumption DEF Granted, Reg!Refs
        <5>2. ASSUME owned' = owned, Reply(c, MaxClients)
              PROVE  MaxClients \in 0 .. MaxClients /\ down'[c] = <<MaxClients>>
                     /\ Granted(c, MaxClients)'
          <6>1. down'[c] = <<MaxClients>>
            BY <1>0, <2>0, <3>0, <5>2 DEF Reply
          <6> QED
            BY <3>0, <5>2, <6>1, SessionsAssumption DEF Granted
        <5> QED
          BY <3>5, <5>1, <5>2 DEF Register
      <4> QED
        BY <1>0, <3>0, <4>1, <4>2, <4>3 DEF Answered, BeforeHeader
    <3>6. ~Release(c) /\ ~ReadCloseSize(c) /\ ~ReadCloseRef(c) /\ ~Unregister(c)
      BY <2>3 DEF Asking, Release, ReadCloseSize, ReadCloseRef, Unregister
    <3> QED
      BY <3>1, <3>2, <3>3, <3>4, <3>5, <3>6 DEF ThreadStep
  <2> QED
    BY <2>0, <2>2, <2>3
<1>4. Opens(c)'
  BY <1>0, <1>2, <1>3 DEF Opens
<1> QED
  BY <1>1, <1>4

\* At the start nobody has connected.
LEMMA SessionInvInit == Init => SessionInv
<1> SUFFICES ASSUME Init PROVE SessionInv
  OBVIOUS
<1>1. SessionTypes /\ MutexInv
  BY SessionTypesInit, InitMutexInv
<1>2. Owns
  BY DEF Init, Reg!Init, Owns
<1>3. ASSUME NEW c \in Clients PROVE ClosesOwn(c) /\ Opens(c) /\ Keeps(c)
  <2>1. /\ state[c] = "idle" /\ thread[c] = "none" /\ ref[c] = Bad /\ down[c] = << >>
        /\ owned[c] = {} /\ up[c] = << >> /\ outbox[c] = << >>
    BY DEF Init
  <2>2. Left(c) = << >> /\ Len(Left(c)) = 0
    BY <2>1, EmptySeq DEF Left
  <2>3. ClosesOwn(c)
    BY <2>1, <2>2 DEF ClosesOwn, CloseWords, ReadsClose
  <2> QED
    BY <2>1, <2>2, <2>3 DEF Opens, Fresh, Keeps
<1> QED
  BY <1>1, <1>2, <1>3 DEF SessionInv

\* A step keeps the invariant of its own session and of all others.
LEMMA SessionInvStep ==
  ASSUME SessionInv, [Next]_vars
  PROVE  SessionInv'
<1>1. SessionTypes'
  BY ClientTypesStep, QueueTypesStep, AcceptTypesStep, ConnectionTypesStep
     DEF SessionInv, SessionTypes
<1>2. MutexInv' /\ Owns'
  BY MutexInvStep, OwnsStep DEF SessionInv
<1>3. ASSUME NEW d \in Clients PROVE ClosesOwn(d)' /\ Opens(d)' /\ Keeps(d)'
  <2>0. SessionTypes /\ Holding /\ ClosesOwn(d) /\ Opens(d) /\ Keeps(d)
    BY DEF SessionInv, MutexInv
  <2>1. CASE AcceptStep
    BY <2>1, AcceptKeepsRest
  <2>2. ASSUME NEW c \in Clients, ThreadStep(c) \/ ClientChoice(c) \/ ClientStep(c), c # d
        PROVE  ClosesOwn(d)' /\ Opens(d)' /\ Keeps(d)'
    <3>1. SameSession(d)
      BY <2>0, <2>2, OthersKeepSession
    <3>2. owned'[d] = owned[d]
      BY <2>2, OthersKeepNumbers, OnlyThreadsRegister
    <3> QED
      BY <2>0, <3>1, <3>2, LeftAlone
  <2>3. CASE ThreadStep(d)
    BY <2>0, <2>3, ThreadKeepsClosesOwn, ThreadKeepsRest
  <2>4. CASE ClientChoice(d) \/ ClientStep(d)
    BY <2>0, <2>4, ClientKeepsClosesOwn, ClientKeepsRest
  <2>5. CASE UNCHANGED vars
    <3>1. SameSession(d) /\ owned'[d] = owned[d]
      BY <2>5 DEF vars, clientSide, pipes, threadSide, SameSession
    <3> QED
      BY <2>0, <3>1, LeftAlone
  <2> QED
    BY <2>1, <2>2, <2>3, <2>4, <2>5 DEF Next
<1> QED
  BY <1>1, <1>2, <1>3 DEF SessionInv

\* The number a client was told is registered, for it and for nobody else, as
\* long as it is open: for any number of clients that open their configuration,
\* close and crash as they like.
THEOREM OpenClientsAlwaysKeepRef == Spec => []OpenClientsKeepRef
<1>1. Init => SessionInv
  BY SessionInvInit
<1>2. SessionInv /\ [Next]_vars => SessionInv'
  BY SessionInvStep
<1>3. SessionInv => OpenClientsKeepRef
  <2> SUFFICES ASSUME SessionInv, NEW c \in Clients, Admitted(c)
               PROVE  /\ ref[c] \in clients \cap owned[c]
                      /\ \A d \in Clients \ {c} : ref[c] \notin owned[d]
    BY DEF OpenClientsKeepRef
  <2>1. ref[c] \in owned[c]
    BY DEF SessionInv, Opens, Keeps, Admitted
  <2> QED
    BY <2>1 DEF SessionInv, Owns
<1> QED
  BY <1>1, <1>2, <1>3, PTL DEF Spec

-----------------------------------------------------------------------------
(* A client that never opens its configuration                             *)

\* While it is open all that it has sent has been handled; once it has sent its
\* close request the thread reads the words of that one after the other, and
\* when the thread has killed itself its number is given back.
Rests(c) == BeforeHeader(c) /\ Left(c) = << >> /\ Granted(c, ref[c])

Parts(c) ==
  /\ Granted(c, ref[c])
  /\ \/ BeforeHeader(c) /\ Left(c) = CloseRequest(ref[c])
     \/ /\ word[c] = CLIENT_CLOSE /\ thread[c] \in {"lock", "dispatch", "closeSize"}
        /\ Left(c) = <<RefSize, ref[c]>>
     \/ thread[c] = "closeRef" /\ Left(c) = <<ref[c]>>
     \/ thread[c] = "unregister" /\ word[c] = ref[c] /\ Left(c) = << >>

HasParted(c) == thread[c] = "killed" /\ Left(c) = << >> /\ owned[c] = {}

Plain(c) ==
  /\ state[c] = "open" => Rests(c)
  /\ state[c] \in {"closing", "closed"} => Parts(c) \/ HasParted(c)
  /\ state[c] = "closed" => outbox[c] = << >>

PlainInv == \A c \in Clients \ asked : Plain(c)

\* A session that is left alone.
LEMMA PlainLeftAlone ==
  ASSUME NEW d, SameSession(d), owned'[d] = owned[d], Plain(d)
  PROVE  Plain(d)'
<1>1. Left(d)' = Left(d)
  BY SameLeft
<1> QED
  BY <1>1 DEF SameSession, Plain, Rests, Parts, HasParted, BeforeHeader, Granted

\* The client's own steps.
LEMMA ClientKeepsPlain ==
  ASSUME SessionInv, NEW c \in Clients, c \notin asked', Plain(c),
         ClientChoice(c) \/ ClientStep(c)
  PROVE  Plain(c)'
<1>0. /\ state \in [Clients -> {"idle", "opening", "open", "closing", "closed", "failed", "crashed"}]
      /\ ref \in [Clients -> {Bad} \cup 0 .. MaxClients]
      /\ outbox \in [Clients -> Seq(Words)]
      /\ Opens(c) /\ UNCHANGED <<owned, thread, word>>
  <2>1. UNCHANGED <<thread, word>>
    BY DEF ClientChoice, ClientStep, Connect, ConnectFails, OpenConfig, Close, Crash,
           Write, ReadResult, CloseEnd, threadSide
  <2> QED
    BY <2>1, OnlyThreadsRegister DEF SessionInv, SessionTypes, ClientTypes, QueueTypes
<1>1. CASE Write(c)
  <2>1. Left(c)' = Left(c) /\ UNCHANGED <<state, ref>> /\ outbox[c] # << >>
    BY <1>1, WritingLeft DEF Write, SessionInv
  <2>2. state[c] # "closed"
    BY <2>1 DEF Plain
  <2> QED
    BY <1>0, <2>1, <2>2 DEF Plain, Rests, Parts, HasParted, BeforeHeader, Granted
<1>2. CASE ReadResult(c)
  <2>1. /\ state[c] = "opening" /\ state'[c] = "open" /\ down[c] # << >>
        /\ ref'[c] = Head(down[c]) /\ UNCHANGED <<up, outbox>>
    BY <1>0, <1>2 DEF ReadResult
  <2>2. Answered(c)
    BY <1>0, <2>1 DEF Opens, Asking
  <2>3. PICK r \in 0 .. MaxClients : down[c] = <<r>> /\ Granted(c, r)
    BY <2>2 DEF Answered
  <2>4. ref'[c] = r /\ Left(c)' = Left(c)
    BY <2>1, <2>3 DEF Left
  <2>5. Rests(c)'
    BY <1>0, <2>2, <2>3, <2>4 DEF Answered, Rests, BeforeHeader, Granted
  <2> QED
    BY <2>1, <2>5 DEF Plain
<1>3. CASE Close(c)
  <2>1. /\ state[c] = "open" /\ state'[c] = "closing" /\ outbox'[c] = CloseRequest(ref[c])
        /\ UNCHANGED <<up, ref>>
    BY <1>0, <1>3 DEF Close, pipes
  <2>2. Rests(c) /\ up[c] = << >>
    BY <2>1, LeftType DEF Plain, Rests, SessionInv, SessionTypes
  <2>3. Left(c)' = CloseRequest(ref[c])
    BY <2>1, <2>2 DEF Left, CloseRequest
  <2>4. Parts(c)'
    BY <1>0, <2>1, <2>2, <2>3 DEF Rests, Parts, BeforeHeader, Granted, CloseRequest
  <2> QED
    BY <2>1, <2>4 DEF Plain
<1>4. CASE CloseEnd(c)
  <2>1. /\ state[c] = "closing" /\ state'[c] = "closed" /\ outbox[c] = << >>
        /\ UNCHANGED <<up, outbox, ref>>
    BY <1>0, <1>4 DEF CloseEnd
  <2>2. Left(c)' = Left(c)
    BY <2>1 DEF Left
  <2> QED
    BY <1>0, <2>1, <2>2 DEF Plain, Parts, HasParted, BeforeHeader, Granted
<1>5. CASE Connect(c) \/ ConnectFails(c) \/ Crash(c)
  <2>1. state'[c] \in {"opening", "failed", "crashed"}
    BY <1>0, <1>5 DEF Connect, ConnectFails, Crash
  <2> QED
    BY <2>1 DEF Plain
<1>6. ~OpenConfig(c)
  BY DEF OpenConfig
<1> QED
  BY <1>1, <1>2, <1>3, <1>4, <1>5, <1>6 DEF ClientChoice, ClientStep

\* The steps of its thread.
LEMMA ThreadKeepsPlain ==
  ASSUME SessionInv, NEW c \in Clients, Plain(c), ThreadStep(c)
  PROVE  Plain(c)'
<1>0. /\ thread \in [Clients -> Places] /\ word \in [Clients -> Words]
      /\ owned \in [Clients -> SUBSET Reg!Refs]
      /\ Opens(c) /\ UNCHANGED <<state, ref, outbox, attached>>
  <2>1. UNCHANGED <<state, ref, outbox, attached>>
    BY DEF ThreadStep, clientSide, pipes, ReadHeader, Lock, Dispatch, Release, ReadOpenSize,
           ReadOpenBody, Register, ReadCloseSize, ReadCloseRef, Unregister
  <2> QED
    BY <2>1 DEF SessionInv, SessionTypes, ConnectionTypes, MutexInv, Holding
<1>1. ASSUME Consume(c), Readable(c), state[c] \in {"open", "closing", "closed"},
             Left(c) # << >> \/ state[c] = "open"
      PROVE  Left(c) # << >> /\ WordRead(c) = Left(c)[1] /\ Left(c)' = Tail(Left(c))
  <2>1. c \notin attached => state[c] = "closed" /\ Left(c) = up[c]
    BY <1>0, <1>1, LeftType DEF Opens, Plain, SessionInv, SessionTypes
  <2> QED
    BY <1>0, <1>1, <2>1, ReadingLeft DEF SessionInv
<1>2. ASSUME Release(c), BeforeHeader(c)
      PROVE  BeforeHeader(c)' /\ Left(c)' = Left(c) /\ UNCHANGED owned
  <2>1. thread[c] = "release" /\ thread'[c] = "header" /\ UNCHANGED <<up, owned>>
    BY <1>0, <1>2 DEF Release, BeforeHeader, Goto, pipes, CLIENT_OPEN, Bad
  <2> QED
    BY <1>0, <2>1 DEF BeforeHeader, Left
<1>3. ASSUME BeforeHeader(c) PROVE Release(c) \/ ReadHeader(c)
  BY <1>3 DEF BeforeHeader, ThreadStep, ReadHeader, Lock, Dispatch, Release, ReadOpenSize,
              ReadOpenBody, Register, ReadCloseSize, ReadCloseRef, Unregister
<1>4. ASSUME state[c] = "open" PROVE Rests(c)'
  <2>1. Rests(c) /\ BeforeHeader(c)
    BY <1>4 DEF Plain, Rests
  <2>2. ~ReadHeader(c)
    BY <1>1, <1>4, <2>1 DEF ReadHeader, Rests
  <2> QED
    BY <1>0, <1>2, <1>3, <2>1, <2>2 DEF Rests, Granted
<1>5. ASSUME state[c] \in {"closing", "closed"} PROVE (Parts(c) \/ HasParted(c))'
  <2>0. Parts(c)
    BY <1>5 DEF Plain, HasParted, ThreadStep, ReadHeader, Lock, Dispatch, Release,
                ReadOpenSize, ReadOpenBody, Register, ReadCloseSize, ReadCloseRef, Unregister
  <2>1. CASE Release(c)
    <3>1. BeforeHeader(c) /\ Left(c) = CloseRequest(ref[c])
      BY <2>0, <2>1 DEF Parts, Release
    <3> QED
      BY <1>0, <1>2, <2>0, <2>1, <3>1 DEF Parts, Granted, CloseRequest
  <2>2. CASE ReadHeader(c)
    <3>1. /\ Consume(c) /\ Readable(c) /\ thread[c] = "header" /\ thread'[c] = "lock"
          /\ word'[c] = WordRead(c) /\ UNCHANGED owned
      BY <1>0, <2>2 DEF ReadHeader, Goto
    <3>2. Left(c) = CloseRequest(ref[c]) /\ Left(c) # << >>
      BY <2>0, <3>1 DEF Parts, CloseRequest
    <3>3. WordRead(c) = CLIENT_CLOSE /\ Left(c)' = <<RefSize, ref[c]>>
      BY <1>1, <1>5, <3>1, <3>2, TailsOfRequests DEF CloseRequest
    <3> QED
      BY <1>0, <2>0, <3>1, <3>3 DEF Parts, Granted
  <2>3. CASE Lock(c) \/ Dispatch(c)
    <3>1. thread[c] \in {"lock", "dispatch"} /\ UNCHANGED <<up, owned, word>>
      BY <2>3 DEF Lock, Dispatch, pipes
    <3>2. word[c] = CLIENT_CLOSE /\ Left(c) = <<RefSize, ref[c]>>
      BY <2>0, <3>1 DEF Parts, BeforeHeader
    <3>3. thread'[c] \in {"dispatch", "closeSize"}
      <4>1. CASE Lock(c)
        BY <1>0, <4>1 DEF Lock, Goto
      <4>2. CASE Dispatch(c)
        BY <1>0, <3>2, <4>2 DEF Dispatch, Goto, CLIENT_OPEN, CLIENT_CLOSE
      <4> QED
        BY <2>3, <4>1, <4>2
    <3>4. Left(c)' = Left(c)
      BY <1>0, <3>1 DEF Left
    <3> QED
      BY <1>0, <2>0, <3>1, <3>2, <3>3, <3>4 DEF Parts, Granted
  <2>4. CASE ReadCloseSize(c)
    <3>1. /\ Consume(c) /\ Readable(c) /\ thread[c] = "closeSize" /\ UNCHANGED owned
          /\ thread'[c] = IF WordRead(c) = RefSize THEN "closeRef" ELSE "unregister"
      BY <1>0, <2>4 DEF ReadCloseSize, Goto
    <3>2. Left(c) = <<RefSize, ref[c]>>
      BY <2>0, <3>1 DEF Parts, BeforeHeader
    <3>3. Left(c) # << >>
      BY <3>2, TailsOfRequests
    <3>4. WordRead(c) = RefSize /\ Left(c)' = <<ref[c]>>
      BY <1>1, <1>5, <3>1, <3>2, <3>3, TailsOfRequests
    <3> QED
      BY <1>0, <2>0, <3>1, <3>4 DEF Parts, Granted
  <2>5. CASE ReadCloseRef(c)
    <3>1. /\ Consume(c) /\ Readable(c) /\ thread[c] = "closeRef" /\ UNCHANGED owned
          /\ thread'[c] = "unregister" /\ word'[c] = WordRead(c)
      BY <1>0, <2>5 DEF ReadCloseRef, Goto
    <3>2. Left(c) = <<ref[c]>> /\ Left(c) # << >>
      BY <2>0, <3>1 DEF Parts, BeforeHeader
    <3>3. WordRead(c) = ref[c] /\ Left(c)' = << >>
      BY <1>1, <1>5, <3>1, <3>2, TailsOfRequests
    <3> QED
      BY <1>0, <2>0, <3>1, <3>3 DEF Parts, Granted
  <2>6. CASE Unregister(c)
    <3>1. /\ thread[c] = "unregister" /\ thread'[c] = "killed" /\ UNCHANGED up
          /\ owned'[c] = owned[c] \ {word[c]}
      BY <1>0, <2>6 DEF Unregister, Goto, pipes
    <3>2. word[c] = ref[c] /\ Left(c) = << >> /\ Left(c)' = << >>
      BY <1>0, <2>0, <3>1 DEF Parts, BeforeHeader, Left
    <3> QED
      BY <2>0, <3>1, <3>2 DEF Parts, HasParted, Granted
  <2>7. ~ReadOpenSize(c) /\ ~ReadOpenBody(c) /\ ~Register(c)
    BY <2>0 DEF Parts, BeforeHeader, ReadOpenSize, ReadOpenBody, Register
  <2> QED
    BY <2>1, <2>2, <2>3, <2>4, <2>5, <2>6, <2>7 DEF ThreadStep
<1> QED
  BY <1>0, <1>4, <1>5 DEF Plain

\* What other clients do does not matter to a plain one.
LEMMA PlainInvStep ==
  ASSUME SessionInv, PlainInv, [Next]_vars
  PROVE  PlainInv'
<1> SUFFICES ASSUME NEW d \in Clients, d \notin asked' PROVE Plain(d)'
  BY DEF PlainInv
<1>0. SessionTypes /\ MutexInv /\ Holding
  BY DEF SessionInv, MutexInv
<1>1. CASE AcceptStep
  <2>1. d \notin asked /\ owned'[d] = owned[d]
    BY <1>1, OnlyThreadsRegister DEF AcceptStep, Bind, Accept, StartFails, AcceptFails, Publish, clientSide
  <2>2. CASE SameSession(d)
    BY <2>1, <2>2, PlainLeftAlone DEF PlainInv
  <2>3. CASE thread[d] = "none" /\ UNCHANGED <<clientSide, pipes, word>>
    <3>1. state[d] \notin {"open", "closing", "closed"}
      BY <2>1, <2>3 DEF PlainInv, Plain, Rests, Parts, HasParted, BeforeHeader
    <3> QED
      BY <2>3, <3>1 DEF Plain, clientSide
  <2> QED
    BY <1>0, <1>1, <2>2, <2>3, AcceptKeepsSession
<1>2. ASSUME NEW c \in Clients, ThreadStep(c) \/ ClientChoice(c) \/ ClientStep(c), c # d
      PROVE  Plain(d)'
  <2>1. SameSession(d)
    BY <1>0, <1>2, OthersKeepSession
  <2>2. owned'[d] = owned[d]
    BY <1>2, OthersKeepNumbers, OnlyThreadsRegister
  <2>3. d \notin asked
    BY <2>1 DEF SameSession
  <2> QED
    BY <2>1, <2>2, <2>3, PlainLeftAlone DEF PlainInv
<1>3. CASE ThreadStep(d)
  <2>1. d \notin asked
    BY <1>3 DEF ThreadStep, clientSide
  <2> QED
    BY <1>3, <2>1, ThreadKeepsPlain DEF PlainInv
<1>4. CASE ClientChoice(d) \/ ClientStep(d)
  <2>1. d \notin asked
    BY <1>4 DEF ClientChoice, ClientStep, Connect, ConnectFails, OpenConfig, Close, Crash,
                Write, ReadResult, CloseEnd
  <2> QED
    BY <1>4, <2>1, ClientKeepsPlain DEF PlainInv
<1>5. CASE UNCHANGED vars
  <2>1. SameSession(d) /\ owned'[d] = owned[d] /\ d \notin asked
    BY <1>5 DEF vars, clientSide, pipes, threadSide, SameSession
  <2> QED
    BY <2>1, PlainLeftAlone DEF PlainInv
<1> QED
  BY <1>1, <1>2, <1>3, <1>4, <1>5 DEF Next

\* Once the thread of a client that has closed has ended, nothing of the client
\* is registered any more.
THEOREM ClosedClientsLeaveNothing == Spec => []ClosedLeavesNothing
<1>1. Init => SessionInv /\ PlainInv
  <2>1. Init => PlainInv
    BY DEF Init, PlainInv, Plain
  <2> QED
    BY <2>1, SessionInvInit
<1>2. SessionInv /\ PlainInv /\ [Next]_vars => SessionInv' /\ PlainInv'
  BY SessionInvStep, PlainInvStep
<1>3. PlainInv => ClosedLeavesNothing
  BY DEF PlainInv, Plain, Parts, HasParted, BeforeHeader, ClosedLeavesNothing, Dead
<1> QED
  BY <1>1, <1>2, <1>3, PTL DEF Spec

-----------------------------------------------------------------------------
(* Types, for every state                                                  *)

\* The words in the pipes, the places of the threads and the tables are what
\* they are declared to be.
THEOREM SessionsTypeCorrect == Spec => []TypeOK
<1>1. Init => SessionInv
  BY SessionInvInit
<1>2. SessionInv /\ [Next]_vars => SessionInv'
  BY SessionInvStep
<1>3. SessionInv /\ Reg!TypeOK => TypeOK
  <2> SUFFICES ASSUME SessionInv, Reg!TypeOK PROVE TypeOK
    OBVIOUS
  <2>1. down \in [Clients -> Seq(Words)]
    <3>1. 0 .. MaxClients \subseteq Words
      BY DEF Words
    <3>2. ASSUME NEW c \in Clients PROVE down[c] \in Seq(Words)
      <4>1. down[c] \in Seq(0 .. MaxClients)
        BY DEF SessionInv, SessionTypes, QueueTypes
      <4> QED
        BY <3>1, <4>1, SeqMonotonic
    <3> QED
      BY <3>2 DEF SessionInv, SessionTypes, QueueTypes
  <2> QED
    BY <2>1 DEF SessionInv, SessionTypes, ClientTypes, QueueTypes, AcceptTypes, ConnectionTypes,
                MutexInv, Holding, TypeOK
<1> QED
  BY <1>1, <1>2, <1>3, SessionBuffersExclusive, PTL DEF Spec

=============================================================================
