--------------------------- MODULE RequestChannel ---------------------------
(***************************************************************************)
(* Client sessions over named pipes.  The accept thread of ServerChannel   *)
(* binds a pipe instance, waits for a client, starts a connection thread   *)
(* for it and binds the next one.  A connection thread reads a request     *)
(* header, takes the mutex that all connection threads share, lets         *)
(* RequestDecoder handle the request and releases the mutex.  A client     *)
(* (route_client over ClientChannel) opens, may ask for the configuration, *)
(* closes, or crashes at any moment.                                       *)
(*                                                                         *)
(* The registry tables are those of ClientRegistry: this module composes   *)
(* it with the sessions that call add_client and close_client.             *)
(*                                                                         *)
(* A pipe carries words, one per write of PipeRequest.h, since the pipes   *)
(* are message pipes.  The process id and the name of CLIENT_OPEN are one  *)
(* word, as are the two words of its result.  Each client has one session. *)
(* The notify pipe is left out: the server connects to it and never writes.*)
(***************************************************************************)
EXTENDS Integers, Sequences, FiniteSets

CONSTANTS
  MaxClients, MaxChannels, PortFactor, MaxConnections,   \* as in ClientRegistry
  Clients,          \* client processes; also names their connections
  None,             \* no client
  MayOpenConfig,    \* the clients that may call open_config, once each
  MayCrash,         \* the clients that may crash
  MayLackThread     \* the clients whose connection thread may not start

ASSUME SessionsAssumption ==
  /\ MaxClients \in Nat \ {0}
  /\ MaxChannels \in Nat \ {0}
  /\ PortFactor \in Nat /\ PortFactor >= 2
  /\ MaxConnections \in Nat
  /\ None \notin Clients
  /\ MayOpenConfig \subseteq Clients
  /\ MayCrash \subseteq Clients
  /\ MayLackThread \subseteq Clients

VARIABLES
  activeRefs, clients, inputBufferMap, outputBufferMap,  \* the registry
  activeBuffers, activePorts, ports, connections,
  state,      \* ClientStatus of each client, with the ways it can end
  outbox,     \* words of the request that a client has still to write
  ref,        \* reference number each client has been told
  asked,      \* clients that have called open_config
  attached,   \* clients whose end of the pipe is open
  up, down,   \* words in each pipe, client to server and server to client
  accepting,  \* what the accept thread is about to do
  arrived,    \* client connected to the bound instance
  channelConnections,  \* the list of connection threads
  thread,     \* what each connection thread is about to do
  decoder,    \* connections whose decoder pointer has been assigned
  word,       \* last header or reference number each thread has read
  mutex,      \* holder of ChannelConnectionThread::mutexHandle
  serverUp,   \* the server process has not died
  owned       \* history: registered numbers that came from each connection

registry == <<activeRefs, clients, inputBufferMap, outputBufferMap,
              activeBuffers, activePorts, ports, connections>>
clientSide == <<state, outbox, ref, asked>>
pipes == <<attached, up, down>>
acceptSide == <<accepting, arrived, channelConnections, decoder>>
threadSide == <<thread, word, mutex>>
vars == <<registry, clientSide, pipes, acceptSide, threadSide, serverUp, owned>>

Reg == INSTANCE ClientRegistry

-----------------------------------------------------------------------------
(* Requests                                                                *)

CLIENT_OPEN == 1
CLIENT_CLOSE == 2
OPEN_CONFIG == 3

OpenSize == 133    \* sizeof(int) + sizeof(name)
RefSize == 8       \* sizeof(int) + sizeof(ref)
PidAndName == 0
Bad == -1          \* the read failed, or nothing was read into the field

OpenRequest == <<CLIENT_OPEN, OpenSize, PidAndName>>
CloseRequest(r) == <<CLIENT_CLOSE, RefSize, r>>
ConfigRequest(r) == <<OPEN_CONFIG, RefSize, r>>

Words == {Bad, PidAndName, CLIENT_OPEN, CLIENT_CLOSE, OPEN_CONFIG, OpenSize, RefSize}
           \cup 0 .. MaxClients

Init ==
  /\ Reg!Init
  /\ state = [c \in Clients |-> "idle"]
  /\ outbox = [c \in Clients |-> << >>]
  /\ ref = [c \in Clients |-> Bad]
  /\ asked = {}
  /\ attached = {}
  /\ up = [c \in Clients |-> << >>]
  /\ down = [c \in Clients |-> << >>]
  /\ accepting = "bind"
  /\ arrived = None
  /\ channelConnections = {}
  /\ thread = [c \in Clients |-> "none"]
  /\ decoder = {}
  /\ word = [c \in Clients |-> Bad]
  /\ mutex = None
  /\ serverUp = TRUE
  /\ owned = [c \in Clients |-> {}]

-----------------------------------------------------------------------------
(* Clients                                                                 *)

\* ClientChannel::open: PipeClient::connect gets the bound instance, and
\* route_client::open goes on to write its request.
Connect(c) ==
  /\ state[c] = "idle"
  /\ serverUp /\ accepting = "listen" /\ arrived = None
  /\ arrived' = c
  /\ attached' = attached \cup {c}
  /\ state' = [state EXCEPT ![c] = "opening"]
  /\ outbox' = [outbox EXCEPT ![c] = OpenRequest]
  /\ UNCHANGED <<registry, ref, asked, up, down, accepting, channelConnections,
                 decoder, threadSide, serverUp, owned>>

\* No instance is free: WaitNamedPipe gives up, at once when there is no
\* instance at all, after two seconds when all are taken.
ConnectFails(c) ==
  /\ state[c] = "idle"
  /\ ~(serverUp /\ accepting = "listen" /\ arrived = None)
  /\ state' = [state EXCEPT ![c] = "failed"]
  /\ UNCHANGED <<registry, outbox, ref, asked, pipes, acceptSide, threadSide,
                 serverUp, owned>>

\* One WriteTransaction of the request being sent.
Write(c) ==
  /\ outbox[c] # << >>
  /\ up' = [up EXCEPT ![c] = Append(@, Head(outbox[c]))]
  /\ outbox' = [outbox EXCEPT ![c] = Tail(@)]
  /\ UNCHANGED <<registry, state, ref, asked, attached, down, acceptSide,
                 threadSide, serverUp, owned>>

\* The result of CLIENT_OPEN.  Its status word is never looked at, and the
\* number is taken as it comes.
ReadResult(c) ==
  /\ state[c] = "opening" /\ outbox[c] = << >>
  /\ down[c] # << >>
  /\ ref' = [ref EXCEPT ![c] = Head(down[c])]
  /\ down' = [down EXCEPT ![c] = Tail(@)]
  /\ state' = [state EXCEPT ![c] = "open"]
  /\ UNCHANGED <<registry, outbox, asked, attached, up, acceptSide, threadSide,
                 serverUp, owned>>

OpenConfig(c) ==
  /\ c \in MayOpenConfig \ asked
  /\ state[c] = "open" /\ outbox[c] = << >>
  /\ outbox' = [outbox EXCEPT ![c] = ConfigRequest(ref[c])]
  /\ asked' = asked \cup {c}
  /\ UNCHANGED <<registry, state, ref, pipes, acceptSide, threadSide, serverUp, owned>>

Close(c) ==
  /\ state[c] = "open" /\ outbox[c] = << >>
  /\ outbox' = [outbox EXCEPT ![c] = CloseRequest(ref[c])]
  /\ state' = [state EXCEPT ![c] = "closing"]
  /\ UNCHANGED <<registry, ref, asked, pipes, acceptSide, threadSide, serverUp, owned>>

\* ClientChannel::close.  Words still in the pipe stay readable.
CloseEnd(c) ==
  /\ state[c] = "closing" /\ outbox[c] = << >>
  /\ attached' = attached \ {c}
  /\ state' = [state EXCEPT ![c] = "closed"]
  /\ UNCHANGED <<registry, outbox, ref, asked, up, down, acceptSide, threadSide,
                 serverUp, owned>>

\* The process dies, possibly half way through a request.
Crash(c) ==
  /\ c \in MayCrash /\ c \in attached
  /\ attached' = attached \ {c}
  /\ state' = [state EXCEPT ![c] = "crashed"]
  /\ outbox' = [outbox EXCEPT ![c] = << >>]
  /\ UNCHANGED <<registry, ref, asked, up, down, acceptSide, threadSide, serverUp, owned>>

-----------------------------------------------------------------------------
(* The accept thread                                                       *)

\* listenForClients
Bind ==
  /\ serverUp /\ accepting = "bind"
  /\ accepting' = "listen"
  /\ UNCHANGED <<registry, clientSide, pipes, arrived, channelConnections, decoder,
                 threadSide, serverUp, owned>>

\* ChannelConnectionThread::isRunning, which answers so for every thread.
IsRunning(c) == TRUE

\* waitAcceptClient, then addClient up to the start of the new thread; the
\* list is shared with nobody, so the thread is listed from here on.
Accept(c) ==
  /\ serverUp /\ accepting = "listen" /\ arrived = c
  /\ accepting' = "publish"
  /\ channelConnections' = {d \in channelConnections : IsRunning(d)} \cup {c}
  /\ thread' = [thread EXCEPT ![c] = "header"]
  /\ UNCHANGED <<registry, clientSide, pipes, arrived, decoder, word, mutex,
                 serverUp, owned>>

\* There is no thread to be had.  The failure is passed on to addClient, which
\* does not look at it: the connection is listed, with nobody to serve it.
StartFails(c) ==
  /\ c \in MayLackThread
  /\ serverUp /\ accepting = "listen" /\ arrived = c
  /\ channelConnections' = {d \in channelConnections : IsRunning(d)} \cup {c}
  /\ accepting' = "bind"
  /\ arrived' = None
  /\ UNCHANGED <<registry, clientSide, pipes, decoder, threadSide, serverUp, owned>>

\* A client that connected and died before ConnectNamedPipe was called: the
\* call fails, execute passes the failure on, and the thread ends for good.
AcceptFails(c) ==
  /\ serverUp /\ accepting = "listen" /\ arrived = c
  /\ c \notin attached
  /\ accepting' = "exited"
  /\ UNCHANGED <<registry, clientSide, pipes, arrived, channelConnections, decoder,
                 threadSide, serverUp, owned>>

\* The decoder is created only after the thread that uses it has started.
Publish(c) ==
  /\ serverUp /\ accepting = "publish" /\ arrived = c
  /\ decoder' = decoder \cup {c}
  /\ accepting' = "bind"
  /\ arrived' = None
  /\ UNCHANGED <<registry, clientSide, pipes, channelConnections, threadSide,
                 serverUp, owned>>

-----------------------------------------------------------------------------
(* A connection thread                                                     *)

\* A read returns when there is a word, or when the client has gone.
Readable(c) == up[c] # << >> \/ c \notin attached
WordRead(c) == IF up[c] # << >> THEN Head(up[c]) ELSE Bad
Consume(c) == up' = [up EXCEPT ![c] = IF @ = << >> THEN @ ELSE Tail(@)]

Goto(c, place) == thread' = [thread EXCEPT ![c] = place]

\* requestHeader.read; the header is whatever word comes next.
ReadHeader(c) ==
  /\ thread[c] = "header" /\ Readable(c)
  /\ Consume(c)
  /\ word' = [word EXCEPT ![c] = WordRead(c)]
  /\ Goto(c, "lock")
  /\ UNCHANGED <<mutex, attached, down, acceptSide, serverUp, registry, owned>>

\* The definitions named Bad... are slips a change to the code could make;
\* each stands before the definition it is a variant of, and no other
\* definition uses one.

\* The mutex is requested but its answer is not waited for.
BadLockNoWait(c) ==
  /\ thread[c] = "lock"
  /\ mutex' = c
  /\ Goto(c, "dispatch")
  /\ UNCHANGED <<word, pipes, acceptSide, serverUp, registry, owned>>

\* Only WAIT_FAILED is an error: a mutex abandoned by a killed thread is
\* taken like a free one.
Lock(c) ==
  /\ thread[c] = "lock" /\ mutex = None
  /\ mutex' = c
  /\ Goto(c, "dispatch")
  /\ UNCHANGED <<word, pipes, acceptSide, serverUp, registry, owned>>

\* RequestDecoder::handleRequest up to its first read.  Through a decoder
\* pointer that has not been assigned, CLIENT_OPEN and CLIENT_CLOSE reach for
\* the server object and the process dies; other types touch nothing.
Dispatch(c) ==
  /\ thread[c] = "dispatch"
  /\ LET known == word[c] \in {CLIENT_OPEN, CLIENT_CLOSE}
     IN  /\ serverUp' = (known => c \in decoder)
         /\ Goto(c, IF ~known THEN "release"
                    ELSE IF word[c] = CLIENT_OPEN THEN "openSize" ELSE "closeSize")
  /\ UNCHANGED <<word, mutex, pipes, acceptSide, registry, owned>>

\* ClientOpenRequest::read, whose status handleRequest ignores.
ReadOpenSize(c) ==
  /\ thread[c] = "openSize" /\ Readable(c)
  /\ Consume(c)
  /\ Goto(c, IF WordRead(c) = OpenSize THEN "openBody" ELSE "register")
  /\ UNCHANGED <<word, mutex, attached, down, acceptSide, serverUp, registry, owned>>

ReadOpenBody(c) ==
  /\ thread[c] = "openBody" /\ Readable(c)
  /\ Consume(c)
  /\ Goto(c, "register")
  /\ UNCHANGED <<word, mutex, attached, down, acceptSide, serverUp, registry, owned>>

\* A result that is led by its size, as requests are.
BadReplySized(c, r) ==
  down' = [down EXCEPT ![c] = IF c \in attached THEN @ \o <<RefSize, r>> ELSE @]

Reply(c, r) ==
  down' = [down EXCEPT ![c] = IF c \in attached THEN Append(@, r) ELSE @]

\* add_client and the answer.  A refused client is answered like the others,
\* with the number at which allocate_ref stopped.
Register(c) ==
  /\ thread[c] = "register"
  /\ \/ \E r \in Reg!Refs :
          /\ Reg!AddClient(r)
          /\ owned' = [owned EXCEPT ![c] = @ \cup {r}]
          /\ Reply(c, r)
     \/ /\ Reg!Refused
        /\ Reply(c, MaxClients)
        /\ UNCHANGED <<registry, owned>>
  /\ Goto(c, "release")
  /\ UNCHANGED <<word, mutex, attached, up, acceptSide, serverUp>>

\* The number starts at 0 in place of -1.
BadReadCloseSizeZero(c) ==
  /\ thread[c] = "closeSize" /\ Readable(c)
  /\ Consume(c)
  /\ Goto(c, IF WordRead(c) = RefSize THEN "closeRef" ELSE "unregister")
  /\ word' = [word EXCEPT ![c] = 0]
  /\ UNCHANGED <<mutex, attached, down, acceptSide, serverUp, registry, owned>>

\* ClientCloseRequest::read, whose status is ignored too; the number stays
\* -1 unless it is read.
ReadCloseSize(c) ==
  /\ thread[c] = "closeSize" /\ Readable(c)
  /\ Consume(c)
  /\ Goto(c, IF WordRead(c) = RefSize THEN "closeRef" ELSE "unregister")
  /\ word' = [word EXCEPT ![c] = Bad]
  /\ UNCHANGED <<mutex, attached, down, acceptSide, serverUp, registry, owned>>

ReadCloseRef(c) ==
  /\ thread[c] = "closeRef" /\ Readable(c)
  /\ Consume(c)
  /\ word' = [word EXCEPT ![c] = WordRead(c)]
  /\ Goto(c, "unregister")
  /\ UNCHANGED <<mutex, attached, down, acceptSide, serverUp, registry, owned>>

\* The thread is closed before the client is.
BadUnregisterTooLate(c) ==
  /\ thread[c] = "unregister"
  /\ Goto(c, "killed")
  /\ mutex' = None
  /\ UNCHANGED <<word, pipes, acceptSide, serverUp, registry, owned>>

\* A lock that does not notice the death of its holder.
BadUnregisterKeepsLock(c) ==
  /\ thread[c] = "unregister"
  /\ IF word[c] \in clients
     THEN Reg!CloseClient(word[c])
     ELSE UNCHANGED registry
  /\ owned' = [d \in Clients |-> owned[d] \ {word[c]}]
  /\ Goto(c, "killed")
  /\ UNCHANGED <<word, mutex, pipes, acceptSide, serverUp>>

\* close_client, then channelThread->close(): the thread terminates itself
\* inside Thread::kill, with the mutex in its hands, and never gets to close
\* its end of the pipe.
Unregister(c) ==
  /\ thread[c] = "unregister"
  /\ IF word[c] \in clients
     THEN Reg!CloseClient(word[c])
     ELSE UNCHANGED registry
  /\ owned' = [d \in Clients |-> owned[d] \ {word[c]}]
  /\ Goto(c, "killed")
  /\ mutex' = None
  /\ UNCHANGED <<word, pipes, acceptSide, serverUp>>

\* ReleaseMutex; after a failed read of the header the thread returns.
Release(c) ==
  /\ thread[c] = "release"
  /\ mutex' = None
  /\ Goto(c, IF word[c] = Bad THEN "exited" ELSE "header")
  /\ UNCHANGED <<word, pipes, acceptSide, serverUp, registry, owned>>

ThreadStep(c) ==
  /\ serverUp
  /\ \/ ReadHeader(c) \/ Lock(c) \/ Dispatch(c) \/ Release(c)
     \/ ReadOpenSize(c) \/ ReadOpenBody(c) \/ Register(c)
     \/ ReadCloseSize(c) \/ ReadCloseRef(c) \/ Unregister(c)
  /\ UNCHANGED clientSide

-----------------------------------------------------------------------------
AcceptStep ==
  Bind \/ \E c \in Clients : Accept(c) \/ StartFails(c) \/ AcceptFails(c) \/ Publish(c)

ClientChoice(c) == Connect(c) \/ ConnectFails(c) \/ OpenConfig(c) \/ Close(c) \/ Crash(c)
ClientStep(c) == Write(c) \/ ReadResult(c) \/ CloseEnd(c)

Next ==
  \/ AcceptStep
  \/ \E c \in Clients : ThreadStep(c) \/ ClientChoice(c) \/ ClientStep(c)

\* Threads of the server run when they can.  Whether and when a client makes a
\* call, goes on with it, or crashes, is its own affair.
Fairness ==
  /\ WF_vars(AcceptStep)
  /\ \A c \in Clients : WF_vars(ThreadStep(c))

Spec == Init /\ [][Next]_vars /\ Fairness

-----------------------------------------------------------------------------
(* Properties                                                              *)

Places == {"none", "header", "lock", "dispatch", "openSize", "openBody", "register",
           "closeSize", "closeRef", "unregister", "release", "exited", "killed"}
Handling == Places \ {"none", "header", "lock", "exited", "killed"}
Dead == {"exited", "killed"}

\* Words, places and the registry tables are what they are declared to be.
TypeOK ==
  /\ Reg!TypeOK
  /\ state \in [Clients -> {"idle", "opening", "open", "closing", "closed", "failed", "crashed"}]
  /\ outbox \in [Clients -> Seq(Words)]
  /\ ref \in [Clients -> {Bad} \cup 0 .. MaxClients]
  /\ asked \subseteq Clients
  /\ attached \subseteq Clients
  /\ up \in [Clients -> Seq(Words)] /\ down \in [Clients -> Seq(Words)]
  /\ accepting \in {"bind", "listen", "publish", "exited"}
  /\ arrived \in Clients \cup {None}
  /\ channelConnections \subseteq Clients
  /\ thread \in [Clients -> Places]
  /\ decoder \subseteq Clients
  /\ word \in [Clients -> Words]
  /\ mutex \in Clients \cup {None}
  /\ serverUp \in BOOLEAN
  /\ owned \in [Clients -> SUBSET Reg!Refs]

\* Requests are handled one at a time although each client has a thread, also
\* after a thread has killed itself with the mutex in its hands: the registry
\* tables, which have no lock of their own, are safe from each other's calls.
OneRequestAtATime == \A c \in Clients : thread[c] \in Handling <=> mutex = c

\* Whatever the sessions do to each other, the tables only ever see whole
\* calls of add_client and close_client: everything shown of ClientRegistry
\* holds here.
KeepsRegistry == Reg!Spec

\* The number a client was told stays its own while it is open: it is
\* registered, it came from this client's connection, and no other open client
\* has it, whatever the other clients do, crash in the middle of or send out of
\* step.
Admitted(c) == state[c] = "open" /\ ref[c] # MaxClients

OpenClientsKeepRef ==
  \A c \in Clients : Admitted(c) =>
    /\ ref[c] \in clients \cap owned[c]
    /\ \A d \in Clients \ {c} : ref[c] \notin owned[d]

\* After a clean close nothing of a client stays registered once its thread
\* has ended, although the thread dies in the middle of its own close(), and
\* whatever the clients do that have put their threads out of step by opening
\* their configuration.
ClosedLeavesNothing ==
  \A c \in Clients \ asked : state[c] = "closed" /\ thread[c] \in Dead => owned[c] = {}

\* A thread waits, with the mutex in its hands, for a word that its client does
\* not send.
HeldUp ==
  \E c \in Clients :
    thread[c] \in {"openSize", "openBody", "closeSize", "closeRef"} /\ ~Readable(c)

\* A connection whose thread could not be started: nobody ever reads from it.
Unserved(c) == c \in channelConnections /\ thread[c] = "none"

\* A client that has connected, goes on with its call and does not crash gets
\* its answer, unless its connection is unserved or some other client stops in
\* the middle of a request for ever: no connection thread keeps the mutex,
\* whoever else crashes, closes or sends out of step.
OpenAnswered ==
  \A c \in Clients :
    WF_vars(ClientStep(c)) /\ []<>~HeldUp =>
      (state[c] = "opening" ~> (state[c] \in {"open", "crashed"} \/ Unserved(c) \/ ~serverUp))

\* A client that has closed, and whose thread it has not put out of step, is in
\* the end unregistered, unless another client holds up the server for ever.
ClosedReleased ==
  \A c \in Clients :
    []<>~HeldUp =>
      (state[c] = "closed" /\ c \notin asked ~> (owned[c] = {} \/ ~serverUp))

-----------------------------------------------------------------------------
(* What comments of the code say, and the code does not do                 *)

\* RequestDecoder.cpp:67, on OPEN_CONFIG: "nothing more to do...yet".  Then a
\* connection registers at most the one client that its CLIENT_OPEN asked for.
ConfigChangesNothing == \A c \in Clients : Cardinality(owned[c]) <= 1

\* route_client.cpp:77: "client is now open".  Then it has a reference number
\* of the table, with which it goes on to index the client records.
OpenClientHasRecord == \A c \in Clients : state[c] = "open" => ref[c] \in Reg!Refs

=============================================================================
