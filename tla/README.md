# Route suite: specifications, checks and proofs

Route suite is an audio patch bay for Windows. A server (`routed`) gives each
client a reference number, a set of audio buffers in shared memory and a port
per channel and direction; the user connects ports from the server's console,
and an audio clock copies source buffers to destination buffers. Clients (a C++
library, an ASIO driver, Node bindings) talk to the server over named pipes.

This directory holds TLA+ specifications of the server, of the way of the audio
through shared memory and of the ASIO driver, TLC configurations that check them,
and proofs for TLAPS. The repository has no
design document and no tests of this code; the specifications are written from
the source. Paths below are relative to `src/`.

## The system

| component | state | operations |
|---|---|---|
| `common/server/client/client_manager` | `activeRefs`, `clients`, `client_info` records in shared memory | `add_client`, `close_client`, `open`, `close` |
| `common/server/buffer_manager` | `activeBuffers`, buffers in shared memory | `allocate_buffer`, `free_buffer` |
| `common/graph/graph_manager` | `activePorts`, `ports`, `connections` | `add_port`, `remove_port`, `connect_ports`, `process` |
| `common/pipes/ServerChannel` | bound pipe instance, list of connection threads, one mutex shared by them | accept thread, connection threads |
| `common/pipes/RequestDecoder`, `PipeRequest` | none; the words in each pipe | CLIENT_OPEN, CLIENT_CLOSE, OPEN_CONFIG |
| `common/client/route_client`, `ClientChannel` | `ClientStatus`, reference number | `open`, `open_config`, `close` |
| `common/thread/Thread` | handle, event, `threadState` | `start`, `stop`, `kill`, `ThreadHandler` |
| `common/engine` | the clock's thread | `open`, `close`, `tick` (calls `process`) |
| `common/server/route_server`, `routed.cpp` | `serverState` | `open`, `start`, `stop`, `close`, console commands |
| `route-asio/RouteASIO`, `ASIOClock` | ASIO buffers, toggle, sample position, clock thread | `init`, `createBuffers`, `start`, `bufferSwitch`, `stop`, `disposeBuffers` |
| `route-asio/dllentry`, `combase` | class factory, counts of references and objects | `DllGetClassObject`, `CreateInstance`, `AddRef`, `Release`, `DllCanUnloadNow` |
| `examples/portaudio_client` | none | reads a half of an input buffer in portaudio's callback |

How they interact. The accept thread binds a pipe instance, waits for a client
and starts a connection thread for it. A connection thread reads a request
header without a lock, takes the shared mutex, and has `RequestDecoder` read the
rest of the request and call `client_manager`, which calls `buffer_manager` and
`graph_manager`; then it releases the mutex. The console thread calls
`connect_ports`, and the clock thread calls `process`, without that mutex.
Clients read their record in shared memory once, after `open`. Ctrl-C runs `stop`
and `close` of the server on a thread of its own, at any point of a command. The
server and each ASIO driver have a clock thread that loops without ever waiting;
the driver's calls `bufferSwitch`, which fills the client's output buffer and calls
the audio host back, while the host starts, stops and releases the driver.

What is hard. Clients crash between any two words of a request. Statuses are
ignored (`RequestDecoder.cpp:28` and `:47`, `client_manager.cpp:101`,
`ServerChannel.cpp:145`). `connect_ports` holds copies of ports that may be removed
before it uses them. A connection thread terminates itself while it holds the mutex
(`ServerChannel.cpp:230`). A stopped clock goes on (`Thread.cpp:183`), and so do the
connection threads of a stopped server. Audio is copied without a lock. Three id
tables must stay in step although each
searches for free ids by itself. `PROJECT.json` lists every hazard with its line.

What makes each part correct:

- tables: no buffer has two owners, none leaks, one port per channel and
  direction, connections lead to live clients as long as the calls on the tables
  are whole (`connect_ports` on the console is not, and does leave one behind);
- request channel: one request at a time, a client keeps its number while it is
  open, a clean close leaves nothing, an open that connected is answered unless
  its connection has no thread or another client holds up the server;
- threads: a thread that is killed is gone, one accept thread at a time, which comes
  to wait for clients; a stopped clock should end, and does not;
- restarts: clients that outlive a stop keep their number, ports and buffers to
  themselves, and a connection that leads to two clients goes with the first of them;
- audio path: the half that the toggle of a source names is whole, and what is heard is
  at most one block older than the newest block when the server last began to copy; the
  half that a reader finds in a destination may be torn;
- ASIO driver: blocks go out in order, each once, in the right half; the host's
  position is right; after `stop` one more callback at most; a pointer leads to a
  driver in a DLL that is there.

## The modules

| module | models |
|---|---|
| `Slots` | the free-id tables in closed form: what a row of calls of the allocation loop takes and returns |
| `SlotTable` | the loop itself (`allocate_buffer`, `free_buffer`), one turn a step; shown to do what `Slots` says |
| `Patchbay` | the abstract promise: clients online, patches between their jacks |
| `ClientRegistry` | `client_manager`, `buffer_manager` and `graph_manager` with their tables |
| `RequestChannel` | client sessions, pipes, accept thread, connection threads, mutex; composes `ClientRegistry` |
| `Thread` | the class `Thread`: owner, handle, state, and the operating system threads that run its handler |
| `ServerLifecycle` | commands, Ctrl-C, accept thread, clock thread and clients through stops and starts; composes `ClientRegistry` and two `Thread`s |
| `AudioPath` | one channel from a source's double buffer through `process` to a reader |
| `DriverDll` | class factory, reference counts and unloading of the driver's DLL |
| `AsioDriver` | one life of a driver, with its clock (`Thread`) and its DLL (`DriverDll`); the source of `AudioPath` in detail |
| `MCClientRegistry`, `MCRequestChannel`, `MCServerLifecycle` | instances for TLC |
| `SessionProofs` | theorems on a client's session in `RequestChannel`; goes on from `RequestChannelProofs` |
| `...Proofs` (the others) | theorems and proofs of the module before the word |

### ClientRegistry

A boolean array is the set of its taken ids; a map is a function. `AddClient(ref)`
is the whole of `add_client`: the reference number, 2 x `MAX_CHANNELS` calls of
`allocate_buffer` whose status is ignored, and as many calls of `add_port`.
Those calls are not a loop in the specification: the k-th call of a row takes
the free id of rank k (`Rank`, `Take`, `Nth`), which `SlotTableProofs` proves of
the loop for every table and every row of calls. A failed
allocation leaves `MaxBuffers` in the record, as the loop does. `CloseClient(ref)`
frees the buffers that the shared memory record names, then the first port that
`find_port` finds for each channel and direction, with its connections.
`remove_port` compares ports without their id (`SamePort`), and so does the model.
`ConnectPorts(a, b)` is the console command when nothing comes between its lines;
unknown ports raise an exception that the console catches, so that nothing changes.
Its parts `Connected` and `PushConnection` are what `ServerLifecycle` takes apart.
The records keep their
contents when a client is closed. One behaviour runs from one opening of the
server to its closing.

`Patchbay` forgets the tables. The refinement mapping takes the set of taken
reference numbers as the clients online, and a connection as the pair of jacks
(client, channel, direction) that its copies of ports name.

### RequestChannel

A pipe is a queue of words, one for each write of `PipeRequest.h`, because the
pipes are message pipes and each read takes one message. The process id and the
name are one word, as are the two words of the result. A header is whatever
word comes next, so requests can run out of step as they do in the code.
Reads return what is left in a pipe after the client has gone, and fail then.

| action | code |
|---|---|
| `Connect`, `ConnectFails` | `ClientChannel::open`, `PipeClient::connect` |
| `Write`, `ReadResult` | the writes and the read of `serverCall`, and the end of `route_client::open` |
| `OpenConfig`, `Close`, `CloseEnd`, `Crash` | the calls of the client library; the end of the process |
| `Bind`, `Accept`, `Publish` | the accept thread; the decoder is assigned after the thread of the connection has started |
| `StartFails` | no thread could be started (`ServerChannel.cpp:209-213`): the status is dropped, the connection listed, nobody serves it |
| `AcceptFails` | the client had gone before it was accepted |
| `ReadHeader`, `Lock`, `Dispatch`, `Release` | `ChannelConnectionThread::execute` and the switch of `handleRequest` |
| `ReadOpenSize`, `ReadOpenBody`, `Register` | CLIENT_OPEN |
| `ReadCloseSize`, `ReadCloseRef`, `Unregister` | CLIENT_CLOSE, with the thread ending itself |

Choices that stand for behaviour outside the source: a terminated thread leaves
the mutex abandoned, and the next wait for it succeeds (`execute` takes only
`WAIT_FAILED` for an error). A request handled through the decoder pointer before
it is assigned is undefined; CLIENT_OPEN and CLIENT_CLOSE then reach for the
server object and the process is taken to die (`serverUp`), and the liveness
properties are about a server that is up. `AcceptFails` is a client that
connected and died before `ConnectNamedPipe` was called: the accept thread then
ends for good, which the runs with crashes reach. `MayLackThread` are the
clients for which there may be no thread. `owned` is a history variable: the numbers that were registered through each connection.

### Thread

A `Runnable` owns a `Thread` and may start it more than once; each start creates
another operating system thread, and all of them set the same `threadState`. A
start is two steps, `Create` and `StoreIdle`, since the new thread runs before
`start` makes its last store: the handler's RUNNING may come before IDLE, and a
realtime thread then breaks at once. `Stop` forgets the handle and leaves the thread
and its state alone. `kill` is four steps, because each of its lines reads the handle
anew: `HasThread` (the null test), `Terminate`, the wait, and `Forget`. The wait is for
the handle of the moment it begins, and ends when that thread does (`WaitIsOver`), which
is never for a thread that was never started (`INVALID_HANDLE_VALUE` of the
constructor names the calling process to the system).
The owner's module says when `execute` returns something else than OK (`Break`).

### ServerLifecycle

The state of a caller (`pc`) is where it is in `route_server::open`, `start`, `stop` or
`close`; one step is what lies between two points at which another thread can make
a difference.

| action | code |
|---|---|
| `StartCommand`, `StopCommand`, `ExitCommand`, `CtrlC` | the commands of `routed.cpp` with their look at the state, `CtrlHandler` |
| `ConnectCommand`, `FindDestination`, `Connect` | `connect_ports` on the console, without a lock: the copy of the first port, the copy of the second, the connection of both copies |
| `OpenTables`, `OpenEngine`, `EngineOpened` | `client_manager::open`, `route_engine::open` with the start of the clock |
| `Start`, `Started` | `route_server::start`, RUNNING whatever became of the accept thread |
| `Stop` | `route_server::stop`: `BeginStop`, the four steps of `kill` (`StopChannel`), `EndStop` |
| `Close` | the beginning of `close`, which stops a server that is RUNNING |
| `CloseEngine`, `CloseClients`, `ClosePipe` | the rest of `close`, in its order |
| `Bind`, `Accept`, `AcceptFails`, `AddConnection` | the accept thread |
| `Register`, `Refuse`, `Unregister`, `Leave` | a connection thread with a client's open and close, as one step each |

`CloseClients` empties the map of clients and nothing else, as the code does; the
connection threads outlive it. `Accept` leaves the handle of the instance in the
server's pipe or not, as `waitAcceptClient` does; in the first case `ClosePipe` cuts
off the client (`severed`), whose number stays taken. A client for whose connection
there is no thread simply stays `accepted`. Two history variables: `wiped`, `open` made
new records while there were clients in the map, and `given`, the buffers that came
with the number of a client, which it goes on to use when `close` has taken it off the
map. Left out: a failing `CreateNamedPipe` or shared memory, and exceptions.

### AudioPath and AsioDriver

A block is a number and each sample of a buffer holds the number of its block, so
that a half-written or a mixed buffer shows. Each copy is one sample a step.
`AudioPath` has three parties: a source that fills the half of the next block and
then sets the toggle, `process` with its two copies and its toggle, and a reader that
chooses a half once (the portaudio example by the buffer's toggle, `processInput` by
the driver's own; the model takes either). Between the three nothing is locked.

`AsioDriver` puts the driver in the place of the source: the steps of `bufferSwitch`
(`Enter`, `ProcessOutput`, `Callback`, `Flip`) on the clock's thread against the host's
`Start`, `Stop`, `DisposeBuffers`, `Release`. `AudioPath` is the abstract specification:
`ImplementsPath` says that every step of the driver is one of the path or leaves it
alone. If the callbacks, the driver or the DLL go away under the clock's thread,
that thread is `undefined` and takes no further step; the properties say what
holds until then. In `DriverDll` the counts are the code's, step by step (`CreateInstance`
wraps its query in an AddRef and a Release, so that a refused driver deletes itself),
and `pointers` is what the host really holds.

## The runs

| run | question | result |
|---|---|---|
| `slot_table` | is the closed form of `Slots` what the loop does? | holds, 1,310 states |
| `registry` | do the tables stay in step, and implement the patch bay? | holds, 19,591 states |
| `sessions` | crashes at any moment, threads that do not start, more clients than places | holds, 775,158 states |
| `sessions_config` | requests out of step | holds, 3,356,539 states |
| `sessions_live` | which opens are answered, which closes take effect? | holds, 98,834 states |
| `driver` | one life of a driver under a clock that cannot be stopped | holds, 3,863,764 states |
| `server` | commands and Ctrl-C against the accept thread: does anything hang, stay open, or fail to listen? | holds, 213,169 states |
| `restarts` | restarts, and a console that connects ports, under clients that are still connected | holds, 1,299,867 states |
| `dangling_route` | `graph_manager.cpp:142`, "check if ports exist" | violated |
| `stopped_clock` | `audio_clock.cpp:64`, "we'll break when the thread is no longer running" | violated |
| `config_request` | `RequestDecoder.cpp:67`, "nothing more to do...yet" | violated |
| `refused_client` | `route_client.cpp:77`, "client is now open" | violated |

The state counts of `sessions`, `sessions_config` and `restarts` are up to the symmetry
of the clients; the runs that check liveness (`sessions_live`, `server`, `stopped_clock`)
use none.

### Bounds, and why they are enough

- `registry`: three clients, two channels, at most two connections
  (`MaxConnections` is a bound of the model; the list in the code has none).
  Three clients give a hole between two neighbours, which is where reuse could go
  wrong; two channels tell a channel from a direction; with two connections one
  can go while the other stays. `PortFactor` (256 in the code) is 3, so that, as
  in the code, there are more port ids than ports and the ids above the lots are
  there to be taken wrongly. The theorems remove all these bounds.
- `slot_table`: a table of five ids and rows of up to seven allocations
  (`MaxBurst`), from every set of taken ids; a row runs off the end of the table.
- sessions: one channel per client, since the tables are checked above; each
  client has one session and at most one `open_config` (in `sessions_config` two of
  the three clients may call it, the third is the bystander). Three clients for two
  places: one is refused or takes over a place. With three places the numbers
  0, 1 and 2 occur, of which 1 and 2 are also request types, so that the number in
  an unread OPEN_CONFIG is taken for a CLIENT_OPEN and for a CLIENT_CLOSE; 3 is
  OPEN_CONFIG itself and 4 and up are no request.
- `driver`: blocks of two samples, so that a copy can be half done; three blocks
  (`MaxBlocks`), so that each half is filled and one is filled again; two pointers
  (`MaxPointers`), so that a Release is and is not the last. The word of the position
  holds four numbers (`twoRaisedTo32`), so that the second block reaches exactly the
  boundary at which two words are needed, and the third lies past it. One start of
  the driver. The theorems remove all these bounds.
- `sessions_live`: two clients and two places. Both may crash, one may open its
  configuration, so that a thread out of step can hold up the other, and the
  other may get no thread.
- `server`: two threads for the request channel, so that a server is stopped and
  started again with the old thread at every point, one for the clock, and one client,
  whose handle close() may find in the pipe. Ctrl-C may come once, at every step, in the
  behaviours without a clock and a client (the constraint `CtrlCAlone`): what commands and
  Ctrl-C wait for, the accept thread, does not depend on either.
- `restarts`: three clients and two places, so that a number is taken over by a
  client of the restarted server while its neighbour is a survivor of the stopped
  one. Two starts; the clock's thread does not touch the tables and its creation fails
  (`ClockStarts` is 0). One connection (`MaxConnections`), made as long as the third client
  has not come (the constraint `ConnectedEarly`): two are enough for a port that is removed,
  and whose id is given to another client, while `connect_ports` holds a copy of it. One
  start and two clients in `dangling_route`.
- `stopped_clock`: one thread is enough for one that never ends.
- `CHECK_DEADLOCK FALSE` for the sessions: when all clients have closed, failed
  or crashed, and the server waits for clients that are not there, nothing is
  left to do. It is also said for the server, which ends, and for the driver, which
  is released, has no more blocks to send (`MaxBlocks`) or is undefined. The two table
  modules are checked for deadlock.

### Fairness

`Spec` of `RequestChannel` has weak fairness for the accept thread and for every
connection thread: these are threads that the operating system schedules. A client is
never obliged to make a call, to go on with it, or not to crash. `OpenAnswered` is an
implication for each client by itself: if this client goes on with its own call
(`WF_vars(ClientStep(c))`), and no other holds up the server for ever (`[]<>~HeldUp`: it is
not so that from some point on a thread always waits, with the mutex in its hands, for a
word that its client does not send), then the client is answered, crashes, or has a
connection without a thread (`Unserved`). Each of the two exceptions is necessary: without
it TLC refutes the property. `open_config` is part of the run. `ClosedReleased` has the second
hypothesis only. The mutex needs no strong fairness in the model's runs: each client has
one session, so a thread takes the mutex a bounded number of times and a waiting thread
finds it free for good in the end.
`ServerLifecycle` has weak fairness for the two threads that call the server, for
the accept thread, except for a client to come, and for the clock's thread: again threads that
the system schedules, a step at a time. Nobody has to give a command or to press
Ctrl-C, and no client has to do anything. `AsioDriver` has only safety properties and
states no fairness.

## What is proved

Every invariant and every action property that a passing run checks is a theorem, as are
both refinements. The obligations: `SlotsProofs` 180, `SlotTableProofs` 279,
`ClientRegistryProofs` 1,023, `RequestChannelProofs` 250, `SessionProofs` 1,330,
`ServerLifecycleProofs` 1,007, `AudioPathProofs` 268, `AsioDriverProofs` 441. For the
driver and the audio path the theorems cover blocks of any length, any number of blocks
and of pointers, and words of any size. For the server: any numbers of clients and
restarts. For the loop: tables of any size. For the tables and the sessions, all values of the
constants that satisfy `SizesAssumption` or `SessionsAssumption`: at least one client and one channel,
and `PortFactor` at least 2. The value in the code is 256; 2 is what is needed,
since a client takes two ports per channel.

### The argument for the loop

`RowTakesLowest` speaks of a call only when it returns. The inductive invariant adds
`WalkedOver`: the slots below the one that the loop has come to are taken. When the loop
stops, all free ids below are therefore ids that this row has taken already. A row of n
calls has taken at most n ids, because no two free ids have the same rank (`TakeAtMost`,
`RankTellsApart`). So the id at which the loop stops has rank n, and it is the one that
the closed form names (`NextOfRow`); at the end of the array nothing is left of any rank
from n on (`EndOfRow`). `ClosedFormIsTheLoop` and `LoopStaysInside` follow. They need `Max`
to be a natural number and nothing else.

### The argument for the tables

`BuffersExclusive` is not inductive: from a state in which a client's buffers are
scattered, nothing follows about the next one. What is inductive is `Layout`:
client number r has exactly lot r of the buffers and lot r of the ports, a lot
being 2 x `MAX_CHANNELS` consecutive ids, in channel order. A new client takes the
lowest free number r; all lots below r are taken, lot r is free, so the row of
allocations takes lot r whole and in order (`FirstFreeLot`, from the lemmas on
ranks in `SlotsProofs`). Closing r gives lot r back, since the record and the
ports name that lot. Hence the inductive invariant

    IInv == TypeOK /\ Layout /\ RoutesResolve

`TablesInvariant` proves `Spec => []IInv`, with one lemma per action
(`AddKeeps`, `CloseKeeps`, `ConnectKeeps`), and the other theorems follow:
`TypeCorrect`, `LayoutKept`, `RoutesStayResolved`, `BuffersStayExclusive`,
`BuffersStayAccounted`, `PortsStayOwned`, the action property
`NeighboursStayUndisturbed`, and `TablesImplementPatchbay`, where registration
maps to `Join`, close to `Leave` and a connection to `Patch`. So the ignored
statuses of `allocate_buffer` and `add_port` are harmless: the tables cannot run
out while a number is free.

### The argument for the sessions

`RequestsAreSerial`: `OneRequestAtATime` with the facts that a connection thread
starts once and before it handles anything (`NotYetStarted`), or not at all. It covers the
thread that ends itself with the mutex in its hands. `SessionsKeepRegistry`:
every step of the sessions is a step of `ClientRegistry` or leaves its tables
alone, so the specification implies `KeepsRegistry`; `close_client` may be called
with any word a client sends, and only those that name registered clients
change anything. `SessionBuffersExclusive` and `SessionsLeaveNeighbours` take the results
on the tables over: no two connected clients share a buffer, and no request touches
another client's buffers or ports, with crashes and with requests out of step. The
sessions make no connections, so nothing is claimed of those here.

`OpenClientsAlwaysKeepRef` is about clients whose threads may be out of step, so that a
thread reads whatever word comes next, as a header, as a size or as a number. The danger is
a thread that takes some word for the number of a close request and closes a neighbour.
The argument follows the words of each client that its thread has not read yet, those in
the pipe and those still to be written (`Left`; a write moves a word from the one to the
other, a read takes the first). Among them only a close request has its own type followed by
the size of a number, and what comes next is the client's own number (`CloseWords`): the
number in an OPEN_CONFIG comes first in its words and may pass for a header, but what follows it
is never that size. So whatever a thread closes, it is the number of its own client, and
only when that client has parted (`ClosesOwn`). The other half is that a client is told the
number that was registered for it (`Opens`): until it is open, its thread is in step, since
`open_config` needs an open client. `SessionInv` combines both with `Owns` (what is
registered through a connection is registered, and through no other connection) and
`Keeps`. Before the proof TLC checked it on two clients that do both, crash and open their
configuration, and on three.

`ClosedClientsLeaveNothing` is about the clients that did not open their configuration,
next to others that did; their own threads are in step to the end (`PlainInv`), so that
the close request is read as one and takes back the one number that was given.
For a client that is out of step it is false, as `config_request` shows: there a second
registration remains. `SessionsTypeCorrect` covers the words in every pipe.

### The argument for the audio path

`PathIsSafe`: the invariant says where every sample may come from. On the side of the
source the half of the last block is whole and the other half holds samples of the
block before it and of the next one; on the side of the server no sample is older
than the last block at the time the pass that copied it began, less one. What the
reader has is then at most one block older than the newest block of the time at which the
last whole pass before it began (`HeardIsRecent`). Whether what it has is one block, or
parts of two, is not said: the half it reads may be torn.

`DriverImplementsPath` needs two strengthenings. `BlocksInv` ties the toggle and the
numbers in the host's two halves to the blocks sent, by the step of `bufferSwitch`:
the toggle flips last, so during the callback it still names the half that has
just been sent. `FreshInv` says that nothing has happened before `start` resets the
toggle. `LateInv` adds that the driver is not RUNNING after `stop`, so that a callback
that begins later was under way before: `DriverStops`. `DriverIsHeard` takes the two
properties of the path over to the driver, by the refinement. `PositionsAreTrue` adds
that the samples are counted with the blocks (`PositionInv`) and that two words say
what one number says (`SplitIsTrue`). `PointersAlwaysLead`: the driver's count is that of
the host's pointers (`PointersInv`), which the wrapped query of `CreateInstance` and the
last `Release` keep true, and the DLL goes only when it counts no driver.
`DriverTypeCorrect` needs that invariant as well: that the count of the driver's pointers
is a number at all follows from what the host really holds.

### The argument for the restarts

`NumbersStayOwnForEver`: `NumbersStayOwn` is not inductive, since a new client could be
given a number that is in use. It is with `NumbersTaken`: the number of every client that
uses one is taken in `activeRefs`. It holds because `close` does not clear that table
(mutant `BadCloseClients` does, and two clients get one number).

The ports are those of the numbers that are taken (`PortsFollowNumbersForEver`), by the
argument for the tables with a smaller invariant (`PatchInv`: the lots of ports,
without the buffers and the map of clients), because a closing server empties the map and
leaves references, ports and connections alone. Nothing of the kind holds of all
connections, since `connect_ports` adds one of two copies that it took some steps before.
What is inductive is that connections and the copies in the hands of `connect_ports` are
ports of this patch bay, as they are or as they were (`CopiesInv`): by its id a copy names
the client whose lot the id is in. So whichever client is closed, the connections that
`remove_port` erases by comparing copies are all those that name it, and none that leads to
two clients outlives one of them (`RoutesStayWholeForEver`). That none ever leads to a
client that is gone is false (`dangling_route`).

Buffers are apart until `open` makes new records over those of clients in the map
(`BuffersApartForEver`). The records speak of the clients in the map only; for those that
`close` has forgotten the invariant is on what each of them was given (`GivenInv`: the lot of
its number), and the numbers are different by `NumbersStayOwn`. After such an `open`
nothing is claimed.

`AcceptThreadsFollow` and `StoppedServersAreClosed` are about the moments between two
commands, and their invariant is about every step of a command. `AcceptInv` says which accept
threads live at each step of `start`, `stop` and `close`: at most the one whose handle the
server holds, and none from the kill to the next start. `PipeInv` says that an instance of the
pipe is left only until `ClosePipe`. The accept thread may be killed at any point, between
the accept and the next bind as well, or between two lines of `kill`. Both hold as long as Ctrl-C
has not been pressed (`Undisturbed`); afterwards two callers work on one handle.

### Only model-checked

`OpenAnswered`, `ClosedReleased`, `CommandsFinish` and `RunningServerListens`: liveness
under fairness, which is out of the prover's reach. The four properties that are refuted
are no theorems, of course, and a counterexample on a small instance is all they need.

## Mutants

Every property of a passing run is known to fail when the code is changed in one
place. The definitions named `Bad...` are those changes: each stands before the
definition it replaces, and no other definition uses it.

## Findings

Four comments say what the code does not do, and four runs refute them (`PROJECT.json` quotes
the lines): `connect_ports` does not see that a port it has found is gone, the two of the
sessions, and `audio_clock.cpp:64`. What the models show beside that:

- A server whose accept thread could not be created is RUNNING all the same
  (`route_server.cpp:103`), refuses a second start, and never makes an instance of its pipe.
- No connection is ever taken off the list (`ServerChannel.cpp:125`), since `isRunning`, not
  yet implemented, says of every thread that it runs.
- Ctrl-C before the first start calls `kill` on the handle that the constructor set,
  `INVALID_HANDLE_VALUE` (`Thread.cpp:71`, `:153`), and waits for ever. `CommandsFinish` is
  about the command line, which looks at the state first. Ctrl-C at other times can
  also wait for a thread that the command line has created meanwhile, since `kill` reads
  the handle once more; it can forget the handle of an accept thread that lives, with the
  server RUNNING or IDLE, and two accept threads may then live at once.
- A client whose connection gets no thread waits for ever, and so does one whose neighbour
  stops in the middle of a request (`Unserved`, `HeldUp`).
- A client that crashes keeps its number for the life of the server, and so does one
  that is cut off by `close`; the numbers run out.
- After `open` of a restarted server the records of clients that registered with the
  closed one are zero, and their close frees buffer 0 (`wiped` in `BuffersStayApart`).
- A clock whose thread stored RUNNING before `start` stored IDLE never ticks.

## Not modelled, and why

- Names, latencies, process ids, logging, the list commands: no state depends on them.
- The notify channel: the server connects to it and never uses it.
- Time: a clock may tick at any moment, so that nothing is said of deadlines or of
  `waitTime`.
- Containers of the C++ library used by two threads at once, whose outcome is undefined:
  the walk of `process` over the list of connections while the console or a connection
  thread changes it, and a line of `connect_ports` at the same time as one of
  `add_client` or `close_client`. What comes between the lines of `connect_ports` is
  modelled (`ServerLifecycle`); a connection added in the middle of `remove_port`, between
  its erase of connections and its erase of the port, leaves the same tables as one that
  is added before or after the whole of `close_client`. `add_client` and `close_client` are atomic in the models; the
  mutex keeps them apart (`OneRequestAtATime`).
- A thread that `kill` terminates inside the heap or the logger, whose lock it keeps.
- What a client reads from its record after `open` when the server was closed and opened
  between the answer and the reading (all zero): the model reads at the registration.
- A second start of a driver and two clocks in one driver: undefined in the same way.
  Clock sources, time codes and the getters of the driver only set and return values.
- LockServer and aggregation (nobody uses them), registry keys (`register.cpp`), timers
  (`wintimer.cpp`), Node bindings, `play_audio_file`, tools: no logic of this program.

## Plan

1. Done: the tables, the sessions, the threads, the server's life, the audio path and
   the driver with its DLL, with the runs above, and the proofs of all their safety
   properties.
2. To prove next: what `Thread` promises its owners (a killed thread is gone, one handle one
   thread) as theorems of its own, which `ServerLifecycleProofs` and `AsioDriverProofs`
   use today inside larger proofs; which of the properties of the accept thread are left
   when Ctrl-C has been pressed, where two accept threads may live at once.
