----------------------------- MODULE AsioDriver -----------------------------
(***************************************************************************)
(* The ASIO driver: RouteASIO, its ASIOClock, and the audio host that      *)
(* loads it.  The clock's thread calls bufferSwitch, which hands the       *)
(* host's last block to shared memory and lets the host make another one,  *)
(* while the host's own thread starts, stops and releases the driver.      *)
(* Behind the driver process() of the server copies the block (AudioPath). *)
(*                                                                         *)
(* One life of a driver, in the order of the ASIO protocol: creation,      *)
(* init, createBuffers, start, stop, disposeBuffers, release, where the    *)
(* host may leave out steps on the way down.  One input and output channel.*)
(* The host's pointers and the DLL are in DriverDll.                       *)
(*                                                                         *)
(* Left out: what the host reads by getters, clock sources, time codes and *)
(* the debugger (its thread is never started).  The host takes its         *)
(* position with each callback (timeInfoMode).  The driver's own reading,  *)
(* processInput, is the reader of AudioPath: the input of one driver is    *)
(* fed from the output of another.                                         *)
(***************************************************************************)
EXTENDS AudioPath

CONSTANTS
  MaxBlocks,      \* bounds of the model
  MaxPointers,
  twoRaisedTo32   \* a smaller number where the model is checked

ASSUME MaxBlocksAssumption == MaxBlocks \in Nat
ASSUME PointersAssumption == MaxPointers \in Nat \ {0}
ASSUME WordAssumption == twoRaisedTo32 \in Nat \ {0}

VARIABLES
  state,          \* RunState of the driver
  started,
  callbacks,      \* whether the pointer to the host's callbacks is set
  toggle,         \* the half of outputBuffers and of shared memory in turn
  outputBuffers,  \* the number of the block that the host left in each half
  host,           \* where the host is in the life of the driver
  clockHandle, clockState, clockPlace,   \* the Thread of ASIOClock
  mapped, factory, objects, refs, pointers,   \* the DLL
  samplePosition,
  told,           \* asioTime.timeInfo.samplePosition, the position in two words
  step,           \* where its thread is in execute() and bufferSwitch()
  late            \* history: callbacks begun since the host stopped the driver

driver == <<state, started, callbacks, toggle, outputBuffers>>
clock == <<clockHandle, clockState, clockPlace>>
dll == <<mapped, factory, objects, refs, pointers>>
position == <<samplePosition, told>>
vars == <<pathVars, driver, host, dll, clock, position, step, late>>

Dll == INSTANCE DriverDll

Clock == INSTANCE Thread WITH
           MaxStarts <- 1, handle <- clockHandle,
           threadState <- clockState, place <- clockPlace

\* The two halves are silent at first: they are blocks 1 and 2.
Init ==
  /\ PathInit
  /\ state = "IDLE"
  /\ started = FALSE
  /\ callbacks = FALSE
  /\ toggle = 0
  /\ outputBuffers = [h \in Halves |-> h + 1]
  /\ host = "outside"
  /\ Dll!Init
  /\ Clock!Init
  /\ samplePosition = 0
  /\ told = [hi |-> 0, lo |-> 0]
  /\ step = "outside"
  /\ late = 0

-----------------------------------------------------------------------------
(* The host's thread                                                       *)

\* Between two calls into the driver.
AtRest == {"loaded", "opened", "prepared", "running", "stopped", "disposed"}

Load ==
  /\ host = "outside"
  /\ Dll!GetClassObject
  /\ host' = "factory"
  /\ UNCHANGED <<pathVars, driver, clock, position, step, late>>

\* close() of the client, stop(), disposeBuffers().
Destruct ==
  /\ state' = "IDLE"
  /\ started' = FALSE
  /\ callbacks' = FALSE
  /\ Clock!Stop

\* A driver that has not the interface the host asks for is gone again.
Create ==
  /\ host = "factory"
  /\ \/ Dll!CreateInstance(TRUE) /\ UNCHANGED <<state, started, callbacks, clock>>
     \/ Dll!CreateInstance(FALSE) /\ Destruct
  /\ host' = "created"
  /\ UNCHANGED <<pathVars, toggle, outputBuffers, position, step, late>>

ReleaseFactory ==
  /\ host = "created"
  /\ Dll!ReleaseFactory
  /\ host' = IF pointers > 0 THEN "loaded" ELSE "released"
  /\ UNCHANGED <<pathVars, driver, clock, position, step, late>>

AddRef ==
  /\ host \in AtRest
  /\ Dll!AddRef
  /\ UNCHANGED <<pathVars, driver, host, clock, position, step, late>>

\* RouteASIO::init opens the client, or fails, and the host drops the driver.
Open ==
  /\ host = "loaded"
  /\ host' \in {"opened", "failed"}
  /\ UNCHANGED <<pathVars, driver, clock, position, dll, step, late>>

CreateBuffers ==
  /\ host = "opened"
  /\ callbacks' = TRUE
  /\ host' = "prepared"
  /\ UNCHANGED <<pathVars, state, started, toggle, outputBuffers, clock, position,
                 dll, step, late>>

\* start() up to the creation of the clock's thread, which may fail.
Start ==
  /\ host = "prepared"
  /\ state' = "STARTING"
  /\ started' = FALSE
  /\ toggle' = 0
  /\ samplePosition' = 0
  /\ \/ Clock!Create /\ host' = "creating"
     \/ Clock!CreateFails /\ host' = "starting"
  /\ UNCHANGED <<pathVars, callbacks, outputBuffers, told, dll, step, late>>

\* The end of Thread::start, on the host's thread.
ClockCreated ==
  /\ host = "creating"
  /\ Clock!StoreIdle
  /\ host' = "starting"
  /\ UNCHANGED <<pathVars, driver, position, dll, step, late>>

Started ==
  /\ host = "starting"
  /\ started' = TRUE
  /\ state' = "RUNNING"
  /\ host' = "running"
  /\ UNCHANGED <<pathVars, callbacks, toggle, outputBuffers, clock, position,
                 dll, step, late>>

\* stop() goes on from STOPPING in Stopped.
Stop ==
  /\ host = "running"
  /\ state' = "STOPPING"
  /\ host' = "stopping"
  /\ UNCHANGED <<pathVars, started, callbacks, toggle, outputBuffers, clock,
                 position, dll, step, late>>

\* disposeBuffers drops the callbacks and then calls stop().
DisposeBuffers ==
  /\ host \in {"prepared", "running", "stopped"}
  /\ callbacks' = FALSE
  /\ state' = "STOPPING"
  /\ host' = "disposing"
  /\ UNCHANGED <<pathVars, started, toggle, outputBuffers, clock, position, dll,
                 step, late>>

Stopped ==
  /\ host \in {"stopping", "disposing"}
  /\ started' = FALSE
  /\ Clock!Stop
  /\ state' = "IDLE"
  /\ host' = IF host = "stopping" THEN "stopped" ELSE "disposed"
  /\ UNCHANGED <<pathVars, callbacks, toggle, outputBuffers, position, dll, step, late>>

\* The host drops a pointer, and the driver with the last one.
Release ==
  /\ host \in AtRest \cup {"failed"}
  /\ Dll!Release
  /\ IF refs' = 0
     THEN Destruct /\ host' = "released"
     ELSE UNCHANGED <<state, started, callbacks, clock, host>>
  /\ UNCHANGED <<pathVars, toggle, outputBuffers, position, step, late>>

\* COM looks for libraries to unload while the host is not in the driver.
Unload ==
  /\ host \in AtRest \cup {"failed", "released"}
  /\ Dll!Unload
  /\ UNCHANGED <<pathVars, driver, host, clock, position, step, late>>

HostStep ==
  \/ Load \/ Create \/ ReleaseFactory \/ AddRef
  \/ Open \/ CreateBuffers \/ Start \/ ClockCreated \/ Started
  \/ Stop \/ DisposeBuffers \/ Stopped \/ Release \/ Unload

-----------------------------------------------------------------------------
(* The clock's thread                                                      *)

Away == host \in {"stopped", "disposed"}

HandlerStep ==
  /\ mapped
  /\ \E t \in Clock!Threads : Clock!HandlerStep(t)
  /\ UNCHANGED <<pathVars, driver, host, position, dll, step, late>>

\* execute(): the thread ends when its state is no longer RUNNING.
Break ==
  /\ step = "outside" /\ host # "released" /\ mapped
  /\ clockState # "RUNNING"
  /\ \E t \in Clock!Threads : Clock!Break(t)
  /\ UNCHANGED <<pathVars, driver, host, position, dll, step, late>>

\* execute() when a block's time has passed.
Tick ==
  /\ step = "outside" /\ mapped
  /\ clockState = "RUNNING"
  /\ \E t \in Clock!Threads : clockPlace[t] = "looping"
  /\ step' = "checking"
  /\ UNCHANGED <<pathVars, driver, host, dll, clock, position, late>>

\* bufferSwitch that leaves it to the clock to be stopped.
BadSwitches == callbacks

\* bufferSwitch returns unless all this is so.
Switches == state = "RUNNING" /\ started /\ callbacks

Enter ==
  /\ step = "checking" /\ host # "released"
  /\ IF Switches
     THEN sent < MaxBlocks /\ step' = "filling"
     ELSE step' = "outside"
  /\ UNCHANGED <<pathVars, driver, host, dll, clock, position, late>>

\* processOutput, the toggle of the buffer in shared memory, and the count of
\* the samples.
ProcessOutput ==
  /\ step = "filling" /\ host # "released"
  /\ \/ Fill(toggle, outputBuffers[toggle]) /\ UNCHANGED <<samplePosition, step>>
     \/ /\ Flag(toggle, outputBuffers[toggle])
        /\ samplePosition' = samplePosition + Frames
        /\ step' = "calling"
  /\ UNCHANGED <<driver, host, dll, clock, told, late>>

\* The comparison that lets the first number of two words pass for one word.
BadSplit(pos) ==
  IF pos > twoRaisedTo32
  THEN [hi |-> pos \div twoRaisedTo32, lo |-> pos % twoRaisedTo32]
  ELSE [hi |-> 0, lo |-> pos]

\* getSamplePosition: a position as two words.
Split(pos) ==
  IF pos >= twoRaisedTo32
  THEN [hi |-> pos \div twoRaisedTo32, lo |-> pos % twoRaisedTo32]
  ELSE [hi |-> 0, lo |-> pos]

\* The host is given the half that it is to fill next, as if the toggle had
\* been flipped already.
BadCallback ==
  /\ step = "calling" /\ host # "released" /\ callbacks
  /\ outputBuffers' = [outputBuffers EXCEPT ![1 - toggle] = sent + 2]
  /\ told' = Split(samplePosition)
  /\ late' = IF Away THEN late + 1 ELSE late
  /\ step' = "flipping"
  /\ UNCHANGED <<pathVars, state, started, callbacks, toggle, host, dll, clock,
                 samplePosition>>

\* The host makes a block in the half that has just been sent: it is the
\* next but one to go out.
Callback ==
  /\ step = "calling" /\ host # "released" /\ callbacks
  /\ outputBuffers' = [outputBuffers EXCEPT ![toggle] = sent + 2]
  /\ told' = Split(samplePosition)
  /\ late' = IF Away THEN late + 1 ELSE late
  /\ step' = "flipping"
  /\ UNCHANGED <<pathVars, state, started, callbacks, toggle, host, dll, clock,
                 samplePosition>>

\* The toggle counted on instead of flipped.
BadFlip ==
  /\ step = "flipping" /\ host # "released"
  /\ toggle' = toggle + 1
  /\ step' = "outside"
  /\ UNCHANGED <<pathVars, state, started, callbacks, outputBuffers, host, dll, clock,
                 position, late>>

Flip ==
  /\ step = "flipping" /\ host # "released"
  /\ toggle' = 1 - toggle
  /\ step' = "outside"
  /\ UNCHANGED <<pathVars, state, started, callbacks, outputBuffers, host, dll, clock,
                 position, late>>

\* The callbacks went away after they were looked at, or the driver did, or the
\* code of the thread: what happens then is undefined, and nothing more is said
\* about this thread.
Undefined ==
  /\ step # "undefined"
  /\ \/ step = "calling" /\ ~callbacks
     \/ ~mapped /\ Clock!Living # {}
     \/ step \in {"checking", "filling", "calling", "flipping"} /\ host = "released"
  /\ step' = "undefined"
  /\ UNCHANGED <<pathVars, driver, host, dll, clock, position, late>>

ClockStep ==
  \/ HandlerStep \/ Break \/ Tick \/ Enter \/ ProcessOutput \/ Callback
  \/ Flip \/ Undefined

PathStep ==
  /\ Process \/ Read
  /\ UNCHANGED <<driver, host, clock, position, dll, step, late>>

Next == HostStep \/ ClockStep \/ PathStep

Spec == Init /\ [][Next]_vars

-----------------------------------------------------------------------------
(* Properties                                                              *)

TypeOK ==
  /\ PathTypeOK
  /\ Clock!TypeOK
  /\ state \in {"IDLE", "STARTING", "RUNNING", "STOPPING"}
  /\ started \in BOOLEAN /\ callbacks \in BOOLEAN
  /\ toggle \in Halves
  /\ outputBuffers \in [Halves -> Nat]
  /\ Dll!TypeOK
  /\ host \in AtRest \cup {"outside", "factory", "created", "failed", "creating",
                           "starting", "stopping", "disposing", "released"}
  /\ samplePosition \in Nat
  /\ told \in [hi : Nat, lo : Nat]
  /\ step \in {"outside", "checking", "filling", "calling", "flipping", "undefined"}
  /\ late \in Nat

\* A pointer that the host holds leads to a driver that exists, in a DLL that
\* is there, whatever it was asked for and however it was passed on: the DLL is
\* unloaded under nobody but the clock's thread.
PointersLead == Dll!PointersAreGood

\* What the host is told with a callback is the number of samples it has sent
\* by then, the block just sent included, also where the number begins to need
\* its second word.
PositionIsTold ==
  step = "flipping" =>
    /\ told.hi * twoRaisedTo32 + told.lo = Frames * sent
    /\ told.lo < twoRaisedTo32

\* The clock's thread goes on after stop(), and calls bufferSwitch for ever.
\* All the same the host hears of at most one more block once stop() has
\* returned: the one that was under way.
AtMostOneBlockAfterStop == late <= 1

\* The driver sends the blocks of the host in the order they were made, none
\* twice and none left out, into the two halves in turn, each of them two
\* blocks after the callback that made it: the output latency that the server
\* gives the client, twice the size of a buffer, is the true one.
ImplementsPath == PathSpec

=============================================================================
