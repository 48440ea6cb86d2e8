------------------------------- MODULE Thread -------------------------------
(***************************************************************************)
(* The class Thread: an owner that calls start, stop and kill, and the     *)
(* operating system threads that run ThreadHandler for it, one for each    *)
(* start.  A component that owns a thread takes an INSTANCE of this module *)
(* and gives the steps of execute().                                       *)
(*                                                                         *)
(* A start is two steps, since the new thread runs while start() has its   *)
(* last store before it.  The handler sets the same threadState whichever  *)
(* start it comes from, and goes on after its handle is closed.            *)
(*                                                                         *)
(* The event that stop() signals is left out: a realtime thread does not   *)
(* look at it, and the threads that do, those of the request channel, are  *)
(* only ever killed.                                                       *)
(***************************************************************************)
EXTENDS Integers, FiniteSets

CONSTANT MaxStarts   \* bound of the model: the threads that are ever created

VARIABLES
  handle,       \* threadHandle: a thread, Null, or Invalid before any start
  threadState,  \* shared by all threads of this object
  place         \* where each operating system thread is in ThreadHandler

Threads == 1 .. MaxStarts
Null == 0
Invalid == -1

Places == {"none", "created", "initializing", "looping", "ended", "killed"}
Alive(t) == place[t] \in {"created", "initializing", "looping"}
Living == {t \in Threads : Alive(t)}

Goto(t, there) == place' = [place EXCEPT ![t] = there]

Init ==
  /\ handle = Invalid
  /\ threadState = "IDLE"
  /\ place = [t \in Threads |-> "none"]

-----------------------------------------------------------------------------
(* The owner                                                               *)

\* The thread that the next start creates.
IsNext(t) == place[t] = "none" /\ \A u \in 1 .. t - 1 : place[u] # "none"

\* start() up to CreateThread.
Create ==
  \E t \in Threads :
    /\ IsNext(t)
    /\ handle' = t
    /\ threadState' = "STARTING"
    /\ Goto(t, "created")

\* CreateThread that gives no thread: start() returns STATUS_NO_THREAD and
\* leaves the state at STARTING.
CreateFails ==
  /\ handle' = Null
  /\ threadState' = "STARTING"
  /\ UNCHANGED place

\* The end of start(), at whatever point the new thread is by then.
StoreIdle ==
  /\ threadState' = "IDLE"
  /\ UNCHANGED <<handle, place>>

\* stop(): its wait has a timeout of zero and the result is dropped.
Stop ==
  /\ handle' = Null
  /\ UNCHANGED <<threadState, place>>

-----------------------------------------------------------------------------
(* kill() reads threadHandle anew at each of its lines: two callers at the   *)
(* same time, or one and a start(), need not find the same thread.           *)

HasThread == handle # Null

\* TerminateThread ends the thread of the handle, if that is what it is.
Terminate ==
  /\ place' = [t \in Threads |-> IF t = handle /\ Alive(t) THEN "killed" ELSE place[t]]
  /\ UNCHANGED <<handle, threadState>>

\* The wait for a thread is over when the thread is, and fails at once for Null.
\* For Invalid, which to the operating system names the calling process, it has
\* no end.
WaitIsOver(target) == target # Invalid /\ target \notin Living

\* Its last lines: the handle is closed and forgotten, whosever it is by now.
Forget ==
  /\ handle' = Null
  /\ threadState' = "IDLE"
  /\ UNCHANGED place

-----------------------------------------------------------------------------
(* ThreadHandler                                                           *)

Initialize(t) ==
  /\ place[t] = "created"
  /\ threadState' = "INITIALIZING"
  /\ Goto(t, "initializing")
  /\ UNCHANGED handle

\* The handler that goes on only in the state that it has left behind.
BadRun(t) ==
  /\ place[t] = "initializing" /\ threadState = "INITIALIZING"
  /\ threadState' = "RUNNING"
  /\ Goto(t, "looping")
  /\ UNCHANGED handle

\* The init() of the clocks and of the request channel returns STATUS_OK.
Run(t) ==
  /\ place[t] = "initializing"
  /\ threadState' = "RUNNING"
  /\ Goto(t, "looping")
  /\ UNCHANGED handle

\* execute() returned something other than STATUS_OK.
Break(t) ==
  /\ place[t] = "looping"
  /\ Goto(t, "ended")
  /\ UNCHANGED <<handle, threadState>>

HandlerStep(t) == Initialize(t) \/ Run(t)

TypeOK ==
  /\ handle \in Threads \cup {Null, Invalid}
  /\ threadState \in {"IDLE", "STARTING", "INITIALIZING", "RUNNING"}
  /\ place \in [Threads -> Places]

=============================================================================
