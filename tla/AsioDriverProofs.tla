-------------------------- MODULE AsioDriverProofs --------------------------
(***************************************************************************)
(* The ASIO driver is a source as AudioPath wants it, for blocks of every  *)
(* length and any number of them, so that what AudioPathProofs shows of    *)
(* the way through shared memory holds of the driver.                      *)
(***************************************************************************)
EXTENDS AsioDriver, AudioPathProofs

-----------------------------------------------------------------------------
(* The inductive invariant                                                 *)

\* Before the driver is started nothing has happened.
FreshInv ==
  host \in {"outside", "factory", "created", "loaded", "opened", "failed", "prepared"} =>
    /\ sent = 0 /\ step = "outside" /\ toggle = 0 /\ late = 0 /\ state # "RUNNING"
    /\ \A t \in Clock!Threads : clockPlace[t] = "none"

\* The toggle and the host's two halves follow the blocks sent, by the step
\* of bufferSwitch: the toggle changes last.
BlocksInv ==
  /\ sent \in Nat /\ toggle \in Halves
  /\ outputBuffers \in [Halves -> Nat]
  /\ step \in {"outside", "checking", "filling"} =>
       /\ toggle = HalfOf(sent + 1)
       /\ outputBuffers[toggle] = sent + 1 /\ outputBuffers[1 - toggle] = sent + 2
  /\ step = "calling" =>
       toggle = 1 - HalfOf(sent + 1) /\ outputBuffers[1 - toggle] = sent + 1
  /\ step = "flipping" =>
       /\ toggle = 1 - HalfOf(sent + 1)
       /\ outputBuffers[toggle] = sent + 2 /\ outputBuffers[1 - toggle] = sent + 1

\* Once the host has stopped the driver it is not RUNNING again, and the
\* callback that was under way is the last.
LateInv ==
  /\ late \in {0, 1}
  /\ host \in {"stopped", "disposing", "disposed", "released"} => state # "RUNNING"
  /\ late = 1 =>
       /\ host \in {"stopped", "disposing", "disposed", "released"}
       /\ step \notin {"filling", "calling"}

DriverInv == FreshInv /\ BlocksInv /\ LateInv

LEMMA DriverInvInit == Init => DriverInv
  BY SMT DEF Init, PathInit, DriverInv, FreshInv, BlocksInv, LateInv, HalfOf, Halves, Clock!Init

-----------------------------------------------------------------------------
(* The steps                                                               *)

\* The host's thread leaves the blocks alone, except that start() sets the
\* toggle to what it is.
LEMMA HostStepKeeps ==
  ASSUME DriverInv, HostStep
  PROVE  DriverInv'
<1> USE DEF DriverInv, FreshInv, BlocksInv, LateInv, HalfOf, pathVars, source, driver, clock
<1>0. CASE Load \/ ReleaseFactory \/ AddRef \/ Unload
  BY <1>0 DEF Load, ReleaseFactory, AddRef, Unload, AtRest
<1>1. CASE Open
  BY <1>1 DEF Open
<1>2. CASE CreateBuffers
  BY <1>2 DEF CreateBuffers
<1>3. CASE Start
  BY <1>3 DEF Start
<1>4. CASE ClockCreated
  BY <1>4 DEF ClockCreated
<1>5. CASE Started
  BY <1>5 DEF Started
<1>6. CASE Stop
  BY <1>6 DEF Stop
<1>7. CASE DisposeBuffers
  BY <1>7 DEF DisposeBuffers
<1>8. CASE Stopped
  BY <1>8 DEF Stopped
<1>9. CASE Release
  BY <1>9 DEF Release, Destruct, Clock!Stop, AtRest
<1>10. CASE Create
  BY <1>10 DEF Create, Destruct, Clock!Stop
<1> QED
  BY <1>0, <1>10, <1>1, <1>2, <1>3, <1>4, <1>5, <1>6, <1>7, <1>8, <1>9 DEF HostStep

\* bufferSwitch, in the order of its steps.
LEMMA ClockStepKeeps ==
  ASSUME DriverInv, ClockStep
  PROVE  DriverInv'
<1> USE DEF DriverInv, FreshInv, BlocksInv, LateInv, pathVars, source, driver, clock
<1>1. CASE HandlerStep
  BY <1>1 DEF HandlerStep, HalfOf, Clock!HandlerStep, Clock!Initialize, Clock!Run
<1>2. CASE Break
  BY <1>2 DEF Break, HalfOf, Clock!Break
<1>3. CASE Tick
  BY <1>3 DEF Tick, HalfOf
<1>4. CASE Enter
  BY <1>4 DEF Enter, Switches, HalfOf
<1>5. CASE ProcessOutput
  <2>1. CASE Fill(toggle, outputBuffers[toggle]) /\ UNCHANGED step
    BY <1>5, <2>1 DEF ProcessOutput, Fill, HalfOf
  <2>2. CASE Flag(toggle, outputBuffers[toggle]) /\ step' = "calling"
    <3>1. /\ sent \in Nat /\ sent' = sent + 1 /\ step = "filling" /\ step' = "calling"
          /\ UNCHANGED <<driver, host, clock, late>>
      BY <1>5, <2>2 DEF ProcessOutput, Flag
    <3>2. HalfOf(sent' + 1) = 1 - HalfOf(sent + 1) /\ HalfOf(sent + 1) \in Halves
      BY <3>1, HalvesAlternate DEF HalfOf
    <3>3. toggle' = 1 - HalfOf(sent' + 1) /\ outputBuffers'[1 - toggle'] = sent' + 1
      BY <3>1, <3>2 DEF Halves
    <3> QED
      BY <3>1, <3>3
  <2> QED
    BY <1>5, <2>1, <2>2 DEF ProcessOutput
<1>6. CASE Callback
  BY <1>6 DEF Callback, Away, HalfOf, Halves
<1>7. CASE Flip
  <2>1. HalfOf(sent + 1) \in Halves
    BY HalvesAlternate
  <2> QED
    BY <1>7, <2>1 DEF Flip, HalfOf, Halves
<1>8. CASE Undefined
  BY <1>8 DEF Undefined, HalfOf, Clock!Living, Clock!Alive
<1> QED
  BY <1>1, <1>2, <1>3, <1>4, <1>5, <1>6, <1>7, <1>8 DEF ClockStep

LEMMA DriverInvStep ==
  ASSUME DriverInv, [Next]_vars
  PROVE  DriverInv'
<1>1. CASE HostStep
  BY <1>1, HostStepKeeps
<1>2. CASE ClockStep
  BY <1>2, ClockStepKeeps
<1>3. CASE PathStep
  <2>1. UNCHANGED <<source, driver, host, clock, step, late>>
    BY <1>3 DEF PathStep, Process, BeginPass, CopyFirst, CopySecond, Copy, CopyToggle,
                Read, Choose, Hear
  <2> QED
    BY <2>1 DEF DriverInv, FreshInv, BlocksInv, LateInv, HalfOf, source, driver, clock
<1>4. CASE UNCHANGED vars
  BY <1>4 DEF vars, pathVars, source, driver, clock, DriverInv, FreshInv, BlocksInv, LateInv,
              HalfOf
<1> QED
  BY <1>1, <1>2, <1>3, <1>4 DEF Next

\* Each step of the driver is a step of the path or leaves the path alone:
\* the host's half that bufferSwitch sends is always the next block, and goes
\* to the half of that block.
LEMMA DriverStepsAreSteps ==
  ASSUME DriverInv, [Next]_vars
  PROVE  [PathNext]_pathVars
<1>1. CASE HostStep
  BY <1>1 DEF HostStep, Open, CreateBuffers, Start, ClockCreated, Started, Stop, DisposeBuffers,
              Stopped, Release, Load, Create, ReleaseFactory, AddRef, Unload
<1>2. CASE ClockStep
  <2>1. CASE ProcessOutput
    <3>1. toggle = HalfOf(sent + 1) /\ outputBuffers[toggle] = sent + 1
      BY <2>1 DEF ProcessOutput, DriverInv, BlocksInv
    <3> QED
      BY <2>1, <3>1 DEF ProcessOutput, PathNext, Send
  <2>2. CASE HandlerStep \/ Break \/ Tick \/ Enter \/ Callback \/ Flip \/ Undefined
    BY <2>2 DEF HandlerStep, Break, Tick, Enter, Callback, Flip, Undefined
  <2> QED
    BY <1>2, <2>1, <2>2 DEF ClockStep
<1>3. CASE PathStep
  BY <1>3 DEF PathStep, PathNext
<1>4. CASE UNCHANGED vars
  BY <1>4 DEF vars
<1> QED
  BY <1>1, <1>2, <1>3, <1>4 DEF Next

-----------------------------------------------------------------------------
(* The sample position                                                     *)

\* The count of the samples goes with that of the blocks, and the host was
\* told the count when its callback has returned.
PositionInv ==
  /\ samplePosition = Frames * sent
  /\ step = "flipping" => told = Split(samplePosition)

\* Two words say what one number says.
LEMMA SplitIsTrue ==
  ASSUME NEW pos \in Nat
  PROVE  /\ Split(pos).hi * twoRaisedTo32 + Split(pos).lo = pos
         /\ Split(pos).lo < twoRaisedTo32
<1>1. /\ (pos \div twoRaisedTo32) * twoRaisedTo32 + (pos % twoRaisedTo32) = pos
      /\ (pos % twoRaisedTo32) < twoRaisedTo32
  BY WordAssumption, SMT
<1> QED
  BY <1>1, WordAssumption DEF Split

LEMMA PositionStep ==
  ASSUME DriverInv, PositionInv, [Next]_vars
  PROVE  PositionInv'
<1> USE DEF pathVars, source, position
<1>1. CASE Start
  <2>1. sent = 0 /\ step # "flipping"
    BY <1>1 DEF Start, DriverInv, FreshInv
  <2>2. samplePosition' = 0 /\ UNCHANGED <<sent, step>> /\ Frames * 0 = 0
    BY <1>1, FramesAssumption DEF Start
  <2> QED
    BY <2>1, <2>2 DEF PositionInv
<1>2. CASE ProcessOutput
  <2>1. sent \in Nat /\ step = "filling" /\ UNCHANGED told
    BY <1>2 DEF ProcessOutput, DriverInv, BlocksInv
  <2>2. CASE Fill(toggle, outputBuffers[toggle]) /\ UNCHANGED <<samplePosition, step>>
    BY <2>1, <2>2 DEF Fill, PositionInv
  <2>3. CASE step' = "calling"
    <3>1. sent' = sent + 1 /\ samplePosition' = samplePosition + Frames
      BY <1>2, <2>1, <2>3 DEF ProcessOutput, Flag, DriverInv, BlocksInv
    <3>2. Frames * sent + Frames = Frames * (sent + 1)
      BY <2>1, FramesAssumption, SMT
    <3> QED
      BY <2>3, <3>1, <3>2 DEF PositionInv
  <2> QED
    BY <1>2, <2>2, <2>3 DEF ProcessOutput
<1>3. CASE Callback
  BY <1>3 DEF Callback, PositionInv, Split
<1>4. CASE \/ Load \/ Create \/ ReleaseFactory \/ AddRef \/ Open \/ CreateBuffers
           \/ ClockCreated \/ Started \/ Stop \/ DisposeBuffers \/ Stopped
           \/ Release \/ Unload
  BY <1>4 DEF Open, CreateBuffers, ClockCreated, Started, Stop, DisposeBuffers, Stopped,
              Release, Load, Create, ReleaseFactory, AddRef, Unload, PositionInv, Split
<1>5. CASE HandlerStep \/ Break \/ Tick \/ Enter \/ Flip \/ Undefined
  BY <1>5 DEF HandlerStep, Break, Tick, Enter, Flip, Undefined, PositionInv, Split
<1>6. CASE PathStep
  BY <1>6 DEF PathStep, Process, BeginPass, CopyFirst, CopySecond, Copy, CopyToggle,
              Read, Choose, Hear, PositionInv, Split
<1>7. CASE UNCHANGED vars
  BY <1>7 DEF vars, PositionInv, Split
<1> QED
  BY <1>1, <1>2, <1>3, <1>4, <1>5, <1>6, <1>7 DEF Next, HostStep, ClockStep

-----------------------------------------------------------------------------
(* The pointers of the host                                                *)

\* The driver's own count is that of the pointers, the DLL counts the driver as
\* long as there is one, and it is there from the factory on, for Unload looks
\* at what the DLL counts.
PointersInv ==
  /\ pointers \in Nat
  /\ refs = pointers
  /\ objects = IF pointers > 0 THEN 1 ELSE 0
  /\ host \in {"outside", "factory"} => pointers = 0
  /\ host = "factory" => mapped
  /\ pointers > 0 => mapped

LEMMA PointersStep ==
  ASSUME PointersInv, [Next]_vars
  PROVE  PointersInv'
<1> USE DEF PointersInv, dll
<1>1. CASE Load
  BY <1>1 DEF Load, Dll!GetClassObject
<1>2. CASE Create
  <2>1. host = "factory" /\ host' = "created" /\ UNCHANGED mapped
        /\ \E known \in BOOLEAN : Dll!CreateInstance(known)
    BY <1>2 DEF Create, Dll!CreateInstance
  <2>2. PICK known \in BOOLEAN : Dll!CreateInstance(known)
    BY <2>1
  <2>3. objects = 0 /\ refs' = (IF known THEN 1 ELSE 0) /\ pointers' = refs'
        /\ objects' = (IF refs' > 0 THEN objects + 1 ELSE objects)
    BY <2>1, <2>2, SMT DEF Dll!CreateInstance, Dll!QueryInterface
  <2> QED
    BY <2>1, <2>3
<1>3. CASE ReleaseFactory
  BY <1>3 DEF ReleaseFactory, Dll!ReleaseFactory
<1>4. CASE AddRef
  <2>1. pointers' = pointers + 1 /\ refs' = refs + 1 /\ pointers > 0
        /\ UNCHANGED <<mapped, objects, host>>
    BY <1>4, PointersAssumption DEF AddRef, Dll!AddRef
  <2> QED
    BY <2>1
<1>5. CASE Release
  <2>1. /\ pointers > 0 /\ pointers' = pointers - 1 /\ refs' = refs - 1
        /\ objects' = (IF refs' = 0 THEN objects - 1 ELSE objects)
        /\ UNCHANGED mapped
        /\ host' \notin {"outside", "factory"}
    BY <1>5 DEF Release, Dll!Release, AtRest
  <2> QED
    BY <2>1
<1>6. CASE Unload
  BY <1>6 DEF Unload, Dll!Unload, Dll!CanUnload, AtRest
<1>7. CASE \/ Open \/ CreateBuffers \/ Start \/ ClockCreated \/ Started
           \/ Stop \/ DisposeBuffers \/ Stopped
  BY <1>7 DEF Open, CreateBuffers, Start, ClockCreated, Started, Stop, DisposeBuffers, Stopped
<1>8. CASE ClockStep
  BY <1>8 DEF ClockStep, HandlerStep, Break, Tick, Enter, ProcessOutput, Callback, Flip,
              Undefined, driver
<1>9. CASE PathStep
  BY <1>9 DEF PathStep
<1>10. CASE UNCHANGED vars
  BY <1>10 DEF vars
<1> QED
  BY <1>1, <1>2, <1>3, <1>4, <1>5, <1>6, <1>7, <1>8, <1>9, <1>10 DEF Next, HostStep

-----------------------------------------------------------------------------
(* Types.  Those of the path are the path's own theorem; what is left is    *)
(* the clock, the DLL, and the variables of the driver.                     *)

Places == AtRest \cup {"outside", "factory", "created", "failed", "creating",
                       "starting", "stopping", "disposing", "released"}

DllTypes ==
  /\ mapped \in BOOLEAN
  /\ factory \in 0 .. 1
  /\ pointers <= MaxPointers

ClockTypes ==
  /\ clockHandle \in Clock!Threads \cup {0, -1}
  /\ clockState \in {"IDLE", "STARTING", "INITIALIZING", "RUNNING"}
  /\ clockPlace \in [Clock!Threads -> Clock!Places]

HostTypes ==
  /\ state \in {"IDLE", "STARTING", "RUNNING", "STOPPING"}
  /\ started \in BOOLEAN /\ callbacks \in BOOLEAN
  /\ host \in Places

CountTypes ==
  /\ samplePosition \in Nat
  /\ told \in [hi : Nat, lo : Nat]
  /\ step \in {"outside", "checking", "filling", "calling", "flipping", "undefined"}

\* The DLL: a factory is made when there is none, and pointers are passed on
\* up to the bound.
LEMMA DllTypesStep ==
  ASSUME DllTypes, PointersInv, [Next]_vars
  PROVE  DllTypes'
<1> USE PointersAssumption DEF DllTypes, PointersInv, dll
<1>1. CASE Load
  BY <1>1 DEF Load, Dll!GetClassObject
<1>2. CASE Create
  <2>1. pointers' \in {0, 1} /\ UNCHANGED <<mapped, factory>>
    BY <1>2 DEF Create, Dll!CreateInstance
  <2> QED
    BY <2>1
<1>3. CASE ReleaseFactory
  BY <1>3 DEF ReleaseFactory, Dll!ReleaseFactory
<1>4. CASE AddRef
  BY <1>4 DEF AddRef, Dll!AddRef
<1>5. CASE Release
  BY <1>5 DEF Release, Dll!Release
<1>6. CASE Unload
  BY <1>6 DEF Unload, Dll!Unload
<1>7. CASE \/ Open \/ CreateBuffers \/ Start \/ ClockCreated \/ Started
           \/ Stop \/ DisposeBuffers \/ Stopped
  BY <1>7 DEF Open, CreateBuffers, Start, ClockCreated, Started, Stop, DisposeBuffers, Stopped
<1>8. CASE ClockStep
  BY <1>8 DEF ClockStep, HandlerStep, Break, Tick, Enter, ProcessOutput, Callback, Flip,
              Undefined, driver
<1>9. CASE PathStep
  BY <1>9 DEF PathStep
<1>10. CASE UNCHANGED vars
  BY <1>10 DEF vars
<1> QED
  BY <1>1, <1>2, <1>3, <1>4, <1>5, <1>6, <1>7, <1>8, <1>9, <1>10 DEF Next, HostStep

\* What the operations of the class Thread do to the thread of the clock.
LEMMA ClockKeepsTypes ==
  ASSUME ClockTypes,
         \/ Clock!Create \/ Clock!CreateFails \/ Clock!StoreIdle \/ Clock!Stop
         \/ \E t \in Clock!Threads : Clock!HandlerStep(t) \/ Clock!Break(t)
         \/ UNCHANGED clock
  PROVE  ClockTypes'
<1> USE DEF ClockTypes
<1>1. CASE Clock!Create
  BY <1>1 DEF Clock!Create, Clock!Goto, Clock!Places
<1>2. CASE Clock!CreateFails \/ Clock!StoreIdle \/ Clock!Stop
  BY <1>2 DEF Clock!CreateFails, Clock!StoreIdle, Clock!Stop, Clock!Null
<1>3. CASE \E t \in Clock!Threads : Clock!HandlerStep(t) \/ Clock!Break(t)
  BY <1>3 DEF Clock!HandlerStep, Clock!Initialize, Clock!Run, Clock!Break, Clock!Goto,
              Clock!Places
<1>4. CASE UNCHANGED clock
  BY <1>4 DEF clock
<1> QED
  BY <1>1, <1>2, <1>3, <1>4

\* The thread of the clock changes by the operations of Thread only.
LEMMA ClockTypesStep ==
  ASSUME ClockTypes, [Next]_vars
  PROVE  ClockTypes'
<1>1. CASE HostStep
  <2>1. CASE \/ Load \/ ReleaseFactory \/ AddRef \/ Open \/ CreateBuffers \/ Started
             \/ Stop \/ DisposeBuffers \/ Unload
    BY <2>1, ClockKeepsTypes DEF Load, ReleaseFactory, AddRef, Open, CreateBuffers, Started,
                                 Stop, DisposeBuffers, Unload
  <2>2. CASE Start \/ ClockCreated \/ Stopped
    BY <2>2, ClockKeepsTypes DEF Start, ClockCreated, Stopped
  <2>3. CASE Create \/ Release
    BY <2>3, ClockKeepsTypes DEF Create, Release, Destruct
  <2> QED
    BY <1>1, <2>1, <2>2, <2>3 DEF HostStep
<1>2. CASE ClockStep
  <2>1. CASE HandlerStep \/ Break
    BY <2>1, ClockKeepsTypes DEF HandlerStep, Break
  <2>2. CASE Tick \/ Enter \/ ProcessOutput \/ Callback \/ Flip \/ Undefined
    BY <2>2, ClockKeepsTypes DEF Tick, Enter, ProcessOutput, Callback, Flip, Undefined
  <2> QED
    BY <1>2, <2>1, <2>2 DEF ClockStep
<1>3. CASE PathStep
  BY <1>3, ClockKeepsTypes DEF PathStep
<1>4. CASE UNCHANGED vars
  BY <1>4, ClockKeepsTypes DEF vars
<1> QED
  BY <1>1, <1>2, <1>3, <1>4 DEF Next

\* The places of the host, and what it sets in the driver.
LEMMA HostTypesStep ==
  ASSUME HostTypes, [Next]_vars
  PROVE  HostTypes'
<1> USE DEF HostTypes, driver, Places, AtRest
<1>1. CASE HostStep
  BY <1>1 DEF HostStep, Load, Create, ReleaseFactory, AddRef, Open, CreateBuffers, Start,
              ClockCreated, Started, Stop, DisposeBuffers, Stopped, Release, Unload, Destruct
<1>2. CASE ClockStep
  BY <1>2 DEF ClockStep, HandlerStep, Break, Tick, Enter, ProcessOutput, Callback, Flip,
              Undefined
<1>3. CASE PathStep
  BY <1>3 DEF PathStep
<1>4. CASE UNCHANGED vars
  BY <1>4 DEF vars
<1> QED
  BY <1>1, <1>2, <1>3, <1>4 DEF Next

\* Both words of a position are numbers.
LEMMA SplitTypes ==
  ASSUME NEW pos \in Nat
  PROVE  Split(pos) \in [hi : Nat, lo : Nat]
<1>1. pos \div twoRaisedTo32 \in Nat /\ pos % twoRaisedTo32 \in Nat
  BY WordAssumption, SMT
<1> QED
  BY <1>1 DEF Split

\* The count of the samples, and the steps of bufferSwitch.
LEMMA CountTypesStep ==
  ASSUME CountTypes, [Next]_vars
  PROVE  CountTypes'
<1> USE DEF CountTypes, position
<1>1. CASE HostStep
  <2>1. samplePosition' \in {0, samplePosition} /\ UNCHANGED <<told, step>>
    BY <1>1 DEF HostStep, Load, Create, ReleaseFactory, AddRef, Open, CreateBuffers, Start,
                ClockCreated, Started, Stop, DisposeBuffers, Stopped, Release, Unload
  <2> QED
    BY <2>1
<1>2. CASE ProcessOutput
  BY <1>2, FramesAssumption DEF ProcessOutput
<1>3. CASE Callback
  BY <1>3, SplitTypes DEF Callback
<1>4. CASE HandlerStep \/ Break \/ Tick \/ Enter \/ Flip \/ Undefined
  BY <1>4 DEF HandlerStep, Break, Tick, Enter, Flip, Undefined
<1>5. CASE PathStep
  BY <1>5 DEF PathStep
<1>6. CASE UNCHANGED vars
  BY <1>6 DEF vars
<1> QED
  BY <1>1, <1>2, <1>3, <1>4, <1>5, <1>6 DEF Next, ClockStep


-----------------------------------------------------------------------------
(* The theorems                                                            *)

\* The driver sends every block of the host once, in order, to the two halves
\* in turn.
THEOREM DriverImplementsPath == Spec => ImplementsPath
<1>1. Init => DriverInv /\ PathInit
  BY DriverInvInit DEF Init
<1>2. DriverInv /\ [Next]_vars => DriverInv'
  BY DriverInvStep
<1>3. DriverInv /\ [Next]_vars => [PathNext]_pathVars
  BY DriverStepsAreSteps
<1> QED
  BY <1>1, <1>2, <1>3, PTL DEF Spec, ImplementsPath, PathSpec

\* Every variable of the driver, its clock, the DLL and the path to the server
\* keeps its type, for blocks, words and counts of any size.
THEOREM DriverTypeCorrect == Spec => []TypeOK
<1> DEFINE Inv == DriverInv /\ PointersInv /\ DllTypes /\ ClockTypes /\ HostTypes /\ CountTypes
<1>1. Init => Inv
  <2> SUFFICES ASSUME Init PROVE Inv
    OBVIOUS
  <2>1. DriverInv
    BY DriverInvInit
  <2>2. PointersInv /\ DllTypes
    <3>1. mapped \in BOOLEAN /\ host = "outside"
      BY Zenon DEF Init, Dll!Init
    <3>2. factory = 0 /\ objects = 0 /\ refs = 0 /\ pointers = 0
      BY DEF Init, Dll!Init
    <3> QED
      BY <3>1, <3>2, PointersAssumption DEF PointersInv, DllTypes
  <2>3. ClockTypes
    BY DEF Init, Clock!Init, Clock!Invalid, Clock!Places, ClockTypes
  <2>4. HostTypes /\ CountTypes
    BY DEF Init, HostTypes, CountTypes, Places
  <2> QED
    BY <2>1, <2>2, <2>3, <2>4
<1>2. Inv /\ [Next]_vars => Inv'
  BY DriverInvStep, PointersStep, DllTypesStep, ClockTypesStep, HostTypesStep, CountTypesStep
<1>3. Inv /\ PathTypeOK => TypeOK
  <2> SUFFICES ASSUME Inv, PathTypeOK PROVE TypeOK
    OBVIOUS
  <2>1. Clock!TypeOK
    BY DEF ClockTypes, Clock!TypeOK, Clock!Null, Clock!Invalid
  <2>2. Dll!TypeOK
    BY DEF PointersInv, DllTypes, Dll!TypeOK
  <2>3. toggle \in Halves /\ outputBuffers \in [Halves -> Nat] /\ late \in Nat
    BY DEF DriverInv, BlocksInv, LateInv
  <2> QED
    BY <2>1, <2>2, <2>3 DEF TypeOK, HostTypes, CountTypes, Places
<1>4. Spec => []PathTypeOK
  <2>1. Spec => PathSpec
    BY DriverImplementsPath DEF ImplementsPath
  <2> QED
    BY <2>1, PathIsSafe, PTL
<1> QED
  BY <1>1, <1>2, <1>3, <1>4, PTL DEF Spec

\* What the path promises it promises to the host of the driver.
THEOREM DriverIsHeard == Spec => [](NamedHalfWhole /\ HeardIsRecent)
<1>1. Spec => PathSpec
  BY DriverImplementsPath DEF ImplementsPath
<1> QED
  BY <1>1, PathIsSafe, PTL

\* After stop() has returned the host's callback begins once more at most.
THEOREM DriverStops == Spec => []AtMostOneBlockAfterStop
<1>1. Init => DriverInv
  BY DriverInvInit
<1>2. DriverInv /\ [Next]_vars => DriverInv'
  BY DriverInvStep
<1>3. DriverInv => AtMostOneBlockAfterStop
  BY DEF DriverInv, LateInv, AtMostOneBlockAfterStop
<1> QED
  BY <1>1, <1>2, <1>3, PTL DEF Spec

\* The host is told its true position with every callback, for blocks and words
\* of any size.
THEOREM PositionsAreTrue == Spec => []PositionIsTold
<1>1. Init => DriverInv /\ PositionInv
  <2>1. Frames * 0 = 0
    BY FramesAssumption
  <2> QED
    BY <2>1, DriverInvInit DEF Init, PathInit, PositionInv
<1>2. DriverInv /\ PositionInv /\ [Next]_vars => DriverInv' /\ PositionInv'
  BY DriverInvStep, PositionStep
<1>3. DriverInv /\ PositionInv => PositionIsTold
  <2>1. ASSUME DriverInv, PositionInv PROVE Frames * sent \in Nat
    BY <2>1, FramesAssumption, SMT DEF DriverInv, BlocksInv
  <2> QED
    BY <2>1, SplitIsTrue DEF PositionInv, PositionIsTold
<1> QED
  BY <1>1, <1>2, <1>3, PTL DEF Spec

\* However often the host passes its pointer on, each of its pointers leads to
\* a driver in a DLL that is there.
THEOREM PointersAlwaysLead == Spec => []PointersLead
<1>1. Init => PointersInv
  BY DEF Init, Dll!Init, PointersInv
<1>2. PointersInv /\ [Next]_vars => PointersInv'
  BY PointersStep
<1>3. PointersInv => PointersLead
  BY DEF PointersInv, PointersLead, Dll!PointersAreGood
<1> QED
  BY <1>1, <1>2, <1>3, PTL DEF Spec

=============================================================================
