----------------------------- MODULE AudioPath -----------------------------
(***************************************************************************)
(* The way of one channel through shared memory: a client fills the double *)
(* buffer of its output, process() of the server copies it to the double   *)
(* buffer of an input, somebody reads that.  Nothing is locked.  A block   *)
(* is known by its number; every sample of a buffer is the number of the   *)
(* block it belongs to, so that a half-written buffer shows.               *)
(*                                                                         *)
(* Next is what the parties promise each other here: a source that sends   *)
(* its blocks in order, and a server that copies them at its own pace.     *)
(* AsioDriver has the source in detail.                                    *)
(***************************************************************************)
EXTENDS Integers

CONSTANT Frames   \* bufferSize, the samples of a block

ASSUME FramesAssumption == Frames \in Nat \ {0}

Samples == 1 .. Frames
Halves == {0, 1}   \* buffer1 and buffer2, by the value of the toggle

VARIABLES
  srcHalf,     \* the two halves of the source's buffer
  srcToggle,   \* its toggle: the half that was filled last
  filled,      \* samples of the next block that are in place
  sent,        \* history: the number of the last block that was sent
  destHalf,    \* the buffer that process() copies to
  destToggle,
  at,          \* process(): which half it is copying, or that it is done
  copied,      \* samples of that half that are copied
  since,       \* history: the last block sent when this pass began
  seen,        \* history: the last block sent when the last whole pass began
  reading,     \* the half that the reader has chosen, or Idle
  heard,       \* the reader's own buffer
  taken,       \* samples of it that are in place
  asked        \* history: seen when this reading began

source == <<srcHalf, srcToggle, filled, sent>>
engine == <<destHalf, destToggle, at, copied, since, seen>>
reader == <<reading, heard, taken, asked>>
pathVars == <<source, engine, reader>>

Idle == -1

Silence == [i \in Samples |-> 0]

PathInit ==
  /\ srcHalf = [h \in Halves |-> Silence] /\ destHalf = [h \in Halves |-> Silence]
  /\ srcToggle = 0 /\ destToggle = 0
  /\ filled = 0 /\ sent = 0
  /\ at = "idle" /\ copied = 0
  /\ since = 0 /\ seen = 0
  /\ reading = Idle /\ heard = Silence /\ taken = 0 /\ asked = 0

-----------------------------------------------------------------------------
(* The source                                                              *)

\* The copy goes to the half that was sent last.
BadFill(h, block) ==
  /\ filled < Frames
  /\ srcHalf' = [srcHalf EXCEPT ![1 - h][filled + 1] = block]
  /\ filled' = filled + 1
  /\ UNCHANGED <<srcToggle, sent, engine, reader>>

\* One sample of memcpy into half h.
Fill(h, block) ==
  /\ filled < Frames
  /\ srcHalf' = [srcHalf EXCEPT ![h][filled + 1] = block]
  /\ filled' = filled + 1
  /\ UNCHANGED <<srcToggle, sent, engine, reader>>

\* The toggle, after the copy.
Flag(h, block) ==
  /\ filled = Frames
  /\ srcToggle' = h
  /\ filled' = 0
  /\ sent' = block
  /\ UNCHANGED <<srcHalf, engine, reader>>

\* Blocks go to the two halves in turn.
HalfOf(block) == (block - 1) % 2

Send == Fill(HalfOf(sent + 1), sent + 1) \/ Flag(HalfOf(sent + 1), sent + 1)

-----------------------------------------------------------------------------
(* graph_manager::process, for one connection                              *)

BeginPass ==
  /\ at = "idle"
  /\ at' = "buffer1"
  /\ copied' = 0
  /\ since' = sent
  /\ UNCHANGED <<source, reader, destHalf, destToggle, seen>>

\* One sample of the memcpy of half h.
Copy(h, here, next) ==
  /\ at = here
  /\ destHalf' = [destHalf EXCEPT ![h][copied + 1] = srcHalf[h][copied + 1]]
  /\ copied' = IF copied + 1 = Frames THEN 0 ELSE copied + 1
  /\ at' = IF copied + 1 = Frames THEN next ELSE here
  /\ UNCHANGED <<source, reader, destToggle, since, seen>>

\* Only the half that the toggle names is copied.
BadCopySecond ==
  IF srcToggle = 1 THEN Copy(1, "buffer2", "toggle")
  ELSE /\ at = "buffer2" /\ at' = "toggle"
       /\ UNCHANGED <<source, reader, destHalf, destToggle, copied, since, seen>>

CopyFirst == Copy(0, "buffer1", "buffer2")
CopySecond == Copy(1, "buffer2", "toggle")

CopyToggle ==
  /\ at = "toggle"
  /\ destToggle' = srcToggle
  /\ seen' = since
  /\ at' = "idle"
  /\ UNCHANGED <<source, reader, destHalf, copied, since>>

Process == BeginPass \/ CopyFirst \/ CopySecond \/ CopyToggle

-----------------------------------------------------------------------------
(* A reader: the callback of the example portaudio_client, which takes the *)
(* half that the toggle names, or processInput of an ASIO driver, which    *)
(* takes the half of its own toggle, whatever that of the buffer says.     *)

\* The half is chosen once, for the whole of memcpy.
Choose ==
  /\ reading = Idle
  /\ reading' \in Halves
  /\ taken' = 0
  /\ asked' = seen
  /\ UNCHANGED <<source, engine, heard>>

Hear ==
  /\ reading # Idle
  /\ heard' = [heard EXCEPT ![taken + 1] = destHalf[reading][taken + 1]]
  /\ taken' = taken + 1
  /\ reading' = IF taken + 1 = Frames THEN Idle ELSE reading
  /\ UNCHANGED <<source, engine, asked>>

Read == Choose \/ Hear

PathNext == Send \/ Process \/ Read

PathSpec == PathInit /\ [][PathNext]_pathVars

-----------------------------------------------------------------------------
(* Properties                                                              *)

PathTypeOK ==
  /\ srcHalf \in [Halves -> [Samples -> Nat]]
  /\ destHalf \in [Halves -> [Samples -> Nat]]
  /\ srcToggle \in Halves /\ destToggle \in Halves
  /\ filled \in 0 .. Frames
  /\ copied \in 0 .. Frames - 1
  /\ sent \in Nat /\ since \in Nat /\ seen \in Nat
  /\ at \in {"idle", "buffer1", "buffer2", "toggle"}
  /\ reading \in Halves \cup {Idle}
  /\ heard \in [Samples -> Nat]
  /\ taken \in 0 .. Frames
  /\ reading # Idle => taken < Frames
  /\ asked \in Nat

\* The double buffer does what it is for on the side of the source: whenever
\* anybody looks, the half that the toggle names is one whole block, the last
\* one that was sent, and is not being written.  (Not so before the first
\* block: it goes to the half that a fresh toggle already names.)
NamedHalfWhole == sent > 0 => \A i \in Samples : srcHalf[srcToggle][i] = sent

\* Nothing that a reader plays is older than one block before the newest block
\* at the time that the last whole pass of process() before it began, however
\* the writing, the two copies, the toggles and the reading fall together, and
\* whichever half it reads.  (It may be half of one block and half of another.)
HeardIsRecent == \A i \in 1 .. taken : heard[i] >= asked - 1

=============================================================================
