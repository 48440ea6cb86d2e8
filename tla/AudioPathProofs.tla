--------------------------- MODULE AudioPathProofs ---------------------------
(***************************************************************************)
(* What the readers of the shared audio buffers can rely on, for blocks of *)
(* any length: the properties of AudioPath.                                *)
(***************************************************************************)
EXTENDS AudioPath, TLAPS

-----------------------------------------------------------------------------
(* The inductive invariant                                                 *)

\* The source: the half that was sent last is that block, and the samples of
\* the other one are of the block before it or of the block that follows.
SourceInv ==
  /\ sent > 0 => srcToggle = HalfOf(sent) /\ \A i \in Samples : srcHalf[HalfOf(sent)][i] = sent
  /\ \A i \in Samples : srcHalf[HalfOf(sent + 1)][i] >= sent - 1
  /\ \A i \in 1 .. filled : srcHalf[HalfOf(sent + 1)][i] = sent + 1

\* process(): no sample is older than the last whole pass allows, and those
\* that this pass has copied are as new as its beginning.
EngineInv ==
  /\ seen <= since /\ since <= sent
  /\ at \in {"idle", "toggle"} => copied = 0
  /\ \A h \in Halves, i \in Samples : destHalf[h][i] >= seen - 1
  /\ at = "buffer1" => \A i \in 1 .. copied : destHalf[0][i] >= since - 1
  /\ at = "buffer2" => /\ \A i \in Samples : destHalf[0][i] >= since - 1
                       /\ \A i \in 1 .. copied : destHalf[1][i] >= since - 1
  /\ at = "toggle" => \A h \in Halves, i \in Samples : destHalf[h][i] >= since - 1

ReaderInv == asked <= seen /\ HeardIsRecent

PathInv == PathTypeOK /\ SourceInv /\ EngineInv /\ ReaderInv

\* The half of the next block is the other half.
LEMMA HalvesAlternate ==
  ASSUME NEW n \in Nat
  PROVE  /\ HalfOf(n + 1) \in Halves
         /\ n > 0 => HalfOf(n) = 1 - HalfOf(n + 1) /\ HalfOf(n) \in Halves
         /\ HalfOf(n + 2) = 1 - HalfOf(n + 1)
  BY SMT DEF HalfOf, Halves

\* Whatever the half, no sample of the source is older than the block before
\* the last one.
LEMMA SourceIsRecent ==
  ASSUME PathTypeOK, SourceInv, NEW h \in Halves, NEW i \in Samples
  PROVE  srcHalf[h][i] \in Nat /\ srcHalf[h][i] >= sent - 1
<1> USE DEF PathTypeOK
<1>1. srcHalf[h][i] \in Nat
  OBVIOUS
<1>2. CASE sent = 0
  BY <1>1, <1>2
<1>3. CASE sent > 0
  <2>1. h = HalfOf(sent) \/ h = HalfOf(sent + 1)
    <3>1. HalfOf(sent) = 1 - HalfOf(sent + 1) /\ HalfOf(sent + 1) \in Halves
      BY <1>3, HalvesAlternate
    <3> QED
      BY <3>1 DEF Halves
  <2> QED
    BY <1>1, <1>3, <2>1 DEF SourceInv
<1> QED
  BY <1>2, <1>3

-----------------------------------------------------------------------------
(* The steps                                                               *)

LEMMA PathInvInit == PathInit => PathInv
  BY FramesAssumption, HalvesAlternate
     DEF PathInit, PathInv, PathTypeOK, SourceInv, EngineInv, ReaderInv, HeardIsRecent,
         Silence, Samples, Halves, Idle, HalfOf

\* A sample goes to the half of the next block, which the toggle does not name.
LEMMA FillKeeps ==
  ASSUME PathInv, Fill(HalfOf(sent + 1), sent + 1)
  PROVE  PathInv'
<1> DEFINE half == HalfOf(sent + 1)
<1>1. /\ half \in Halves
      /\ sent > 0 => HalfOf(sent) # half /\ HalfOf(sent) \in Halves
  BY HalvesAlternate DEF PathInv, PathTypeOK, Halves
<1> HIDE DEF half
<1>2. /\ filled < Frames /\ filled + 1 \in Samples
      /\ filled' = filled + 1
      /\ srcHalf' = [srcHalf EXCEPT ![half][filled + 1] = sent + 1]
      /\ UNCHANGED <<srcToggle, sent, engine, reader>>
  BY FramesAssumption DEF Fill, half, PathInv, PathTypeOK, Samples
<1>3. /\ srcHalf' \in [Halves -> [Samples -> Nat]]
      /\ \A h \in Halves, i \in Samples :
           srcHalf'[h][i] = IF h = half /\ i = filled + 1 THEN sent + 1 ELSE srcHalf[h][i]
  BY <1>1, <1>2 DEF PathInv, PathTypeOK
<1>4. PathTypeOK'
  BY <1>2, <1>3, FramesAssumption DEF PathInv, PathTypeOK, engine, reader
<1>5. SourceInv'
  <2>1. sent' = sent /\ HalfOf(sent' + 1) = half
    BY <1>2 DEF half
  <2>2. HalfOf(sent') = HalfOf(sent)
    BY <2>1
  <2>3. (sent > 0 => srcToggle = HalfOf(sent) /\ \A i \in Samples : srcHalf[HalfOf(sent)][i] = sent)'
    BY <1>1, <1>2, <1>3, <2>1, <2>2 DEF PathInv, SourceInv
  <2>4. \A i \in Samples : srcHalf'[half][i] >= sent - 1
    BY <1>1, <1>3 DEF PathInv, PathTypeOK, SourceInv, half
  <2>5. \A i \in 1 .. filled' : srcHalf'[half][i] = sent + 1
    BY <1>1, <1>2, <1>3 DEF PathInv, PathTypeOK, SourceInv, half, Samples
  <2> QED
    BY <2>1, <2>3, <2>4, <2>5 DEF SourceInv
<1>6. EngineInv' /\ ReaderInv'
  BY <1>2 DEF PathInv, EngineInv, ReaderInv, HeardIsRecent, engine, reader, Samples, Halves
<1> QED
  BY <1>4, <1>5, <1>6 DEF PathInv

\* The next block is whole when the toggle names it.
LEMMA FlagKeeps ==
  ASSUME PathInv, Flag(HalfOf(sent + 1), sent + 1)
  PROVE  PathInv'
<1>1. /\ HalfOf(sent + 1) \in Halves
      /\ HalfOf(sent + 2) \in Halves /\ HalfOf(sent + 2) # HalfOf(sent + 1)
      /\ sent > 0 => HalfOf(sent) = HalfOf(sent + 2)
  BY HalvesAlternate DEF PathInv, PathTypeOK, Halves
<1>2. /\ filled = Frames /\ filled' = 0
      /\ srcToggle' = HalfOf(sent + 1)
      /\ sent' = sent + 1 /\ sent \in Nat
      /\ UNCHANGED <<srcHalf, engine, reader>>
  BY DEF Flag, PathInv, PathTypeOK
<1>3. sent' + 1 = sent + 2
  BY <1>2
<1>4. PathTypeOK'
  BY <1>1, <1>2, FramesAssumption DEF PathInv, PathTypeOK, engine, reader
<1>5. SourceInv'
  <2>1. \A i \in Samples : srcHalf[HalfOf(sent + 1)][i] = sent + 1
    BY <1>2 DEF PathInv, SourceInv, Samples
  <2>2. \A i \in Samples : srcHalf[HalfOf(sent + 2)][i] >= sent
    <3>1. CASE sent = 0
      BY <1>1, <3>1 DEF PathInv, PathTypeOK
    <3>2. CASE sent > 0
      BY <1>1, <3>2 DEF PathInv, PathTypeOK, SourceInv
    <3> QED
      BY <1>2, <3>1, <3>2
  <2>3. \A i \in 1 .. filled' : srcHalf'[HalfOf(sent' + 1)][i] = sent' + 1
    BY <1>2
  <2>4. (sent > 0 => srcToggle = HalfOf(sent) /\ \A i \in Samples : srcHalf[HalfOf(sent)][i] = sent)'
    BY <1>2, <2>1
  <2>5. \A i \in Samples : srcHalf'[HalfOf(sent' + 1)][i] >= sent' - 1
    BY <1>2, <1>3, <2>2
  <2> QED
    BY <2>3, <2>4, <2>5 DEF SourceInv
<1>6. EngineInv' /\ ReaderInv'
  BY <1>2 DEF PathInv, PathTypeOK, EngineInv, ReaderInv, HeardIsRecent, engine, reader,
              Samples, Halves
<1> QED
  BY <1>4, <1>5, <1>6 DEF PathInv

\* The source is left alone by all the other steps.
LEMMA SourceKept ==
  ASSUME SourceInv, UNCHANGED source
  PROVE  SourceInv'
  BY DEF SourceInv, source, HalfOf, Samples

LEMMA BeginPassKeeps ==
  ASSUME PathInv, BeginPass
  PROVE  PathInv'
<1>1. SourceInv'
  BY SourceKept DEF PathInv, BeginPass
<1>2. PathTypeOK' /\ EngineInv' /\ ReaderInv'
  BY FramesAssumption
     DEF PathInv, BeginPass, PathTypeOK, EngineInv, ReaderInv, HeardIsRecent, source, reader,
         Samples, Halves
<1> QED
  BY <1>1, <1>2 DEF PathInv

\* One sample of a copy: it is recent when it is copied.
LEMMA CopyKeeps ==
  ASSUME PathInv, CopyFirst \/ CopySecond
  PROVE  PathInv'
<1>1. PICK h \in Halves : \/ h = 0 /\ Copy(0, "buffer1", "buffer2")
                          \/ h = 1 /\ Copy(1, "buffer2", "toggle")
  BY DEF CopyFirst, CopySecond, Halves
<1> DEFINE i == copied + 1
<1>2. /\ i \in Samples /\ copied \in Nat
      /\ \A j \in 1 .. i : j \in Samples /\ (j = i \/ j \in 1 .. copied)
      /\ i # Frames => i \in 0 .. Frames - 1
      /\ i = Frames => \A j \in Samples : j \in 1 .. i
  BY FramesAssumption DEF PathInv, PathTypeOK, Samples
<1>3. srcHalf[h][i] \in Nat /\ srcHalf[h][i] >= sent - 1
  BY <1>2, SourceIsRecent DEF PathInv
<1>4. /\ destHalf' = [destHalf EXCEPT ![h][i] = srcHalf[h][i]]
      /\ copied' = IF i = Frames THEN 0 ELSE i
      /\ at' = IF i = Frames THEN (IF h = 0 THEN "buffer2" ELSE "toggle") ELSE at
      /\ at = IF h = 0 THEN "buffer1" ELSE "buffer2"
      /\ UNCHANGED <<source, reader, destToggle, since, seen>>
  BY <1>1 DEF Copy
<1> HIDE DEF i
<1>5. /\ destHalf' \in [Halves -> [Samples -> Nat]]
      /\ \A k \in Halves, j \in Samples :
           destHalf'[k][j] = IF k = h /\ j = i THEN srcHalf[h][i] ELSE destHalf[k][j]
  BY <1>2, <1>3, <1>4 DEF PathInv, PathTypeOK
<1>6. SourceInv'
  BY <1>4, SourceKept DEF PathInv
<1>7. PathTypeOK'
  <2>1. copied' \in 0 .. Frames - 1
    BY <1>2, <1>4, FramesAssumption
  <2>2. at' \in {"idle", "buffer1", "buffer2", "toggle"}
    BY <1>4 DEF PathInv, PathTypeOK
  <2>3. UNCHANGED <<srcHalf, srcToggle, filled, sent, destToggle, since, seen,
                    reading, heard, taken, asked>>
    BY <1>4 DEF source, reader
  <2> QED
    BY <1>5, <2>1, <2>2, <2>3 DEF PathInv, PathTypeOK
<1>8. EngineInv'
  <2>1. seen \in Nat /\ since \in Nat /\ sent \in Nat /\ seen <= since /\ since <= sent
    BY DEF PathInv, PathTypeOK, EngineInv
  <2>2. srcHalf[h][i] >= since - 1 /\ srcHalf[h][i] >= seen - 1
    BY <1>3, <2>1
  <2>3. /\ \A k \in Halves, j \in Samples : destHalf'[k][j] >= seen - 1
        /\ \A j \in Samples : j = i => destHalf'[h][j] >= since - 1
        /\ \A k \in Halves, j \in Samples :
             destHalf[k][j] >= since - 1 => destHalf'[k][j] >= since - 1
    BY <1>5, <2>2 DEF PathInv, EngineInv
  <2>4. UNCHANGED <<seen, since, sent>>
    BY <1>4 DEF source
  <2>5. CASE h = 0
    <3>1. \A j \in 1 .. i : j \in Samples /\ destHalf'[0][j] >= since - 1
      BY <1>2, <1>4, <2>3, <2>5 DEF PathInv, EngineInv, Halves
    <3> QED
      BY <1>2, <1>4, <2>1, <2>3, <2>4, <2>5, <3>1, FramesAssumption
         DEF EngineInv, Halves
  <2>6. CASE h = 1
    <3>1. \A j \in 1 .. i : j \in Samples /\ destHalf'[1][j] >= since - 1
      BY <1>2, <1>4, <2>3, <2>6 DEF PathInv, EngineInv, Halves
    <3>2. \A j \in Samples : destHalf'[0][j] >= since - 1
      BY <1>4, <2>3, <2>6 DEF PathInv, EngineInv, Halves
    <3> QED
      BY <1>2, <1>4, <2>1, <2>3, <2>4, <2>6, <3>1, <3>2, FramesAssumption
         DEF EngineInv, Halves
  <2> QED
    BY <2>5, <2>6 DEF Halves
<1>9. ReaderInv'
  BY <1>4 DEF PathInv, ReaderInv, HeardIsRecent, reader
<1> QED
  BY <1>6, <1>7, <1>8, <1>9 DEF PathInv

LEMMA CopyToggleKeeps ==
  ASSUME PathInv, CopyToggle
  PROVE  PathInv'
<1>1. SourceInv'
  BY SourceKept DEF PathInv, CopyToggle
<1>2. PathTypeOK' /\ EngineInv' /\ ReaderInv'
  BY DEF PathInv, CopyToggle, PathTypeOK, EngineInv, ReaderInv, HeardIsRecent, source, reader
<1> QED
  BY <1>1, <1>2 DEF PathInv

LEMMA ReadKeeps ==
  ASSUME PathInv, Read
  PROVE  PathInv'
<1>1. SourceInv' /\ EngineInv'
  <2>1. UNCHANGED <<source, engine>>
    BY DEF Read, Choose, Hear
  <2> QED
    BY <2>1, SourceKept DEF PathInv, EngineInv, source, engine
<1>2. CASE Choose
  <2>1. PathTypeOK'
    BY <1>2, FramesAssumption DEF PathInv, Choose, PathTypeOK, source, engine, Halves, Idle
  <2>2. ReaderInv'
    BY <1>2 DEF PathInv, Choose, PathTypeOK, ReaderInv, HeardIsRecent, engine
  <2> QED
    BY <1>1, <2>1, <2>2 DEF PathInv
<1>3. CASE Hear
  <2>1. /\ reading \in Halves /\ taken + 1 \in Samples
        /\ taken \in Nat /\ taken' = taken + 1
        /\ heard' = [heard EXCEPT ![taken + 1] = destHalf[reading][taken + 1]]
        /\ reading' = IF taken + 1 = Frames THEN Idle ELSE reading
        /\ UNCHANGED <<source, engine, asked>>
    BY <1>3, FramesAssumption DEF PathInv, PathTypeOK, Hear, Samples
  <2>2. destHalf[reading][taken + 1] \in Nat /\ destHalf[reading][taken + 1] >= asked - 1
    BY <2>1 DEF PathInv, PathTypeOK, EngineInv, ReaderInv
  <2>3. PathTypeOK'
    BY <2>1, <2>2, FramesAssumption
       DEF PathInv, PathTypeOK, source, engine, Samples, Halves, Idle
  <2>4. ReaderInv'
    <3>1. asked' <= seen'
      BY <2>1 DEF PathInv, ReaderInv, engine
    <3>2. \A i \in 1 .. taken + 1 :
            /\ i \in Samples
            /\ heard'[i] = IF i = taken + 1 THEN destHalf[reading][taken + 1] ELSE heard[i]
      <4>1. \A i \in 1 .. taken + 1 : i \in Samples
        BY <2>1, FramesAssumption DEF Samples
      <4> QED
        BY <2>1, <4>1 DEF PathInv, PathTypeOK
    <3>3. HeardIsRecent'
      BY <2>1, <2>2, <3>2 DEF PathInv, ReaderInv, HeardIsRecent
    <3> QED
      BY <3>1, <3>3 DEF ReaderInv
  <2> QED
    BY <1>1, <2>3, <2>4 DEF PathInv
<1> QED
  BY <1>2, <1>3 DEF Read

LEMMA PathInvStep ==
  ASSUME PathInv, [PathNext]_pathVars
  PROVE  PathInv'
<1>1. CASE Send
  BY <1>1, FillKeeps, FlagKeeps DEF Send
<1>2. CASE Process
  BY <1>2, BeginPassKeeps, CopyKeeps, CopyToggleKeeps DEF Process
<1>3. CASE Read
  BY <1>3, ReadKeeps
<1>4. CASE UNCHANGED pathVars
  BY <1>4, SourceKept
     DEF pathVars, source, engine, reader, PathInv, PathTypeOK, EngineInv, ReaderInv,
         HeardIsRecent
<1> QED
  BY <1>1, <1>2, <1>3, <1>4 DEF PathNext

-----------------------------------------------------------------------------
(* The theorems                                                            *)

\* For blocks of every length, with every interleaving of the clients and the
\* server: the half that the source's toggle names is one whole block, the last
\* one sent, and no sample that a reader holds is more than one block older than
\* the newest block at the time that the last whole copy began.  Of the half that
\* process() copies to, only that age is shown: it may be torn.
THEOREM PathIsSafe == PathSpec => [](PathTypeOK /\ NamedHalfWhole /\ HeardIsRecent)
<1>1. PathInit => PathInv
  BY PathInvInit
<1>2. PathInv /\ [PathNext]_pathVars => PathInv'
  BY PathInvStep
<1>3. PathInv => PathTypeOK /\ NamedHalfWhole /\ HeardIsRecent
  BY DEF PathInv, SourceInv, ReaderInv, NamedHalfWhole
<1> QED
  BY <1>1, <1>2, <1>3, PTL DEF PathSpec
=============================================================================
