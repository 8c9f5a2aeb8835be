---------------------- MODULE SynthesizeSequence_proofs ---------------------
(***************************************************************************)
(* For every pair of block sizes, every mode sequence of any length and    *)
(* every terminal mode, the batch driver keeps the overlap-add's window    *)
(* bounded and every index it computes inside the window, and what it      *)
(* hands out is the timeline of the whole sequence, lapped between the     *)
(* first and the last centre.                                              *)
(***************************************************************************)
EXTENDS SynthesizeSequence, SynthesisOla_proofs

\* The inductive invariant: the window's shape while blocks are to come, its
\* length always, and as many samples handed out as are finalized.
IInv ==
    /\ TypeOK
    /\ tail => index = Len(modes)
    /\ ~tail => OlaInv
    /\ Len(samples) <= Long
    /\ Len(pcm) = completed

\* The first state of the driver satisfies the invariant.
LEMMA InitIInv == Init => IInv
<1> SUFFICES ASSUME Init PROVE IInv
  OBVIOUS
<1>1. OlaTypeOK /\ OlaInv
  BY OlaInitInv DEF Init
<1>2. modes \in Seq(Modes) /\ Len(modes) \in Nat
  <2>1. PICK n \in 0..MaxBlocks : modes \in [1..n -> Modes]
    BY DEF Init
  <2>2. n \in Nat
    BY MaxBlocksAssumption
  <2> QED
    BY <2>1, <2>2, LenOfFunction
<1>3. pcm \in Seq(Seq(Contributions)) /\ Len(pcm) = 0
  BY EmptySeq DEF Init
<1>4. TypeOK
  <2>1. index \in 0 .. Len(modes)
    BY <1>2 DEF Init
  <2> QED
    BY <1>1, <1>2, <1>3, <2>1 DEF Init, TypeOK
<1>5. Len(samples) <= Long
  <2>1. Len(samples) \in Nat
    BY <1>1, LenProperties DEF OlaTypeOK
  <2>2. start = 0 /\ base = 0 /\ Long \in Nat
    BY BlockSizesAssumption DEF Init, OlaInit
  <2> QED
    BY <1>1, <2>1, <2>2 DEF OlaInv
<1>6. completed = 0
  BY DEF Init, OlaInit
<1> QED
  BY <1>1, <1>3, <1>4, <1>5, <1>6 DEF IInv, Init

\* What a step hands out is what it finalized.
LEMMA AppendReleased ==
    ASSUME IInv, OlaTypeOK', completed <= completed',
           Len(released') = completed' - completed, pcm' = pcm \o released'
    PROVE  pcm' \in Seq(Seq(Contributions)) /\ Len(pcm') = completed'
<1>1. /\ pcm \in Seq(Seq(Contributions)) /\ released' \in Seq(Seq(Contributions))
      /\ completed \in Nat /\ completed' \in Nat /\ Len(pcm) = completed
  BY DEF IInv, TypeOK, OlaTypeOK
<1>2. /\ pcm \o released' \in Seq(Seq(Contributions))
      /\ Len(pcm \o released') = Len(pcm) + Len(released')
  BY <1>1, ConcatProperties
<1>3. completed + (completed' - completed) = completed'
  BY <1>1, Gap
<1> QED
  BY <1>1, <1>2, <1>3

\* A pushed block and a released tail keep the invariant.
LEMMA StepIInv == IInv /\ [Next]_vars => IInv'
<1> SUFFICES ASSUME IInv, [Next]_vars PROVE IInv'
  OBVIOUS
<1>1. CASE PushBlock
  <2> DEFINE current == modes[index + 1]
             following == FollowingOf(modes, terminal, index + 1)
  <2>1. index + 1 \in 1 .. Len(modes) /\ Len(modes) \in Nat
    BY <1>1, LenProperties DEF PushBlock, IInv, TypeOK
  <2>2. current \in Modes
    BY <2>1, ElementOfSeq DEF IInv, TypeOK
  <2>3. following \in Modes
    <3>1. CASE index + 1 < Len(modes)
      <4>1. index + 1 + 1 \in 1 .. Len(modes)
        BY <2>1, <3>1
      <4> QED
        BY <3>1, <4>1, ElementOfSeq DEF FollowingOf, IInv, TypeOK
    <3>2. CASE ~(index + 1 < Len(modes))
      BY <3>2 DEF FollowingOf, IInv, TypeOK
    <3> QED
      BY <3>1, <3>2
  <2>4. OlaTypeOK /\ OlaPush(index + 1, current, following)
    BY <1>1 DEF IInv, TypeOK, PushBlock
  <2>5. OlaInv /\ ~tail
    BY <1>1 DEF IInv, PushBlock
  <2>6. index + 1 \in Nat
    BY <2>1
  <2> HIDE DEF current, following
  <2>7. /\ OlaTypeOK' /\ OlaInv' /\ Len(samples') <= Long
        /\ completed <= completed'
        /\ Len(released') = completed' - completed
    BY <2>2, <2>3, <2>4, <2>5, <2>6, OlaPushInv
  <2>8. pcm' \in Seq(Seq(Contributions)) /\ Len(pcm') = completed'
    BY <1>1, <2>7, AppendReleased DEF PushBlock
  <2>9. TypeOK'
    BY <1>1, <2>1, <2>7, <2>8 DEF IInv, TypeOK, PushBlock
  <2> QED
    BY <1>1, <2>5, <2>7, <2>8, <2>9 DEF IInv, PushBlock
<1>2. CASE ReleaseTail
  <2>1. OlaTypeOK /\ OlaInv /\ OlaFinish
    BY <1>2 DEF IInv, TypeOK, ReleaseTail
  <2>2. /\ OlaTypeOK' /\ samples' = samples /\ completed <= completed'
        /\ Len(released') = completed' - completed
    BY <2>1, OlaFinishInv
  <2>3. pcm' \in Seq(Seq(Contributions)) /\ Len(pcm') = completed'
    BY <1>2, <2>2, AppendReleased DEF ReleaseTail
  <2>4. TypeOK'
    BY <1>2, <2>2, <2>3 DEF IInv, TypeOK, ReleaseTail
  <2> QED
    BY <1>2, <2>2, <2>3, <2>4 DEF IInv, ReleaseTail
<1>3. CASE UNCHANGED vars
  BY <1>3 DEF vars, olaVars, IInv, TypeOK, OlaTypeOK, OlaInv
<1> QED
  BY <1>1, <1>2, <1>3 DEF Next

\* The invariant holds of every mode sequence.
THEOREM IInvHolds == Spec => []IInv
<1> QED
  BY InitIInv, StepIInv, PTL DEF Spec

\* Every variable keeps its kind.
THEOREM TypeCorrect == Spec => []TypeOK
<1>1. IInv => TypeOK
  BY DEF IInv
<1> QED
  BY <1>1, IInvHolds, PTL

\* The memory bound of transform.rs:733 holds for every pair of block sizes
\* and every stream length.
THEOREM WindowIsBounded == Spec => []WindowBounded
<1>1. IInv => WindowBounded
  BY DEF IInv, WindowBounded
<1> QED
  BY <1>1, IInvHolds, PTL

\* No unsigned subtraction of SynthesisOla::push, finish or pcm_from can
\* underflow and no index it computes leaves the window.
THEOREM WindowAlwaysHolds == Spec => []WindowHoldsNextBlock
<1>1. ASSUME IInv PROVE WindowHoldsNextBlock
  <2> SUFFICES ASSUME ~tail PROVE
        /\ \A mode \in Modes : Position(mode) >= start + Droppable
        /\ Droppable <= Len(samples)
        /\ start + Droppable <= Origin + completed
        /\ base <= Origin + completed
        /\ supportEnd <= start + Len(samples)
    BY DEF WindowHoldsNextBlock
  <2>1. OlaTypeOK /\ OlaInv
    BY <1>1 DEF IInv, TypeOK
  <2>2. \A mode \in Modes :
          /\ Droppable \in Nat /\ Droppable <= Len(samples)
          /\ start + Droppable = base
          /\ Position(mode) \in Nat /\ base <= Position(mode)
    BY <2>1, PushGeometry
  <2>3. 0 \in Modes
    BY DEF Modes
  <2>4. base <= Origin + completed /\ supportEnd <= start + Len(samples)
    BY <2>1 DEF OlaInv
  <2> QED
    BY <2>1, <2>2, <2>3, <2>4 DEF OlaTypeOK
<1> QED
  BY <1>1, IInvHolds, PTL

-----------------------------------------------------------------------------
(* What the caller is handed, against the whole timeline.                  *)

\* The blocks pushed so far lie where the centres put them, and as many samples
\* are finalized as the last centre says, or the last block's support.
PlacedInv ==
    /\ ~tail => Placed(modes, terminal, index)
    /\ completed = IF index = 0 THEN 0
                   ELSE Centre(modes, index)
                          + (IF tail THEN RightHalf(modes, terminal, index) ELSE 0)

\* Until the tail is released the window is a cut of the timeline.
HeldInv == ~tail => Mirrors(modes, terminal, index)

\* What was handed out is the timeline of all blocks, those to come included.
HandedInv ==
    \A i \in 1 .. Len(pcm) :
        pcm[i] = WholeTimeline(modes, terminal, Len(modes), i - 1)

MirrorInv == IInv /\ PlacedInv /\ HeldInv /\ HandedInv

\* The overlap-add starts as an empty timeline.
LEMMA InitMirror == Init => MirrorInv
<1> SUFFICES ASSUME Init PROVE MirrorInv
  OBVIOUS
<1>1. IInv
  BY InitIInv
<1>2. /\ modes \in Seq(Modes) /\ terminal \in Modes /\ index = 0 /\ pcm = <<>>
      /\ OlaTypeOK /\ OlaInit /\ completed = 0
  BY <1>1 DEF Init, OlaInit, IInv, TypeOK
<1>3. Placed(modes, terminal, 0) /\ Mirrors(modes, terminal, 0)
  BY <1>2, InitMirrors
<1>4. PlacedInv /\ HeldInv
  BY <1>2, <1>3 DEF PlacedInv, HeldInv
<1>5. HandedInv
  BY <1>2 DEF HandedInv
<1> QED
  BY <1>1, <1>4, <1>5 DEF MirrorInv

\* A step that hands out the timeline behind what was handed out before keeps
\* the whole of it the timeline.
LEMMA HandedStep ==
    ASSUME IInv, HandedInv, TypeOK', HandsOut(modes, terminal), pcm' = pcm \o released',
           modes' = modes, terminal' = terminal
    PROVE  HandedInv'
<1> DEFINE Sample == Seq(Contributions)
           more == released'
           fresh == completed' - completed
           at(i) == WholeTimeline(modes, terminal, Len(modes), i)
<1>1. /\ pcm \in Seq(Sample) /\ more \in Seq(Sample)
      /\ completed \in Nat /\ fresh \in Nat /\ Len(pcm) = completed /\ Len(more) = fresh
  <2>1. completed \in Nat /\ completed' \in Nat /\ completed <= completed'
    BY DEF IInv, TypeOK, OlaTypeOK, HandsOut
  <2>2. fresh \in Nat
    BY <2>1, Gap
  <2> QED
    BY <2>1, <2>2 DEF IInv, TypeOK, HandsOut
<1>2. \A j \in 1 .. fresh : more[j] = at((completed + j) - 1)
  BY DEF HandsOut
<1>3. \A i \in 1 .. completed : pcm[i] = at(i - 1)
  BY <1>1 DEF HandedInv
<1> HIDE DEF Sample, more, fresh, at
<1>4. /\ Len(pcm \o more) = completed + fresh
      /\ \A i \in 1 .. completed + fresh :
            (pcm \o more)[i] = IF i <= completed THEN pcm[i] ELSE more[i - completed]
  BY <1>1, ConcatProperties
<1>5. ASSUME NEW i \in 1 .. completed + fresh PROVE (pcm \o more)[i] = at(i - 1)
  <2>1. i \in Nat /\ 1 <= i /\ i <= completed + fresh
    BY <1>1
  <2>2. CASE i <= completed
    BY <1>1, <1>3, <1>4, <2>1, <2>2
  <2>3. CASE ~(i <= completed)
    <3>1. PICK j \in 1 .. fresh : j = i - completed /\ (completed + j) - 1 = i - 1
      BY <1>1, <2>1, <2>3
    <3>2. (pcm \o more)[i] = more[j]
      BY <1>4, <2>3, <3>1
    <3> QED
      BY <1>2, <3>1, <3>2
  <2> QED
    BY <2>2, <2>3
<1>6. /\ Len(pcm') = completed + fresh
      /\ \A i \in 1 .. completed + fresh :
            pcm'[i] = WholeTimeline(modes, terminal, Len(modes), i - 1)
  BY <1>4, <1>5 DEF more, at
<1> QED
  BY <1>6 DEF HandedInv

\* A pushed block keeps the mirror.
LEMMA PushMirror == MirrorInv /\ PushBlock => MirrorInv'
<1> SUFFICES ASSUME MirrorInv, PushBlock,
                    NEW ms, ms = modes, NEW t, t = terminal, NEW k, k = index + 1
             PROVE  MirrorInv'
  OBVIOUS
<1>1. IInv /\ IInv' /\ TypeOK'
  BY StepIInv DEF MirrorInv, Next, IInv
<1>2. ~tail /\ OlaTypeOK /\ OlaInv
  BY <1>1 DEF PushBlock, IInv, TypeOK
<1>3. /\ ms \in Seq(Modes) /\ t \in Modes /\ k \in 1 .. Len(ms)
      /\ k - 1 = index /\ k \in Nat /\ k # 0
  <2>1. Len(ms) \in Nat /\ index \in 0 .. Len(ms)
    BY <1>1, LenProperties DEF IInv, TypeOK
  <2> QED
    BY <1>1, <2>1 DEF IInv, TypeOK, PushBlock
<1>4. Placed(ms, t, k - 1) /\ Mirrors(ms, t, k - 1)
  BY <1>2, <1>3 DEF MirrorInv, PlacedInv, HeldInv
<1>5. /\ OlaPush(k, ms[k], FollowingOf(ms, t, k)) /\ pcm' = pcm \o released'
      /\ modes' = ms /\ terminal' = t /\ index' = k /\ tail' = FALSE
  BY <1>2 DEF PushBlock
<1>6. Placed(ms, t, k)' /\ Mirrors(ms, t, k)' /\ HandsOut(ms, t)
  BY <1>2, <1>3, <1>4, <1>5, PushMirrors
<1>7. PlacedInv'
  <2>1. Centre(ms, k) \in Nat
    BY <1>3, CentreSteps
  <2>2. completed' = Centre(ms, k) + 0
    BY <1>3, <1>6, <2>1 DEF Placed
  <2> QED
    BY <1>3, <1>5, <1>6, <2>2 DEF PlacedInv, Placed
<1>8. HeldInv'
  BY <1>5, <1>6 DEF HeldInv, Mirrors
<1>9. HandedInv'
  BY <1>1, <1>5, <1>6, HandedStep DEF MirrorInv, HandsOut
<1> QED
  BY <1>1, <1>7, <1>8, <1>9 DEF MirrorInv

\* The released tail keeps the mirror.
LEMMA TailMirror == MirrorInv /\ ReleaseTail => MirrorInv'
<1> SUFFICES ASSUME MirrorInv, ReleaseTail,
                    NEW ms, ms = modes, NEW t, t = terminal, NEW n, n = index
             PROVE  MirrorInv'
  OBVIOUS
<1>1. IInv /\ IInv' /\ TypeOK'
  BY StepIInv DEF MirrorInv, Next, IInv
<1>2. ~tail /\ OlaTypeOK /\ OlaInv /\ OlaFinish /\ n = Len(ms)
  BY <1>1 DEF ReleaseTail, IInv, TypeOK
<1>3. ms \in Seq(Modes) /\ t \in Modes
  BY <1>1 DEF IInv, TypeOK
<1>4. Placed(ms, t, Len(ms)) /\ Mirrors(ms, t, Len(ms))
  BY <1>2 DEF MirrorInv, PlacedInv, HeldInv
<1>5. /\ modes' = ms /\ terminal' = t /\ index' = n /\ tail' = TRUE
      /\ pcm' = pcm \o released'
  BY DEF ReleaseTail
<1>6. /\ completed' = IF n = 0 THEN 0 ELSE Centre(ms, n) + RightHalf(ms, t, n)
      /\ HandsOut(ms, t)
  BY <1>2, <1>3, <1>4, FinishMirrors
<1>7. PlacedInv' /\ HeldInv'
  BY <1>5, <1>6 DEF PlacedInv, HeldInv
<1>8. HandedInv'
  BY <1>1, <1>5, <1>6, HandedStep DEF MirrorInv, HandsOut
<1> QED
  BY <1>1, <1>7, <1>8 DEF MirrorInv

\* A step that changes nothing keeps the mirror.
LEMMA StutterMirror == MirrorInv /\ UNCHANGED vars => MirrorInv'
<1> SUFFICES ASSUME MirrorInv, UNCHANGED vars PROVE MirrorInv'
  OBVIOUS
<1>1. IInv'
  BY StepIInv DEF MirrorInv
<1>2. /\ samples' = samples /\ start' = start /\ previous' = previous /\ base' = base
      /\ completed' = completed /\ supportEnd' = supportEnd
      /\ modes' = modes /\ terminal' = terminal /\ index' = index /\ tail' = tail
      /\ pcm' = pcm
  BY DEF vars, olaVars
<1>3. PlacedInv'
  BY <1>2 DEF MirrorInv, PlacedInv, Placed
<1>4. ASSUME NEW p PROVE Held(p)' = Held(p)
  BY <1>2 DEF Held
<1>5. HeldInv'
  BY <1>2, <1>4 DEF MirrorInv, HeldInv, Mirrors
<1>6. HandedInv'
  BY <1>2 DEF MirrorInv, HandedInv
<1> QED
  BY <1>1, <1>3, <1>5, <1>6 DEF MirrorInv

\* The window mirrors the whole timeline for every mode sequence.
THEOREM MirrorHolds == Spec => []MirrorInv
<1>1. MirrorInv /\ [Next]_vars => MirrorInv'
  BY PushMirror, TailMirror, StutterMirror DEF Next
<1> QED
  BY <1>1, InitMirror, PTL DEF Spec

\* The samples handed out are those of the blocks pushed so far, too.
LEMMA HandedSoFar == MirrorInv => MatchesWholeTimeline
<1> SUFFICES ASSUME MirrorInv, NEW i \in 1 .. Len(pcm)
             PROVE  pcm[i] = WholeTimeline(modes, terminal, index, i - 1)
  BY DEF MatchesWholeTimeline
<1>1. /\ modes \in Seq(Modes) /\ terminal \in Modes /\ Len(modes) \in Nat
      /\ index \in 0 .. Len(modes) /\ Len(pcm) = completed /\ completed \in Nat
      /\ tail => index = Len(modes)
  BY LenProperties DEF MirrorInv, IInv, TypeOK, OlaTypeOK
<1>2. pcm[i] = WholeTimeline(modes, terminal, Len(modes), i - 1)
  BY DEF MirrorInv, HandedInv
<1>3. CASE tail
  BY <1>1, <1>2, <1>3
<1>4. CASE ~tail
  <2>1. index # 0
    BY <1>1 DEF MirrorInv, PlacedInv
  <2>2. index \in 1 .. Len(modes) /\ i - 1 \in Nat /\ Len(modes) \in index .. Len(modes)
    BY <1>1, <2>1
  <2>3. i - 1 < Centre(modes, index)
    <3>1. completed = Centre(modes, index)
      BY <1>4, <2>1 DEF MirrorInv, PlacedInv, Placed
    <3> QED
      BY <1>1, <3>1
  <2> QED
    BY <1>1, <1>2, <2>2, <2>3, TimelineSettled
<1> QED
  BY <1>3, <1>4

\* Releasing the window's front loses nothing and no later block reaches a
\* sample that was handed over (transform.rs:752-756): the samples handed out
\* are those of the whole timeline, for every mode sequence of any length.
THEOREM OverlapAddIsTimeline == Spec => []MatchesWholeTimeline
<1> QED
  BY HandedSoFar, MirrorHolds, PTL

\* Before the tail the caller holds exactly the samples before the centre of
\* the last block pushed; the tail adds that block's right half.
THEOREM DeliversUpToCentre == Spec => []DeliveredUpToCentre
<1>1. ASSUME MirrorInv PROVE DeliveredUpToCentre
  <2>1. index \in Nat
    <3>1. Len(modes) \in Nat
      BY <1>1, LenProperties DEF MirrorInv, IInv, TypeOK
    <3> QED
      BY <1>1, <3>1 DEF MirrorInv, IInv, TypeOK
  <2> SUFFICES ASSUME index > 0
               PROVE  Len(pcm) = Centre(modes, index)
                         + (IF tail THEN RightHalf(modes, terminal, index) ELSE 0)
    BY DEF DeliveredUpToCentre
  <2>2. index # 0
    BY <2>1
  <2> QED
    BY <1>1, <2>2 DEF MirrorInv, IInv, PlacedInv
<1> QED
  BY <1>1, MirrorHolds, PTL

\* Between the first and the last centre every sample is lapped, whatever the
\* mode sequence (transform.rs:581-585 and 854-857).
THEOREM LappedAllAlong == Spec => []LappedBetweenCentres
<1>1. ASSUME MirrorInv PROVE LappedBetweenCentres
  <2> SUFFICES ASSUME NEW i \in 1 .. Len(pcm), i <= Centre(modes, index)
               PROVE  Lapped(pcm[i])
    BY DEF LappedBetweenCentres
  <2>1. /\ modes \in Seq(Modes) /\ terminal \in Modes /\ Len(modes) \in Nat
        /\ index \in 0 .. Len(modes) /\ Len(pcm) = completed /\ completed \in Nat
    BY <1>1, LenProperties DEF MirrorInv, IInv, TypeOK, OlaTypeOK
  <2>2. index # 0
    BY <1>1, <2>1 DEF MirrorInv, PlacedInv
  <2>3. index \in 1 .. Len(modes) /\ i - 1 \in Nat
    BY <2>1, <2>2
  <2>4. Centre(modes, index) \in Nat
    BY <2>1, <2>3, CentreSteps
  <2>5. i - 1 < Centre(modes, index)
    BY <2>1, <2>4
  <2>6. pcm[i] = WholeTimeline(modes, terminal, index, i - 1)
    BY <1>1, HandedSoFar DEF MatchesWholeTimeline
  <2> QED
    BY <2>1, <2>3, <2>5, <2>6, TimelineLapped
<1> QED
  BY <1>1, MirrorHolds, PTL

=============================================================================
