------------------------- MODULE SynthesisOla_proofs ------------------------
(***************************************************************************)
(* The overlap-add's window keeps its shape through every push and finish, *)
(* and holds at every position the contributions of the lapped timeline of *)
(* the blocks pushed, for every pair of block sizes and every order of     *)
(* modes.  The drivers' proofs (SynthesizeSequence_proofs and              *)
(* DecodeSession_proofs) cite these lemmas.                                *)
(***************************************************************************)
EXTENDS SynthesisOla, LappedTimeline, NaturalLemmas, SequenceTheorems, TLAPS

\* A gap between two naturals, stated over constants so that a leaf about a
\* variable and its next value needs no arithmetic of its own.
LEMMA Gap ==
    \A low, high \in Nat :
        low <= high => high - low \in Nat /\ low + (high - low) = high
  OBVIOUS

\* Block sizes as multiples of four, which is all the arithmetic below needs.
LEMMA Quarters ==
    \E s, q \in Nat : /\ 0 < s /\ s < q
                      /\ Short = 4 * s /\ Long = 4 * q
                      /\ Origin = 2 * q
                      /\ \A mode \in Modes :
                            BlockSize(mode) = 4 * (IF mode = 0 THEN s ELSE q)
<1> DEFINE s == Short \div 4
           q == Long \div 4
<1>1. s \in Nat /\ q \in Nat /\ Short = 4 * s /\ Long = 4 * q
  BY BlockSizesAssumption
<1>2. 0 < s /\ s < q
  BY <1>1, BlockSizesAssumption
<1>3. Origin = 2 * q
  BY <1>1 DEF Origin
<1>4. \A mode \in Modes : BlockSize(mode) = 4 * (IF mode = 0 THEN s ELSE q)
  BY <1>1 DEF BlockSize, Modes
<1> QED
  BY <1>1, <1>2, <1>3, <1>4

\* The window of a block lies inside the block, its two slopes meet a flat
\* part (possibly empty), and each slope is half of the size it is named for.
LEMMA SpansShape ==
    ASSUME NEW prev \in Modes, NEW current \in Modes, NEW following \in Modes,
           NEW s, s = Spans(prev, current, following)
    PROVE  /\ s.n = BlockSize(current) /\ s.n \in Nat
           /\ s.left \in Nat /\ s.right \in Nat
           /\ s.leftBegin \in Nat /\ s.leftEnd \in Nat
           /\ s.rightBegin \in Nat /\ s.rightEnd \in Nat
           /\ s.leftEnd = s.leftBegin + s.left \div 2
           /\ s.rightEnd = s.rightBegin + s.right \div 2
           /\ s.leftEnd <= s.rightBegin
           /\ s.rightEnd <= s.n
<1>1. PICK a, q \in Nat : /\ 0 < a /\ a < q
                          /\ Short = 4 * a /\ Long = 4 * q
  BY Quarters
<1>2. CASE current = 0
  BY <1>1, <1>2 DEF Spans, BlockSize, Modes
<1>3. CASE current = 1
  <2>1. CASE prev = 0 /\ following = 0
    BY <1>1, <1>3, <2>1 DEF Spans, BlockSize, Modes
  <2>2. CASE prev = 0 /\ following = 1
    BY <1>1, <1>3, <2>2 DEF Spans, BlockSize, Modes
  <2>3. CASE prev = 1 /\ following = 0
    BY <1>1, <1>3, <2>3 DEF Spans, BlockSize, Modes
  <2>4. CASE prev = 1 /\ following = 1
    BY <1>1, <1>3, <2>4 DEF Spans, BlockSize, Modes
  <2> QED
    BY <2>1, <2>2, <2>3, <2>4 DEF Modes
<1> QED
  BY <1>2, <1>3 DEF Modes

\* What a windowed block adds is a sequence of contributions.
LEMMA WindowedType ==
    ASSUME NEW s, NEW block \in Nat, NEW i \in Nat,
           s.left \in Nat, s.right \in Nat,
           s.leftBegin \in Nat, s.leftEnd \in Nat,
           s.rightBegin \in Nat, s.rightEnd \in Nat,
           s.rightEnd = s.rightBegin + s.right \div 2
    PROVE  Windowed(block, s, i) \in Seq(Contributions)
<1> DEFINE fall == s.right \div 2 - 1 - (i - s.rightBegin)
<1>1. CASE i < s.leftBegin \/ i >= s.rightEnd
  BY <1>1 DEF Windowed
<1>2. CASE ~(i < s.leftBegin \/ i >= s.rightEnd)
  <2>1. CASE i < s.leftEnd
    <3>1. i - s.leftBegin \in Nat
      BY <1>2
    <3>2. Contribution(block, "rise", s.left, i - s.leftBegin) \in Contributions
      BY <3>1 DEF Contribution, Contributions
    <3>3. Windowed(block, s, i)
            = <<Contribution(block, "rise", s.left, i - s.leftBegin)>>
      BY <1>2, <2>1 DEF Windowed
    <3> QED
      BY <3>2, <3>3
  <2>2. CASE ~(i < s.leftEnd) /\ i >= s.rightBegin
    <3>1. fall \in Nat
      BY <1>2, <2>2
    <3>2. Contribution(block, "fall", s.right, fall) \in Contributions
      BY <3>1 DEF Contribution, Contributions
    <3>3. Windowed(block, s, i) = <<Contribution(block, "fall", s.right, fall)>>
      BY <1>2, <2>2 DEF Windowed
    <3> QED
      BY <3>2, <3>3
  <2>3. CASE ~(i < s.leftEnd) /\ ~(i >= s.rightBegin)
    <3>1. Contribution(block, "flat", 0, 0) \in Contributions
      BY DEF Contribution, Contributions
    <3>2. Windowed(block, s, i) = <<Contribution(block, "flat", 0, 0)>>
      BY <1>2, <2>3 DEF Windowed
    <3> QED
      BY <3>1, <3>2
  <2> QED
    BY <2>1, <2>2, <2>3
<1> QED
  BY <1>1, <1>2

\* A function on 1..n is a sequence of length n.
LEMMA LenOfFunction ==
    ASSUME NEW S, NEW n \in Nat, NEW f \in [1..n -> S]
    PROVE  f \in Seq(S) /\ Len(f) = n
<1>1. f \in Seq(S)
  BY SeqDef
<1>2. Len(f) \in Nat /\ DOMAIN f = 1 .. Len(f)
  BY <1>1, LenProperties
<1> QED
  BY <1>1, <1>2

-----------------------------------------------------------------------------

\* The initial window is all of the overlap-add's promises.
LEMMA OlaInitInv ==
    ASSUME OlaInit
    PROVE  OlaTypeOK /\ OlaInv
<1>1. PICK a, q \in Nat : 0 < a /\ a < q /\ Long = 4 * q /\ Origin = 2 * q
  BY Quarters
<1>2. samples \in [1 .. 2 * q -> Seq(Contributions)]
  BY <1>1 DEF OlaInit
<1>3. samples \in Seq(Seq(Contributions)) /\ Len(samples) = 2 * q
  BY <1>1, <1>2, LenOfFunction
<1>4. OlaTypeOK
  BY <1>3 DEF OlaInit, OlaTypeOK, Modes
<1>5. OlaInv
  BY <1>1, <1>3 DEF OlaInit, OlaInv
<1> QED
  BY <1>4, <1>5

\* The arithmetic of one push: where the block lies, what is dropped and how
\* long the window becomes.
LEMMA PushGeometry ==
    ASSUME OlaTypeOK, OlaInv, NEW current \in Modes,
           NEW held, held = Greatest(Len(samples) - Droppable,
                                     (Position(current) + BlockSize(current))
                                        - (start + Droppable))
    PROVE  /\ Droppable \in Nat /\ Droppable <= Len(samples)
           /\ start + Droppable = base
           /\ Position(current) \in Nat /\ base <= Position(current)
           /\ held \in Nat /\ Origin <= held /\ held <= Long
           /\ Position(current) + BlockSize(current) <= base + held
<1>1. PICK a, q \in Nat : /\ 0 < a /\ a < q
                          /\ Short = 4 * a /\ Long = 4 * q /\ Origin = 2 * q
                          /\ \A mode \in Modes :
                                BlockSize(mode) = 4 * (IF mode = 0 THEN a ELSE q)
  BY Quarters
<1>2. Len(samples) \in Nat
  BY LenProperties DEF OlaTypeOK
<1>3. Droppable = base - start
  BY <1>1, <1>2 DEF OlaTypeOK, OlaInv, Droppable, Greatest, Least
<1>4. /\ Droppable \in Nat /\ Droppable <= Len(samples)
      /\ start + Droppable = base
  BY <1>1, <1>2, <1>3 DEF OlaTypeOK, OlaInv
<1>5. BlockSize(current) = 4 * a \/ BlockSize(current) = 4 * q
  BY <1>1
<1>6. /\ BlockSize(current) \in Nat
      /\ Position(current) \in Nat /\ base <= Position(current)
      /\ Position(current) + BlockSize(current) <= base + 4 * q
      /\ base + 2 * q <= Position(current) + BlockSize(current)
  BY <1>1, <1>5 DEF Position, OlaTypeOK
<1> DEFINE kept == Len(samples) - Droppable
           grown == (Position(current) + BlockSize(current)) - (start + Droppable)
<1>7. kept \in Nat /\ kept <= 4 * q
  BY <1>1, <1>2, <1>3, <1>4 DEF OlaTypeOK, OlaInv
<1>8. /\ grown \in Nat /\ 2 * q <= grown /\ grown <= 4 * q
      /\ Position(current) + BlockSize(current) = base + grown
  <2>1. grown = (Position(current) + BlockSize(current)) - base
    BY <1>4
  <2> QED
    BY <1>1, <1>6, <2>1 DEF OlaTypeOK
<1>9. held = IF kept < grown THEN grown ELSE kept
  BY DEF Greatest
<1> HIDE DEF kept, grown
<1>10. /\ held \in Nat /\ 2 * q <= held /\ held <= 4 * q
       /\ Position(current) + BlockSize(current) <= base + held
  BY <1>1, <1>7, <1>8, <1>9 DEF OlaTypeOK
<1> QED
  BY <1>1, <1>4, <1>6, <1>10

\* The window a push adds into is a sequence of samples.
LEMMA RetainedType ==
    ASSUME OlaTypeOK, Droppable \in Nat, NEW end \in Nat, NEW width \in Nat,
           width = Greatest(Len(samples) - Droppable,
                            end - (start + Droppable))
    PROVE  Retained(end) \in [1..width -> Seq(Contributions)]
<1>1. Retained(end) = [i \in 1..width |-> IF i <= Len(samples) - Droppable
                                         THEN samples[i + Droppable] ELSE <<>>]
  BY DEF Retained
<1>2. Len(samples) \in Nat /\ samples \in [1 .. Len(samples) -> Seq(Contributions)]
  BY LenProperties DEF OlaTypeOK
<1>3. \A i \in 1..width : i <= Len(samples) - Droppable
                            => samples[i + Droppable] \in Seq(Contributions)
  BY <1>2
<1>4. <<>> \in Seq(Contributions)
  BY EmptySeq
<1> QED
  BY <1>1, <1>3, <1>4

\* Cutting a piece out of a sequence.
LEMMA Cutting ==
    ASSUME NEW T, NEW seq \in Seq(T), NEW m \in 1 .. Len(seq) + 1,
           NEW n \in 0 .. Len(seq), NEW size \in Nat, n - m + 1 = size
    PROVE  SubSeq(seq, m, n) \in Seq(T) /\ Len(SubSeq(seq, m, n)) = size
<1>1. Len(seq) \in Nat /\ \A i \in m .. n : seq[i] \in T
  BY LenProperties
<1>2. SubSeq(seq, m, n) \in Seq(T)
      /\ Len(SubSeq(seq, m, n)) = IF m <= n THEN n - m + 1 ELSE 0
  BY <1>1, SubSeqProperties
<1> QED
  BY <1>1, <1>2

\* One push keeps the window's shape and releases exactly the samples between
\* the two finalized frontiers.
LEMMA OlaPushInv ==
    ASSUME OlaTypeOK, OlaInv, NEW block \in Nat, NEW current \in Modes,
           NEW following \in Modes, OlaPush(block, current, following)
    PROVE  /\ OlaTypeOK' /\ OlaInv'
           /\ completed <= completed'
           /\ Len(samples') <= Long
           /\ Len(released') = completed' - completed
<1> DEFINE s == Spans(previous, current, following)
           position == Position(current)
           window == Retained(position + s.n)
           first == start + Droppable
           width == Greatest(Len(samples) - Droppable,
                            (position + BlockSize(current)) - first)
           Wider(i) == LET offset == first + i - 1 - position
                       IN  IF offset \in 0 .. s.n - 1
                           THEN window[i] \o Windowed(block, s, offset)
                           ELSE window[i]
<1>1. PICK a, q \in Nat : /\ 0 < a /\ a < q
                          /\ Short = 4 * a /\ Long = 4 * q /\ Origin = 2 * q
                          /\ \A mode \in Modes :
                                BlockSize(mode) = 4 * (IF mode = 0 THEN a ELSE q)
  BY Quarters
<1>2. /\ s.n = BlockSize(current) /\ s.n \in Nat
      /\ s.left \in Nat /\ s.right \in Nat
      /\ s.leftBegin \in Nat /\ s.leftEnd \in Nat
      /\ s.rightBegin \in Nat /\ s.rightEnd \in Nat
      /\ s.rightEnd = s.rightBegin + s.right \div 2
      /\ s.rightEnd <= s.n
  BY SpansShape DEF OlaTypeOK
<1>3. /\ Droppable \in Nat /\ Droppable <= Len(samples)
      /\ first = base
      /\ position \in Nat /\ base <= position
      /\ width \in Nat /\ Origin <= width /\ width <= Long
      /\ position + BlockSize(current) <= base + width
  BY PushGeometry
<1>4. window \in [1 .. width -> Seq(Contributions)]
  <2>1. (position + s.n) - (start + Droppable) = (position + BlockSize(current)) - first
    BY <1>2
  <2>2. width = Greatest(Len(samples) - Droppable,
                         (position + s.n) - (start + Droppable))
    BY <2>1
  <2>3. position + s.n \in Nat
    BY <1>2, <1>3
  <2> HIDE DEF s, position, width
  <2> QED
    BY <1>3, <2>2, <2>3, RetainedType
<1>5. samples' = [i \in 1..width |-> Wider(i)]
  <2>1. DOMAIN window = 1..width
    BY <1>4
  <2> QED
    BY <2>1 DEF OlaPush
<1>6. ASSUME NEW i \in 1..width
      PROVE  Wider(i) \in Seq(Contributions)
  <2>1. window[i] \in Seq(Contributions)
    BY <1>4
  <2>2. CASE first + i - 1 - position \in 0 .. s.n - 1
    <3>1. first + i - 1 - position \in Nat
      BY <2>2
    <3>2. Windowed(block, s, first + i - 1 - position) \in Seq(Contributions)
      BY <1>2, <3>1, WindowedType
    <3> QED
      BY <2>1, <2>2, <3>2, ConcatProperties
  <2>3. CASE first + i - 1 - position \notin 0 .. s.n - 1
    BY <2>1, <2>3
  <2> QED
    BY <2>2, <2>3
<1>7. samples' \in Seq(Seq(Contributions)) /\ Len(samples') = width
  <2> HIDE DEF Wider, width
  <2>1. samples' \in [1..width -> Seq(Contributions)]
    BY <1>5, <1>6
  <2> QED
    BY <1>3, <2>1, LenOfFunction
<1>8. /\ start' = base
      /\ completed' = base
      /\ supportEnd' = position + s.rightEnd
      /\ previous' = current
      /\ base' = base + (BlockSize(current) + BlockSize(following)) \div 4
  <2>1. Greatest(completed, base) = base
    BY DEF Greatest, OlaInv, OlaTypeOK
  <2> QED
    BY <1>2, <1>3, <2>1 DEF OlaPush
<1>9. /\ base' \in Nat /\ base < base' /\ base' <= base + Origin
  <2>1. BlockSize(current) = 4 * a \/ BlockSize(current) = 4 * q
    BY <1>1
  <2>2. BlockSize(following) = 4 * a \/ BlockSize(following) = 4 * q
    BY <1>1
  <2> QED
    BY <1>1, <1>8, <2>1, <2>2 DEF OlaTypeOK
<1>10. OlaInv'
  <2> HIDE DEF s, position, width, first
  <2>1. Origin \in Nat /\ Long \in Nat
    BY <1>1
  <2>2. start' <= base' /\ completed' <= base' /\ base' <= Origin + completed'
    BY <1>8, <1>9, <2>1 DEF OlaTypeOK
  <2>3. Origin + completed' <= start' + Len(samples')
    BY <1>3, <1>7, <1>8, <2>1 DEF OlaTypeOK
  <2>4. supportEnd' <= start' + Len(samples')
    BY <1>2, <1>3, <1>7, <1>8 DEF OlaTypeOK
  <2>5. start' + Len(samples') <= base' + Long
    BY <1>3, <1>7, <1>8, <1>9, <2>1 DEF OlaTypeOK
  <2> QED
    BY <2>2, <2>3, <2>4, <2>5 DEF OlaInv
<1>11. /\ released' \in Seq(Seq(Contributions))
       /\ Len(released') = completed' - completed
  <2>1. released' = SubSeq(samples', Origin + completed - start' + 1,
                                     Origin + completed' - start')
    BY DEF OlaPush, ReleasedSince
  <2>2. /\ Origin + completed - start' + 1 \in 1 .. Len(samples') + 1
        /\ Origin + completed' - start' \in 0 .. Len(samples')
    BY <1>1, <1>3, <1>7, <1>8 DEF OlaInv, OlaTypeOK
  <2>3. completed' - completed \in Nat
        /\ (Origin + completed' - start') - (Origin + completed - start' + 1) + 1
             = completed' - completed
    BY <1>1, <1>8 DEF OlaInv, OlaTypeOK
  <2> HIDE DEF width, s, position, window, first, Wider
  <2> QED
    BY ONLY <1>7, <2>1, <2>2, <2>3, Cutting
<1>12. OlaTypeOK'
  <2> HIDE DEF s, position, width, first
  <2> QED
    <3>1. supportEnd' \in Nat
      BY <1>2, <1>3, <1>8
    <3>2. /\ start' \in Nat /\ base' \in Nat /\ completed' \in Nat
          /\ previous' \in Modes
      BY <1>8, <1>9 DEF OlaTypeOK
    <3> QED
      BY <1>7, <1>11, <3>1, <3>2 DEF OlaTypeOK
<1> QED
  BY <1>3, <1>7, <1>8, <1>10, <1>11, <1>12 DEF OlaInv

\* Releasing the tail hands out the rest of the last block's support, all of
\* which the window holds.
LEMMA OlaFinishInv ==
    ASSUME OlaTypeOK, OlaInv, OlaFinish
    PROVE  /\ OlaTypeOK'
           /\ samples' = samples
           /\ completed <= completed'
           /\ Len(released') = completed' - completed
<1>1. PICK q \in Nat : Long = 4 * q /\ Origin = 2 * q
  BY Quarters
<1>2. Len(samples) \in Nat /\ samples \in [1 .. Len(samples) -> Seq(Contributions)]
  BY LenProperties DEF OlaTypeOK
<1>3. /\ completed' \in Nat /\ completed <= completed'
      /\ Origin + completed' <= start + Len(samples)
  BY <1>1, <1>2 DEF OlaFinish, Greatest, OlaTypeOK, OlaInv
<1>4. /\ released' \in Seq(Seq(Contributions))
      /\ Len(released') = completed' - completed
  <2> DEFINE first == Origin + completed - start + 1
             last == Origin + completed' - start
  <2>1. released' = SubSeq(samples, first, last)
    BY DEF OlaFinish, ReleasedSince
  <2>2. /\ Origin \in Nat /\ start \in Nat /\ completed \in Nat
        /\ start <= Origin + completed
    BY <1>1 DEF OlaTypeOK, OlaInv
  <2>3. first \in Int /\ last \in Int /\ 1 <= first /\ last <= Len(samples)
    BY <1>2, <1>3, <2>2 DEF OlaTypeOK
  <2>4. last - first = (completed' - completed) - 1
    BY <1>3, <2>2
  <2> HIDE DEF first, last
  <2>5. \A i \in first .. last : samples[i] \in Seq(Contributions)
    BY <1>2, <2>3
  <2>6. /\ SubSeq(samples, first, last) \in Seq(Seq(Contributions))
        /\ Len(SubSeq(samples, first, last))
             = IF first <= last THEN last - first + 1 ELSE 0
    BY <2>3, <2>5, SubSeqProperties
  <2>7. completed' - completed \in Nat
    BY <1>3, <2>2, Gap
  <2> QED
    BY <2>1, <2>3, <2>4, <2>6, <2>7
<1>5. OlaTypeOK'
  BY <1>3, <1>4 DEF OlaFinish, OlaTypeOK
<1> QED
  BY <1>3, <1>4, <1>5 DEF OlaFinish

-----------------------------------------------------------------------------
(* The recursive definitions of the timeline. *)

\* The centres unfold from the first block on.
LEMMA CentreSteps ==
    ASSUME NEW ms \in Seq(Modes)
    PROVE  \A k \in 1 .. Len(ms) :
              /\ Centre(ms, k) \in Nat
              /\ k = 1 => Centre(ms, k) = 0
              /\ k # 1 => Centre(ms, k) = Centre(ms, k - 1)
                             + (BlockSize(ms[k - 1]) + BlockSize(ms[k])) \div 4
<1> DEFINE n == Len(ms)
           gap(j) == (BlockSize(ms[j - 1]) + BlockSize(ms[j])) \div 4
           unfolds(k, g) == g = [j \in 0 .. k |-> IF j <= 1 THEN 0 ELSE g[j - 1] + gap(j)]
<1>1. n \in Nat
  BY LenProperties
<1>2. ASSUME NEW j \in 2 .. n PROVE gap(j) \in Nat
  <2>1. ms[j - 1] \in Modes /\ ms[j] \in Modes
    BY <1>1, ElementOfSeq
  <2> QED
    BY <2>1, BlockSizesAssumption DEF BlockSize
<1>3. ASSUME NEW k \in 0 .. n PROVE Centre(ms, k) = (CHOOSE g : unfolds(k, g))[k]
  BY DEF Centre
<1> HIDE DEF gap
<1> DEFINE step == [k \in 1 .. n |-> [v \in Nat |-> IF k = 1 THEN 0 ELSE v + gap(k)]]
<1>4. step \in [1 .. n -> [Nat -> Nat]]
  <2>1. ASSUME NEW k \in 1 .. n, NEW v \in Nat
        PROVE  (IF k = 1 THEN 0 ELSE v + gap(k)) \in Nat
    <3>1. k # 1 => k \in 2 .. n
      BY <1>1
    <3> QED
      BY <1>2, <3>1
  <2> QED
    BY <2>1
<1>5. PICK c \in [0 .. n -> Nat] : c[0] = 0 /\ \A k \in 1 .. n : c[k] = step[k][c[k - 1]]
  <2>1. Recursion(Nat, 0, n, step)
    BY <1>1, <1>4 DEF Recursion
  <2> HIDE DEF step
  <2>2. PICK c : Unfolds(Nat, 0, n, step, c)
    BY <2>1, NatRecursion, Zenon
  <2> QED
    BY <2>2 DEF Unfolds
<1>6. \A k \in 1 .. n : c[k] = IF k = 1 THEN 0 ELSE c[k - 1] + gap(k)
  <2> SUFFICES ASSUME NEW k \in 1 .. n PROVE c[k] = IF k = 1 THEN 0 ELSE c[k - 1] + gap(k)
    OBVIOUS
  <2>1. k - 1 \in 0 .. n /\ c[k - 1] \in Nat
    BY <1>1
  <2> QED
    BY <1>5, <2>1
<1>7. ASSUME NEW k \in 0 .. n PROVE Centre(ms, k) = c[k]
  <2> DEFINE w == [j \in 0 .. k |-> c[j]]
  <2>1. ASSUME NEW j \in 0 .. k
        PROVE  w[j] = IF j <= 1 THEN 0 ELSE w[j - 1] + gap(j)
    <3>1. CASE j = 0
      BY <1>5, <3>1
    <3>2. CASE j # 0
      <4>1. j \in 1 .. n /\ j - 1 \in 0 .. k /\ (j <= 1 <=> j = 1)
        BY <1>1, <3>2
      <4> QED
        BY <1>6, <4>1
    <3> QED
      BY <3>1, <3>2
  <2>2. unfolds(k, w)
    BY <2>1
  <2>3. ASSUME NEW g, unfolds(k, g) PROVE g[k] = c[k]
    <3> DEFINE agrees == {m \in Nat : m <= k => g[m] = c[m]}
    <3>1. 0 \in agrees
      BY <1>5, <2>3
    <3>2. ASSUME NEW m \in Nat, m \in agrees PROVE m + 1 \in agrees
      <4> SUFFICES ASSUME m + 1 <= k PROVE g[m + 1] = c[m + 1]
        OBVIOUS
      <4>1. m + 1 \in 0 .. k /\ m + 1 \in 1 .. n /\ (m + 1) - 1 = m /\ m <= k
            /\ (m + 1 <= 1 <=> m + 1 = 1)
        BY <1>1
      <4>2. g[m] = c[m]
        BY <3>2, <4>1
      <4>3. g[m + 1] = IF m + 1 <= 1 THEN 0 ELSE g[m] + gap(m + 1)
        BY <2>3, <4>1
      <4> QED
        BY <1>6, <4>1, <4>2, <4>3
    <3> HIDE DEF agrees
    <3>3. k \in agrees
      BY <1>1, <3>1, <3>2, NatInduct
    <3> QED
      BY <1>1, <3>3 DEF agrees
  <2> QED
    BY <1>3, <2>2, <2>3
<1> QED
  <2> SUFFICES ASSUME NEW k \in 1 .. n
               PROVE  /\ Centre(ms, k) \in Nat
                      /\ k = 1 => Centre(ms, k) = 0
                      /\ k # 1 => Centre(ms, k) = Centre(ms, k - 1) + gap(k)
    BY DEF gap
  <2>1. k \in 0 .. n /\ k - 1 \in 0 .. n
    BY <1>1
  <2> QED
    BY <1>1, <1>6, <1>7, <2>1

\* Flattening unfolds from the last sequence on.
LEMMA FlattenAppend ==
    ASSUME NEW S, NEW s \in Seq(Seq(S)), NEW e \in Seq(S)
    PROVE  /\ FlattenSeq(s) \in Seq(S)
           /\ FlattenSeq(Append(s, e)) = FlattenSeq(s) \o e
           /\ s = <<>> => FlattenSeq(s) = <<>>
<1> DEFINE unfolds(t, g) ==
             g = [i \in 1 .. Len(t) |-> IF i = 1 THEN t[i] ELSE g[i - 1] \o t[i]]
           all == Append(s, e)
           n == Len(s)
<1>1. /\ n \in Nat /\ all \in Seq(Seq(S)) /\ Len(all) = n + 1 /\ all[n + 1] = e
      /\ \A i \in 1 .. n : all[i] = s[i]
  BY LenProperties, AppendProperties
<1> HIDE DEF all
<1>2. \A t \in Seq(Seq(S)) : Len(t) # 0 => FlattenSeq(t) = (CHOOSE g : unfolds(t, g))[Len(t)]
  BY DEF FlattenSeq
<1>3. Len(s) = 0 => FlattenSeq(s) = s
  BY DEF FlattenSeq
<1> DEFINE step == [k \in 1 .. n + 1 |-> [v \in Seq(S) |-> v \o all[k]]]
<1>4. step \in [1 .. n + 1 -> [Seq(S) -> Seq(S)]]
  <2>1. ASSUME NEW k \in 1 .. n + 1, NEW v \in Seq(S) PROVE v \o all[k] \in Seq(S)
    <3>1. all[k] \in Seq(S)
      BY <1>1, ElementOfSeq
    <3> QED
      BY <3>1, ConcatProperties
  <2> QED
    BY <2>1
<1>5. PICK c \in [0 .. n + 1 -> Seq(S)] :
         c[0] = <<>> /\ \A k \in 1 .. n + 1 : c[k] = step[k][c[k - 1]]
  <2>1. Recursion(Seq(S), <<>>, n + 1, step)
    BY <1>1, <1>4, EmptySeq DEF Recursion
  <2> HIDE DEF step
  <2>2. PICK c : Unfolds(Seq(S), <<>>, n + 1, step, c)
    BY <2>1, NatRecursion, Zenon
  <2> QED
    BY <2>2 DEF Unfolds
<1>6. \A k \in 1 .. n + 1 : c[k] = c[k - 1] \o all[k]
  <2> SUFFICES ASSUME NEW k \in 1 .. n + 1 PROVE c[k] = c[k - 1] \o all[k]
    OBVIOUS
  <2>1. k - 1 \in 0 .. n + 1
    <3>1. n \in Nat
      BY <1>1
    <3> QED
      BY <3>1
  <2>2. c[k - 1] \in Seq(S)
    BY <1>5, <2>1
  <2> QED
    BY <1>5, <2>2
<1> HIDE DEF step
<1>7. ASSUME NEW t \in Seq(Seq(S)), Len(t) \in 1 .. n + 1,
             \A i \in 1 .. Len(t) : t[i] = all[i]
      PROVE  FlattenSeq(t) = c[Len(t)]
  <2> DEFINE m == Len(t)
             w == [j \in 1 .. m |-> c[j]]
  <2>1. ASSUME NEW j \in 1 .. m
        PROVE  w[j] = IF j = 1 THEN t[j] ELSE w[j - 1] \o t[j]
    <3>1. CASE j = 1
      <4>1. all[1] \in Seq(S)
        BY <1>1, ElementOfSeq
      <4>2. c[1] = <<>> \o all[1]
        <5>1. 1 \in 1 .. n + 1 /\ 1 - 1 = 0
          BY <1>1
        <5>2. c[1] = c[1 - 1] \o all[1]
          BY <1>6, <5>1
        <5> QED
          BY <1>5, <5>1, <5>2
      <4> QED
        BY <1>7, <3>1, <4>1, <4>2, ConcatEmptySeq
    <3>2. CASE j # 1
      <4>1. j \in 1 .. n + 1 /\ j - 1 \in 1 .. m
        BY <1>1, <1>7, <3>2
      <4> QED
        BY <1>6, <1>7, <3>2, <4>1
    <3> QED
      BY <3>1, <3>2
  <2>2. unfolds(t, w)
    BY <2>1
  <2>3. ASSUME NEW g, unfolds(t, g) PROVE g[m] = c[m]
    <3> DEFINE agrees == {j \in Nat : j \in 1 .. m => g[j] = c[j]}
    <3>1. 0 \in agrees
      OBVIOUS
    <3>2. ASSUME NEW j \in Nat, j \in agrees PROVE j + 1 \in agrees
      <4> SUFFICES ASSUME j + 1 \in 1 .. m PROVE g[j + 1] = c[j + 1]
        OBVIOUS
      <4>1. /\ j + 1 \in 1 .. n + 1 /\ (j + 1) - 1 = j
            /\ j # 0 => j \in 1 .. m
        BY <1>1, <1>7
      <4>2. g[j + 1] = IF j + 1 = 1 THEN t[j + 1] ELSE g[j] \o t[j + 1]
        BY <2>3, <4>1
      <4>3. w[j + 1] = IF j + 1 = 1 THEN t[j + 1] ELSE w[j] \o t[j + 1]
        BY <2>1, <4>1
      <4>4. CASE j = 0
        BY <4>2, <4>3, <4>4
      <4>5. CASE j # 0
        BY <3>2, <4>1, <4>2, <4>3, <4>5
      <4> QED
        BY <4>4, <4>5
    <3> HIDE DEF agrees
    <3>3. m \in agrees
      <4>1. m \in Nat
        BY <1>1, <1>7
      <4> HIDE DEF m
      <4> QED
        BY <3>1, <3>2, <4>1, NatInduct
    <3> QED
      BY <1>7, <3>3 DEF agrees
  <2>4. FlattenSeq(t) = (CHOOSE g : unfolds(t, g))[m]
    <3>1. t \in Seq(Seq(S)) /\ Len(t) # 0
      BY <1>1, <1>7
    <3> QED
      BY <1>2, <3>1
  <2> QED
    BY <2>2, <2>3, <2>4
<1>8. FlattenSeq(all) = c[n + 1] /\ c[n + 1] = c[n] \o e
  <2>1. n + 1 \in 1 .. n + 1 /\ (n + 1) - 1 = n
    BY <1>1
  <2>2. FlattenSeq(all) = c[n + 1]
    BY <1>1, <1>7, <2>1
  <2>3. c[n + 1] = c[(n + 1) - 1] \o all[n + 1]
    BY <1>6, <2>1
  <2> QED
    BY <1>1, <2>1, <2>2, <2>3
<1>9. FlattenSeq(s) = c[n]
  <2>1. CASE n = 0
    <3>1. s = <<>>
      BY <2>1, EmptySeq
    <3> QED
      BY <1>3, <1>5, <2>1, <3>1
  <2>2. CASE n # 0
    <3>1. n \in 1 .. n + 1 /\ \A i \in 1 .. n : s[i] = all[i]
      BY <1>1, <2>2
    <3> QED
      BY <1>7, <3>1
  <2> QED
    BY <2>1, <2>2
<1> QED
  BY <1>1, <1>3, <1>8, <1>9 DEF all

-----------------------------------------------------------------------------
(* Where the window of a block lies around the block's centre. *)

\* A quarter of a block, and a quarter of the slope two neighbours share.
Quarter(mode) == BlockSize(mode) \div 4
Overlap(mode, other) == Least(Quarter(mode), Quarter(other))

\* Block sizes are whole quarters, and a slope fits both its blocks.
LEMMA QuarterSizes ==
    /\ Origin = 2 * Quarter(1)
    /\ \A mode \in Modes :
          /\ Quarter(mode) \in Nat /\ 0 < Quarter(mode)
          /\ BlockSize(mode) = 4 * Quarter(mode)
          /\ BlockSize(mode) \div 2 = 2 * Quarter(mode)
          /\ \A other \in Modes :
                /\ Overlap(mode, other) \in Nat /\ 0 < Overlap(mode, other)
                /\ Overlap(mode, other) <= Quarter(mode)
                /\ Overlap(mode, other) <= Quarter(other)
                /\ (BlockSize(mode) + BlockSize(other)) \div 4
                     = Quarter(mode) + Quarter(other)
<1>1. PICK s, q \in Nat : /\ 0 < s /\ s < q
                          /\ Short = 4 * s /\ Long = 4 * q /\ Origin = 2 * q
                          /\ \A mode \in Modes :
                                BlockSize(mode) = 4 * (IF mode = 0 THEN s ELSE q)
  BY Quarters
<1>2. \A mode \in Modes : Quarter(mode) = IF mode = 0 THEN s ELSE q
  <2>1. (4 * s) \div 4 = s /\ (4 * q) \div 4 = q
    BY <1>1
  <2> QED
    BY <1>1, <2>1 DEF Quarter
<1>3. 1 \in Modes /\ 1 # 0
  BY DEF Modes
<1>4. ASSUME NEW mode \in Modes, NEW other \in Modes
      PROVE  /\ Overlap(mode, other) \in Nat /\ 0 < Overlap(mode, other)
             /\ Overlap(mode, other) <= Quarter(mode)
             /\ Overlap(mode, other) <= Quarter(other)
  <2>1. /\ Quarter(mode) \in Nat /\ 0 < Quarter(mode)
        /\ Quarter(other) \in Nat /\ 0 < Quarter(other)
    BY <1>1, <1>2
  <2> QED
    BY <2>1 DEF Overlap, Least
<1>5. ASSUME NEW mode \in Modes
      PROVE  /\ Quarter(mode) \in Nat /\ 0 < Quarter(mode)
             /\ BlockSize(mode) = 4 * Quarter(mode)
             /\ BlockSize(mode) \div 2 = 2 * Quarter(mode)
  <2>1. BlockSize(mode) = 4 * Quarter(mode) /\ Quarter(mode) \in Nat /\ 0 < Quarter(mode)
    BY <1>1, <1>2
  <2> QED
    BY <2>1
<1>6. ASSUME NEW mode \in Modes, NEW other \in Modes
      PROVE  (BlockSize(mode) + BlockSize(other)) \div 4 = Quarter(mode) + Quarter(other)
  <2>1. /\ BlockSize(mode) = 4 * Quarter(mode) /\ Quarter(mode) \in Nat
        /\ BlockSize(other) = 4 * Quarter(other) /\ Quarter(other) \in Nat
    BY <1>5
  <2> QED
    BY <2>1
<1>7. Origin = 2 * Quarter(1)
  BY <1>1, <1>2, <1>3
<1> QED
  BY <1>4, <1>5, <1>6, <1>7

\* The spans of a block in quarters: both slopes are centred a quarter from
\* the block's ends.
LEMMA SpansQuarters ==
    ASSUME NEW prev \in Modes, NEW current \in Modes, NEW following \in Modes,
           NEW p, p = Quarter(current), NEW l, l = Overlap(prev, current),
           NEW r, r = Overlap(current, following),
           NEW s, s = Spans(prev, current, following)
    PROVE  /\ s.n = 4 * p /\ s.left = 4 * l /\ s.right = 4 * r
           /\ s.leftBegin = p - l /\ s.leftEnd = p + l
           /\ s.rightBegin = 3 * p - r /\ s.rightEnd = 3 * p + r
<1>1. PICK a, q \in Nat : /\ 0 < a /\ a < q
                          /\ Short = 4 * a /\ Long = 4 * q
  BY Quarters
<1>2. \A mode \in Modes : Quarter(mode) = IF mode = 0 THEN a ELSE q
  <2>1. (4 * a) \div 4 = a /\ (4 * q) \div 4 = q
    BY <1>1
  <2> QED
    BY <1>1, <2>1 DEF Quarter, BlockSize
<1>3. /\ p = IF current = 0 THEN a ELSE q
      /\ l = IF current = 0 \/ prev = 0 THEN a ELSE q
      /\ r = IF current = 0 \/ following = 0 THEN a ELSE q
  BY <1>1, <1>2 DEF Overlap, Least
<1>4. CASE current = 0
  BY <1>1, <1>3, <1>4 DEF Spans, BlockSize
<1>5. CASE current # 0
  <2>1. CASE prev = 0 /\ following = 0
    BY <1>1, <1>3, <1>5, <2>1 DEF Spans, BlockSize
  <2>2. CASE prev = 0 /\ following # 0
    BY <1>1, <1>3, <1>5, <2>2 DEF Spans, BlockSize
  <2>3. CASE prev # 0 /\ following = 0
    BY <1>1, <1>3, <1>5, <2>3 DEF Spans, BlockSize
  <2>4. CASE prev # 0 /\ following # 0
    BY <1>1, <1>3, <1>5, <2>4 DEF Spans, BlockSize
  <2> QED
    BY <2>1, <2>2, <2>3, <2>4
<1> QED
  BY <1>4, <1>5

\* The mode before block k: the first block follows a short one.
PrecedingOf(ms, k) == IF k = 1 THEN 0 ELSE ms[k - 1]

\* The modes around a block of the sequence are modes.
LEMMA Neighbours ==
    ASSUME NEW ms \in Seq(Modes), NEW terminal_ \in Modes, NEW k \in 1 .. Len(ms)
    PROVE  /\ Len(ms) \in Nat /\ ms[k] \in Modes /\ PrecedingOf(ms, k) \in Modes
           /\ FollowingOf(ms, terminal_, k) \in Modes
<1>1. Len(ms) \in Nat /\ ms[k] \in Modes /\ 0 \in Modes
  BY LenProperties, ElementOfSeq DEF Modes
<1>2. k # 1 => ms[k - 1] \in Modes
  BY <1>1, ElementOfSeq
<1>3. k < Len(ms) => ms[k + 1] \in Modes
  BY <1>1, ElementOfSeq
<1> QED
  BY <1>1, <1>2, <1>3 DEF PrecedingOf, FollowingOf

\* A window of block size 4p whose slopes take 2l and 2r samples, each centred
\* a quarter from the block's end.
Slopes(s, p, l, r) ==
    /\ p \in Nat /\ l \in Nat /\ r \in Nat
    /\ 0 < l /\ 0 < r /\ l <= p /\ r <= p
    /\ s.left = 4 * l /\ s.right = 4 * r
    /\ s.leftBegin = p - l /\ s.leftEnd = p + l
    /\ s.rightBegin = 3 * p - r /\ s.rightEnd = 3 * p + r

\* What such a window of block k adds to a sample x after the block's centre.
Pieces(k, x, p, l, r, added) ==
    /\ added \in Seq(Contributions)
    /\ x + p + l < 0 \/ x >= p + r => added = <<>>
    /\ 0 <= x + p + l /\ x + p < l =>
         added = <<Contribution(k, "rise", 4 * l, x + p + l)>>
    /\ l <= x + p /\ x + r < p =>
         added = <<Contribution(k, "flat", 0, 0)>>
    /\ p <= x + r /\ x < p + r =>
         added = <<Contribution(k, "fall", 4 * r, r + p - 1 - x)>>

\* One sample is a sequence.
LEMMA SingletonSeq ==
    \A T : \A e \in T : <<e>> \in Seq(T)
  OBVIOUS

\* What a windowed block adds to a sample x after its centre (before it, when x
\* is negative): nothing, a rising slope, the flat part, a falling slope,
\* nothing.
LEMMA WindowedPieces ==
    ASSUME NEW k \in Nat, NEW x \in Int, NEW p, NEW l, NEW r, NEW s, Slopes(s, p, l, r),
           NEW added,
           added = IF x + 2 * p \in 0 .. 4 * p - 1 THEN Windowed(k, s, x + 2 * p) ELSE <<>>
    PROVE  Pieces(k, x, p, l, r, added)
<1> USE DEF Pieces, Slopes
<1> DEFINE offset == x + 2 * p
<1>1. offset \in Int
  OBVIOUS
<1>7. CASE x + p + l < 0 \/ x >= p + r
  <2>1. offset < s.leftBegin \/ offset >= s.rightEnd
    BY <1>7
  <2>2. added = <<>>
    BY <2>1 DEF Windowed
  <2>3. /\ ~(0 <= x + p + l /\ x + p < l)
        /\ ~(l <= x + p /\ x + r < p)
        /\ ~(p <= x + r /\ x < p + r)
    BY <1>7
  <2>4. added \in Seq(Contributions)
    BY <2>2, EmptySeq
  <2> QED
    BY <2>2, <2>3, <2>4
<1>8. CASE ~(x + p + l < 0 \/ x >= p + r)
  <2>1. offset \in 0 .. 4 * p - 1 /\ ~(offset < s.leftBegin \/ offset >= s.rightEnd)
    BY <1>8
  <2>2. added = Windowed(k, s, offset)
    BY <2>1
  <2>3. added = <<IF offset < s.leftEnd
                  THEN Contribution(k, "rise", s.left, offset - s.leftBegin)
                  ELSE IF offset >= s.rightBegin
                  THEN Contribution(k, "fall", s.right,
                                    s.right \div 2 - 1 - (offset - s.rightBegin))
                  ELSE Contribution(k, "flat", 0, 0)>>
    BY <2>1, <2>2 DEF Windowed
  <2>4. CASE x + p < l
    <3>1. offset < s.leftEnd /\ offset - s.leftBegin = x + p + l
      BY <2>4
    <3>2. added = <<Contribution(k, "rise", 4 * l, x + p + l)>>
      BY <2>3, <3>1
    <3>3. 4 * l \in Nat /\ x + p + l \in Nat
      BY <1>8
    <3>4. added \in Seq(Contributions)
      <4>1. Contribution(k, "rise", 4 * l, x + p + l) \in Contributions
        BY <3>3 DEF Contribution, Contributions
      <4> QED
        BY <3>2, <4>1, SingletonSeq
    <3>5. ~(l <= x + p) /\ ~(p <= x + r)
      BY <2>4
    <3> QED
      BY <1>8, <3>2, <3>4, <3>5
  <2>5. CASE l <= x + p /\ x + r < p
    <3>1. ~(offset < s.leftEnd) /\ ~(offset >= s.rightBegin)
      BY <2>5
    <3>2. added = <<Contribution(k, "flat", 0, 0)>>
      BY <2>3, <3>1
    <3>3. added \in Seq(Contributions)
      <4>1. Contribution(k, "flat", 0, 0) \in Contributions
        BY DEF Contribution, Contributions
      <4> QED
        BY <3>2, <4>1, SingletonSeq
    <3>4. ~(x + p < l) /\ ~(p <= x + r)
      BY <2>5
    <3> QED
      BY <1>8, <3>2, <3>3, <3>4
  <2>6. CASE p <= x + r
    <3>1. /\ ~(offset < s.leftEnd) /\ offset >= s.rightBegin
          /\ s.right \div 2 - 1 - (offset - s.rightBegin) = r + p - 1 - x
      BY <2>6
    <3>2. added = <<Contribution(k, "fall", 4 * r, r + p - 1 - x)>>
      BY <2>3, <3>1
    <3>3. 4 * r \in Nat /\ r + p - 1 - x \in Nat
      BY <1>8
    <3>4. added \in Seq(Contributions)
      <4>1. Contribution(k, "fall", 4 * r, r + p - 1 - x) \in Contributions
        BY <3>3 DEF Contribution, Contributions
      <4> QED
        BY <3>2, <4>1, SingletonSeq
    <3>5. ~(x + p < l) /\ ~(x + r < p)
      BY <2>6
    <3> QED
      BY <1>8, <3>2, <3>4, <3>5
  <2>7. x + p < l \/ (l <= x + p /\ x + r < p) \/ p <= x + r
    OBVIOUS
  <2> QED
    BY <2>4, <2>5, <2>6, <2>7
<1> QED
  BY <1>7, <1>8

\* What block k adds to sample i, by where the sample lies from its centre.
LEMMA ContributionPieces ==
    ASSUME NEW ms \in Seq(Modes), NEW terminal_ \in Modes, NEW k \in 1 .. Len(ms),
           NEW i \in Int, NEW x, x = i - Centre(ms, k),
           NEW p, p = Quarter(ms[k]), NEW l, l = Overlap(PrecedingOf(ms, k), ms[k]),
           NEW r, r = Overlap(ms[k], FollowingOf(ms, terminal_, k)),
           NEW added, added = ContributionOf(ms, terminal_, k, i)
    PROVE  Pieces(k, x, p, l, r, added)
<1> DEFINE prev == PrecedingOf(ms, k)
           following == FollowingOf(ms, terminal_, k)
           s == Spans(prev, ms[k], following)
<1>1. ms[k] \in Modes /\ prev \in Modes /\ following \in Modes /\ k \in Nat
  BY Neighbours
<1>2. /\ p \in Nat /\ 0 < p /\ l \in Nat /\ 0 < l /\ r \in Nat /\ 0 < r
      /\ l <= p /\ r <= p /\ BlockSize(ms[k]) = 4 * p /\ BlockSize(ms[k]) \div 2 = 2 * p
  BY <1>1, QuarterSizes
<1>3. /\ s.n = 4 * p /\ s.left = 4 * l /\ s.right = 4 * r
      /\ s.leftBegin = p - l /\ s.leftEnd = p + l
      /\ s.rightBegin = 3 * p - r /\ s.rightEnd = 3 * p + r
  BY <1>1, SpansQuarters
<1>4. Centre(ms, k) \in Nat /\ x \in Int
  BY CentreSteps
<1>5. SpansOf(ms, terminal_, k) = s
  BY DEF SpansOf, PrecedingOf
<1> HIDE DEF s
<1>6. i - (Centre(ms, k) - BlockSize(ms[k]) \div 2) = x + 2 * p
  <2> DEFINE centre == Centre(ms, k)
  <2> HIDE DEF centre
  <2>1. \A c \in Nat, j \in Int, y \in Nat : j - (c - 2 * y) = (j - c) + 2 * y
    OBVIOUS
  <2> QED
    BY <1>2, <1>4, <2>1
<1>7. added = IF x + 2 * p \in 0 .. 4 * p - 1 THEN Windowed(k, s, x + 2 * p) ELSE <<>>
  BY <1>2, <1>5, <1>6 DEF ContributionOf
<1> QED
  <2>1. Slopes(s, p, l, r)
    BY <1>2, <1>3 DEF Slopes
  <2> QED
    BY <1>1, <1>4, <1>7, <2>1, WindowedPieces, Zenon

-----------------------------------------------------------------------------
(* The whole timeline. *)

\* Two contributions to one sample.
LEMMA TwoSamples ==
    \A a, b : <<a>> \o <<b>> = <<a, b>>
<1> SUFFICES ASSUME NEW a, NEW b PROVE <<a>> \o <<b>> = <<a, b>>
  OBVIOUS
<1>1. <<a>> \in Seq({a, b}) /\ <<b>> \in Seq({a, b}) /\ <<a, b>> \in Seq({a, b})
  OBVIOUS
<1>2. Len(<<a>>) = 1 /\ Len(<<b>>) = 1 /\ Len(<<a, b>>) = 2
  OBVIOUS
<1> DEFINE both == <<a>> \o <<b>>
<1>3. /\ both \in Seq({a, b}) /\ Len(both) = 2
      /\ both[1] = a /\ both[2] = b
  BY <1>1, <1>2, ConcatProperties
<1> HIDE DEF both
<1>4. \A k \in 1 .. 2 : k = 1 \/ k = 2
  OBVIOUS
<1>5. \A k \in 1 .. 2 : both[k] = <<a, b>>[k]
  BY <1>3, <1>4
<1> QED
  BY <1>1, <1>2, <1>3, <1>5, SeqEqual DEF both

\* Two neighbours that share a slope of 2m samples: the first adds nothing from
\* the centre of the second on, the second nothing before the centre of the
\* first, and between the two centres their samples lap.
LEMMA PiecesLap ==
    ASSUME NEW k \in Nat, NEW x \in Int, NEW p \in Nat, NEW q \in Nat,
           NEW l \in Nat, NEW m \in Nat, NEW r \in Nat,
           0 < m, l <= p, m <= p, m <= q, r <= q,
           NEW added, Pieces(k, x, p, l, m, added),
           NEW more, Pieces(k + 1, x - (p + q), q, m, r, more)
    PROVE  /\ x >= p + q => added = <<>>
           /\ x < 0 => more = <<>>
           /\ 0 <= x /\ x < p + q => Lapped(added \o more)
<1> DEFINE y == x - (p + q)
<1> HIDE DEF y
<1>1. y \in Int /\ y = x - (p + q) /\ Pieces(k + 1, y, q, m, r, more)
  BY DEF y
<1>2. x >= p + q => added = <<>>
  BY DEF Pieces
<1>3. x < 0 => more = <<>>
  <2>1. x < 0 => y + q + m < 0
    BY <1>1
  <2> QED
    BY <1>1, <2>1 DEF Pieces
<1>4. ASSUME 0 <= x, x < p + q PROVE Lapped(added \o more)
  <2>1. CASE x + m < p
    <3>1. l <= x + p /\ y + q + m < 0
      BY <1>1, <1>4, <2>1
    <3>2. added = <<Contribution(k, "flat", 0, 0)>> /\ more = <<>>
      BY <1>1, <2>1, <3>1 DEF Pieces
    <3>3. added \o more = <<Contribution(k, "flat", 0, 0)>>
      BY <3>2
    <3> QED
      BY <3>3 DEF Lapped, Contribution
  <2>2. CASE p <= x + m /\ x < p + m
    <3>1. 0 <= y + q + m /\ y + q < m
      BY <1>1, <2>2
    <3>2. /\ added = <<Contribution(k, "fall", 4 * m, m + p - 1 - x)>>
          /\ more = <<Contribution(k + 1, "rise", 4 * m, y + q + m)>>
      BY <1>1, <2>2, <3>1 DEF Pieces
    <3>3. added \o more = <<Contribution(k, "fall", 4 * m, m + p - 1 - x),
                            Contribution(k + 1, "rise", 4 * m, y + q + m)>>
      BY <3>2, TwoSamples
    <3>4. (m + p - 1 - x) + (y + q + m) = (4 * m) \div 2 - 1
      BY <1>1
    <3> QED
      BY <3>3, <3>4 DEF Lapped, Contribution
  <2>3. CASE p + m <= x
    <3>1. x >= p + m /\ m <= y + q /\ y + r < q
      BY <1>1, <1>4, <2>3
    <3>2. added = <<>> /\ more = <<Contribution(k + 1, "flat", 0, 0)>>
      BY <1>1, <3>1 DEF Pieces
    <3>3. added \o more = <<Contribution(k + 1, "flat", 0, 0)>>
      BY <3>2
    <3> QED
      BY <3>3 DEF Lapped, Contribution
  <2> QED
    BY <2>1, <2>2, <2>3
<1> QED
  BY <1>2, <1>3, <1>4

\* The centre of the next block, and what the two blocks around a sample add.
LEMMA NextBlock ==
    ASSUME NEW ms \in Seq(Modes), NEW terminal_ \in Modes,
           NEW k \in 1 .. Len(ms), k + 1 \in 1 .. Len(ms), NEW i \in Nat
    PROVE  /\ Centre(ms, k) \in Nat /\ Centre(ms, k + 1) \in Nat
           /\ Centre(ms, k) <= Centre(ms, k + 1)
           /\ i >= Centre(ms, k + 1) => ContributionOf(ms, terminal_, k, i) = <<>>
           /\ i < Centre(ms, k) => ContributionOf(ms, terminal_, k + 1, i) = <<>>
           /\ Centre(ms, k) <= i /\ i < Centre(ms, k + 1) =>
                Lapped(ContributionOf(ms, terminal_, k, i)
                         \o ContributionOf(ms, terminal_, k + 1, i))
<1> DEFINE p == Quarter(ms[k])
           q == Quarter(ms[k + 1])
           l == Overlap(PrecedingOf(ms, k), ms[k])
           m == Overlap(ms[k], ms[k + 1])
           r == Overlap(ms[k + 1], FollowingOf(ms, terminal_, k + 1))
           c == Centre(ms, k)
           d == Centre(ms, k + 1)
           added == ContributionOf(ms, terminal_, k, i)
           more == ContributionOf(ms, terminal_, k + 1, i)
<1>1. /\ ms[k] \in Modes /\ ms[k + 1] \in Modes /\ PrecedingOf(ms, k) \in Modes
      /\ FollowingOf(ms, terminal_, k + 1) \in Modes /\ Len(ms) \in Nat /\ k \in Nat
  BY Neighbours
<1>2. /\ p \in Nat /\ q \in Nat /\ l \in Nat /\ m \in Nat /\ r \in Nat
      /\ 0 < m /\ l <= p /\ m <= p /\ m <= q /\ r <= q
      /\ (BlockSize(ms[k]) + BlockSize(ms[k + 1])) \div 4 = p + q
  BY <1>1, QuarterSizes
<1>3. k < Len(ms) /\ k + 1 # 1 /\ (k + 1) - 1 = k /\ i \in Int
  BY <1>1
<1>4. c \in Nat /\ d \in Nat /\ d = c + (p + q)
  BY <1>2, <1>3, CentreSteps
<1>5. FollowingOf(ms, terminal_, k) = ms[k + 1] /\ PrecedingOf(ms, k + 1) = ms[k]
  BY <1>3 DEF FollowingOf, PrecedingOf
<1>6. Pieces(k, i - c, p, l, m, added)
  BY <1>3, <1>5, ContributionPieces
<1>7. Pieces(k + 1, i - d, q, m, r, more)
  BY <1>3, <1>5, ContributionPieces
<1> HIDE DEF p, q, l, m, r, c, d, added, more
<1>8. i - c \in Int /\ i - d = (i - c) - (p + q)
  BY <1>2, <1>4
<1>9. /\ i - c >= p + q => added = <<>>
      /\ i - c < 0 => more = <<>>
      /\ 0 <= i - c /\ i - c < p + q => Lapped(added \o more)
  BY <1>1, <1>2, <1>6, <1>7, <1>8, PiecesLap
<1>10. /\ i >= d => i - c >= p + q
       /\ i < c => i - c < 0
       /\ c <= i /\ i < d => 0 <= i - c /\ i - c < p + q
       /\ c <= d
  BY <1>2, <1>4
<1> QED
  BY <1>4, <1>9, <1>10 DEF c, d, added, more

\* The timeline grows by what its next block adds.
LEMMA TimelineGrows ==
    ASSUME NEW ms \in Seq(Modes), NEW terminal_ \in Modes, NEW i \in Int,
           NEW c \in 0 .. Len(ms)
    PROVE  /\ WholeTimeline(ms, terminal_, c, i) \in Seq(Contributions)
           /\ c = 0 => WholeTimeline(ms, terminal_, c, i) = <<>>
           /\ c + 1 \in 1 .. Len(ms) =>
                WholeTimeline(ms, terminal_, c + 1, i)
                  = WholeTimeline(ms, terminal_, c, i)
                      \o ContributionOf(ms, terminal_, c + 1, i)
<1> DEFINE part(n) == [k \in 1 .. n |-> ContributionOf(ms, terminal_, k, i)]
<1>1. Len(ms) \in Nat /\ c \in Nat
  BY LenProperties
<1>2. ASSUME NEW k \in 1 .. Len(ms)
      PROVE  ContributionOf(ms, terminal_, k, i) \in Seq(Contributions)
  BY ContributionPieces DEF Pieces
<1>3. ASSUME NEW n \in 0 .. Len(ms)
      PROVE  part(n) \in Seq(Seq(Contributions)) /\ Len(part(n)) = n
  <2>1. n \in Nat /\ part(n) \in [1 .. n -> Seq(Contributions)]
    BY <1>1, <1>2
  <2> QED
    BY <2>1, LenOfFunction
<1>4. part(c) \in Seq(Seq(Contributions)) /\ Len(part(c)) = c
  BY <1>3
<1>5. \A n : WholeTimeline(ms, terminal_, n, i) = FlattenSeq(part(n))
  BY DEF WholeTimeline
<1>6. ASSUME c + 1 \in 1 .. Len(ms)
      PROVE  part(c + 1) = Append(part(c), ContributionOf(ms, terminal_, c + 1, i))
  <2> DEFINE e == ContributionOf(ms, terminal_, c + 1, i)
  <2>1. e \in Seq(Contributions)
    BY <1>2, <1>6
  <2>2. \A k \in 1 .. c : part(c)[k] = part(c + 1)[k]
    BY <1>1
  <2>3. part(c + 1)[c + 1] = e /\ c + 1 \in 0 .. Len(ms)
    <3>1. c + 1 \in 1 .. c + 1 /\ c + 1 \in 0 .. Len(ms)
      BY <1>1, <1>6
    <3> QED
      BY <3>1
  <2>4. part(c + 1) \in Seq(Seq(Contributions)) /\ Len(part(c + 1)) = c + 1
    BY <1>3, <2>3
  <2> HIDE DEF part, e
  <2>5. /\ Append(part(c), e) \in Seq(Seq(Contributions))
        /\ Len(Append(part(c), e)) = c + 1
        /\ \A k \in 1 .. c : Append(part(c), e)[k] = part(c)[k]
        /\ Append(part(c), e)[c + 1] = e
    BY <1>4, <2>1, AppendProperties
  <2>6. \A k \in 1 .. c + 1 : k \in 1 .. c \/ k = c + 1
    BY <1>1
  <2>7. \A k \in 1 .. c + 1 : part(c + 1)[k] = Append(part(c), e)[k]
    BY <2>2, <2>3, <2>5, <2>6
  <2>8. part(c + 1) = Append(part(c), e)
    BY <2>4, <2>5, <2>7, SeqEqual
  <2> QED
    BY <2>8 DEF e
<1> HIDE DEF part
<1>7. c = 0 => part(c) = <<>>
  BY <1>4, EmptySeq
<1>8. FlattenSeq(part(c)) \in Seq(Contributions)
      /\ (part(c) = <<>> => FlattenSeq(part(c)) = <<>>)
  <2>1. <<>> \in Seq(Contributions)
    BY EmptySeq
  <2> QED
    BY <1>4, <2>1, FlattenAppend
<1>9. ASSUME c + 1 \in 1 .. Len(ms)
      PROVE  FlattenSeq(part(c + 1))
               = FlattenSeq(part(c)) \o ContributionOf(ms, terminal_, c + 1, i)
  <2>1. ContributionOf(ms, terminal_, c + 1, i) \in Seq(Contributions)
    BY <1>2, <1>9
  <2> QED
    BY <1>4, <1>6, <1>9, <2>1, FlattenAppend
<1> QED
  BY <1>5, <1>7, <1>8, <1>9

\* From the centre of its last block on, the timeline holds only that block.
LEMMA TimelineEnd ==
    ASSUME NEW ms \in Seq(Modes), NEW terminal_ \in Modes
    PROVE  \A k \in 1 .. Len(ms) : \A i \in Nat :
              i >= Centre(ms, k) =>
                WholeTimeline(ms, terminal_, k, i) = ContributionOf(ms, terminal_, k, i)
<1> DEFINE alone == {k \in Nat : k \in 1 .. Len(ms) => \A i \in Nat :
              i >= Centre(ms, k) =>
                WholeTimeline(ms, terminal_, k, i) = ContributionOf(ms, terminal_, k, i)}
<1>1. Len(ms) \in Nat
  BY LenProperties
<1>2. 0 \in alone
  OBVIOUS
<1>3. ASSUME NEW n \in Nat, n \in alone PROVE n + 1 \in alone
  <2> SUFFICES ASSUME n + 1 \in 1 .. Len(ms), NEW i \in Nat, i >= Centre(ms, n + 1)
               PROVE  WholeTimeline(ms, terminal_, n + 1, i)
                        = ContributionOf(ms, terminal_, n + 1, i)
    OBVIOUS
  <2>1. n \in 0 .. Len(ms) /\ i \in Int
    BY <1>1
  <2>2. WholeTimeline(ms, terminal_, n + 1, i)
          = WholeTimeline(ms, terminal_, n, i) \o ContributionOf(ms, terminal_, n + 1, i)
    BY <2>1, TimelineGrows
  <2>3. WholeTimeline(ms, terminal_, n, i) = <<>>
    <3>1. CASE n = 0
      BY <2>1, <3>1, TimelineGrows
    <3>2. CASE n # 0
      <4>1. n \in 1 .. Len(ms)
        BY <2>1, <3>2
      <4>2. /\ Centre(ms, n) \in Nat /\ Centre(ms, n + 1) \in Nat
            /\ Centre(ms, n) <= Centre(ms, n + 1)
            /\ ContributionOf(ms, terminal_, n, i) = <<>>
        BY <4>1, NextBlock
      <4>3. i >= Centre(ms, n)
        BY <4>2
      <4>4. WholeTimeline(ms, terminal_, n, i) = ContributionOf(ms, terminal_, n, i)
        BY <1>3, <4>1, <4>3
      <4> QED
        BY <4>2, <4>4
    <3> QED
      BY <3>1, <3>2
  <2>4. ContributionOf(ms, terminal_, n + 1, i) \in Seq(Contributions)
    BY <2>1, ContributionPieces DEF Pieces
  <2> QED
    BY <2>2, <2>3, <2>4, ConcatEmptySeq
<1> HIDE DEF alone
<1>4. \A k \in Nat : k \in alone
  BY <1>2, <1>3, NatInduct
<1> QED
  BY <1>1, <1>4 DEF alone

\* Before the centre of its last block every sample of the timeline is lapped.
LEMMA TimelineLapped ==
    ASSUME NEW ms \in Seq(Modes), NEW terminal_ \in Modes
    PROVE  \A k \in 1 .. Len(ms) : \A i \in Nat :
              i < Centre(ms, k) => Lapped(WholeTimeline(ms, terminal_, k, i))
<1> DEFINE lapped == {k \in Nat : k \in 1 .. Len(ms) => \A i \in Nat :
              i < Centre(ms, k) => Lapped(WholeTimeline(ms, terminal_, k, i))}
<1>1. Len(ms) \in Nat
  BY LenProperties
<1>2. 0 \in lapped
  OBVIOUS
<1>3. ASSUME NEW n \in Nat, n \in lapped PROVE n + 1 \in lapped
  <2> SUFFICES ASSUME n + 1 \in 1 .. Len(ms), NEW i \in Nat, i < Centre(ms, n + 1)
               PROVE  Lapped(WholeTimeline(ms, terminal_, n + 1, i))
    OBVIOUS
  <2>1. n \in 0 .. Len(ms) /\ i \in Int
    BY <1>1
  <2>2. /\ WholeTimeline(ms, terminal_, n, i) \in Seq(Contributions)
        /\ WholeTimeline(ms, terminal_, n + 1, i)
             = WholeTimeline(ms, terminal_, n, i) \o ContributionOf(ms, terminal_, n + 1, i)
    BY <2>1, TimelineGrows
  <2>3. n # 0
    <3> SUFFICES ASSUME n = 0 PROVE FALSE
      OBVIOUS
    <3>1. Centre(ms, n + 1) = 0
      BY CentreSteps
    <3> QED
      BY <3>1
  <2>4. n \in 1 .. Len(ms)
    BY <2>1, <2>3
  <2>5. /\ Centre(ms, n) \in Nat
        /\ i < Centre(ms, n) => ContributionOf(ms, terminal_, n + 1, i) = <<>>
        /\ Centre(ms, n) <= i =>
             Lapped(ContributionOf(ms, terminal_, n, i)
                      \o ContributionOf(ms, terminal_, n + 1, i))
    BY <2>4, NextBlock
  <2>6. CASE i < Centre(ms, n)
    <3>1. WholeTimeline(ms, terminal_, n + 1, i) = WholeTimeline(ms, terminal_, n, i)
      BY <2>2, <2>5, <2>6, ConcatEmptySeq
    <3> QED
      BY <1>3, <2>4, <2>6, <3>1
  <2>7. CASE ~(i < Centre(ms, n))
    <3>1. Centre(ms, n) <= i /\ i >= Centre(ms, n)
      BY <2>5, <2>7
    <3>2. WholeTimeline(ms, terminal_, n, i) = ContributionOf(ms, terminal_, n, i)
      BY <2>4, <3>1, TimelineEnd
    <3> QED
      BY <2>2, <2>5, <3>1, <3>2
  <2> QED
    BY <2>6, <2>7
<1> HIDE DEF lapped
<1>4. \A k \in Nat : k \in lapped
  BY <1>2, <1>3, NatInduct
<1> QED
  BY <1>1, <1>4 DEF lapped

-----------------------------------------------------------------------------
(* The window against the whole timeline. *)

\* What the overlap-add holds of timeline position p.
Held(p) == IF p \in start .. start + Len(samples) - 1
           THEN samples[p - start + 1] ELSE <<>>

\* One push adds a block to every position it still holds, and to nothing else.
LEMMA PushedSample ==
    ASSUME OlaTypeOK, OlaInv, NEW block \in Nat, NEW current \in Modes,
           NEW following \in Modes, OlaPush(block, current, following),
           NEW p \in Nat, p >= start',
           NEW offset, offset = p - Position(current)
    PROVE  /\ start' = base /\ Held(p) \in Seq(Contributions)
           /\ Held(p)' = Held(p) \o
                (IF offset \in 0 .. BlockSize(current) - 1
                 THEN Windowed(block, Spans(previous, current, following), offset)
                 ELSE <<>>)
<1> DEFINE s == Spans(previous, current, following)
           position == Position(current)
           size == BlockSize(current)
           first == start + Droppable
           kept == Len(samples) - Droppable
           width == Greatest(kept, (position + size) - first)
           window == Retained(position + s.n)
           added == IF offset \in 0 .. size - 1 THEN Windowed(block, s, offset) ELSE <<>>
           i == p - base + 1
<1>1. s.n = size /\ size \in Nat
  BY SpansShape DEF OlaTypeOK
<1>2. /\ Droppable \in Nat /\ Droppable <= Len(samples)
      /\ first = base
      /\ position \in Nat /\ base <= position
      /\ width \in Nat
      /\ position + size <= base + width
  BY PushGeometry
<1>3. /\ Len(samples) \in Nat /\ start \in Nat /\ base \in Nat
      /\ DOMAIN samples = 1 .. Len(samples)
      /\ \A j \in 1 .. Len(samples) : samples[j] \in Seq(Contributions)
  BY LenProperties, ElementOfSeq DEF OlaTypeOK
<1>4. window = [j \in 1 .. width |-> IF j <= kept THEN samples[j + Droppable] ELSE <<>>]
  BY <1>1 DEF Retained
<1>5. start' = base
  BY <1>2 DEF OlaPush
<1>6. kept <= width /\ kept \in Nat /\ base - start = Droppable
  <2>1. kept \in Nat /\ base - start = Droppable
    BY <1>2, <1>3
  <2>2. (position + size) - first \in Int
    BY <1>1, <1>2, <1>3
  <2> QED
    BY <2>1, <2>2 DEF Greatest
<1> HIDE DEF s, position, size, kept, width, window, first
<1>7. samples' = [j \in 1 .. width |->
                    IF first + j - 1 - position \in 0 .. size - 1
                    THEN window[j] \o Windowed(block, s, first + j - 1 - position)
                    ELSE window[j]]
  <2>1. DOMAIN window = 1 .. width
    BY <1>4
  <2>2. samples' = [j \in DOMAIN window |->
                    IF first + j - 1 - position \in 0 .. s.n - 1
                    THEN window[j] \o Windowed(block, s, first + j - 1 - position)
                    ELSE window[j]]
    BY DEF OlaPush, s, position, window, first
  <2> QED
    BY <1>1, <2>1, <2>2
<1>8. Len(samples') = width
  <2>1. samples' \in Seq(Seq(Contributions))
    BY OlaPushInv DEF OlaTypeOK
  <2>2. Len(samples') \in Nat /\ DOMAIN samples' = 1 .. Len(samples')
    BY <2>1, LenProperties
  <2>3. DOMAIN samples' = 1 .. width
    BY <1>7
  <2> HIDE DEF width
  <2>4. \A m, n \in Nat : 1 .. m = 1 .. n => m = n
    <3> SUFFICES ASSUME NEW m \in Nat, NEW n \in Nat, 1 .. m = 1 .. n PROVE m = n
      OBVIOUS
    <3>1. m <= n
      <4>1. m = 0 \/ m \in 1 .. n
        OBVIOUS
      <4> QED
        BY <4>1
    <3>2. n <= m
      <4>1. n = 0 \/ n \in 1 .. m
        OBVIOUS
      <4> QED
        BY <4>1
    <3> QED
      BY <3>1, <3>2
  <2> QED
    BY <1>2, <2>2, <2>3, <2>4
<1>9. Held(p) \in Seq(Contributions)
  <2>1. CASE p \in start .. start + Len(samples) - 1
    <3>1. p - start + 1 \in 1 .. Len(samples)
      BY <1>3, <2>1
    <3> QED
      BY <1>3, <2>1, <3>1 DEF Held
  <2>2. CASE p \notin start .. start + Len(samples) - 1
    BY <2>2, EmptySeq DEF Held
  <2> QED
    BY <2>1, <2>2
<1>10. CASE p < base + width
  <2>1. i \in 1 .. width /\ p \in base .. base + width - 1
    BY <1>2, <1>3, <1>5, <1>10
  <2>2. Held(p)' = samples'[i]
    BY <1>5, <1>8, <2>1 DEF Held
  <2>3. first + i - 1 - position = offset
    BY <1>2, <1>3 DEF position
  <2>4. window[i] = Held(p)
    <3>1. i + Droppable = p - start + 1
      BY <1>2, <1>3, <1>6
    <3>2. i <= kept <=> p \in start .. start + Len(samples) - 1
      BY <1>2, <1>3, <1>5, <1>6, <3>1 DEF kept
    <3> HIDE DEF i
    <3> QED
      BY <1>4, <2>1, <3>1, <3>2 DEF Held
  <2> HIDE DEF i
  <2>5. samples'[i] = IF offset \in 0 .. size - 1
                      THEN Held(p) \o Windowed(block, s, offset) ELSE Held(p)
    BY <1>7, <2>1, <2>3, <2>4
  <2> QED
    BY <1>5, <1>9, <2>2, <2>5, ConcatEmptySeq DEF s, size
<1>11. CASE ~(p < base + width)
  <2>1. p \notin base .. base + width - 1
    BY <1>2, <1>3, <1>11
  <2>2. Held(p)' = <<>>
    BY <1>5, <1>8, <2>1 DEF Held
  <2>3. p \notin start .. start + Len(samples) - 1
    BY <1>2, <1>3, <1>6, <1>11 DEF kept
  <2>4. Held(p) = <<>>
    BY <2>3 DEF Held
  <2>5. offset \notin 0 .. size - 1
    BY <1>1, <1>2, <1>3, <1>11 DEF position
  <2> QED
    BY <1>5, <1>9, <2>2, <2>4, <2>5, ConcatEmptySeq DEF size
<1> QED
  BY <1>5, <1>9, <1>10, <1>11

\* A sample of a piece cut out of a window that starts at position b.
LEMMA CutSample ==
    ASSUME NEW T, NEW window, NEW size \in Nat, \A m \in 1 .. size : window[m] \in T,
           NEW o \in Nat, NEW c \in Nat, NEW d \in Nat, NEW b \in Nat,
           b <= o + c, c <= d, o + d <= b + size, NEW j \in 1 .. d - c
    PROVE  /\ SubSeq(window, o + c - b + 1, o + d - b)[j]
                = window[(o + c + j - 1) - b + 1]
           /\ o + c + j - 1 \in b .. b + size - 1
<1> DEFINE first == o + c - b + 1
           last == o + d - b
<1>1. /\ first \in Int /\ last \in Int /\ 1 <= first /\ last <= size
      /\ j \in 1 .. last - first + 1
      /\ first + j - 1 = (o + c + j - 1) - b + 1
      /\ o + c + j - 1 \in b .. b + size - 1
  OBVIOUS
<1> HIDE DEF first, last
<1>2. \A m \in first .. last : m \in 1 .. size
  BY <1>1
<1>3. \A m \in first .. last : window[m] \in T
  BY <1>2
<1>4. SubSeq(window, first, last)[j] = window[first + j - 1]
  BY <1>1, <1>3, SubSeqProperties
<1> QED
  BY <1>1, <1>4 DEF first, last

\* What a push or a finish hands out are the positions from the old finalized
\* frontier to the new one.
LEMMA ReleasedSample ==
    ASSUME OlaTypeOK, OlaTypeOK', released' = ReleasedSince(completed),
           start' <= Origin + completed, completed <= completed',
           Origin + completed' <= start' + Len(samples'),
           NEW j \in 1 .. completed' - completed,
           NEW p, p = Origin + completed + j - 1
    PROVE  p >= start' /\ released'[j] = Held(p)'
<1>1. /\ Origin \in Nat /\ completed \in Nat /\ completed' \in Nat /\ start' \in Nat
      /\ Len(samples') \in Nat
      /\ \A m \in 1 .. Len(samples') : samples'[m] \in Seq(Contributions)
  <2>1. \E q \in Nat : Origin = 2 * q
    BY Quarters
  <2> QED
    BY <2>1, LenProperties, ElementOfSeq DEF OlaTypeOK
<1>2. /\ SubSeq(samples', Origin + completed - start' + 1, Origin + completed' - start')[j]
             = samples'[(Origin + completed + j - 1) - start' + 1]
      /\ Origin + completed + j - 1 \in start' .. start' + Len(samples') - 1
  BY <1>1, CutSample
<1>3. released'[j] = samples'[(Origin + completed + j - 1) - start' + 1]
  BY <1>2 DEF ReleasedSince
<1> QED
  BY <1>2, <1>3 DEF Held

\* The timeline position of the first PCM sample is a natural.
LEMMA OriginNat == Origin \in Nat
<1>1. \E q \in Nat : Origin = 2 * q
  BY Quarters
<1> QED
  BY <1>1

\* A block is supported at least up to its centre.
LEMMA RightHalfNat ==
    ASSUME NEW ms \in Seq(Modes), NEW terminal_ \in Modes, NEW k \in 1 .. Len(ms)
    PROVE  RightHalf(ms, terminal_, k) \in Nat
<1> DEFINE p == Quarter(ms[k])
           l == Overlap(PrecedingOf(ms, k), ms[k])
           r == Overlap(ms[k], FollowingOf(ms, terminal_, k))
           s == Spans(PrecedingOf(ms, k), ms[k], FollowingOf(ms, terminal_, k))
<1>1. /\ ms[k] \in Modes /\ PrecedingOf(ms, k) \in Modes
      /\ FollowingOf(ms, terminal_, k) \in Modes
  BY Neighbours
<1>2. p \in Nat /\ r \in Nat /\ BlockSize(ms[k]) \div 2 = 2 * p
  BY <1>1, QuarterSizes
<1>3. s.rightEnd = 3 * p + r
  BY <1>1, SpansQuarters
<1>4. RightHalf(ms, terminal_, k) = s.rightEnd - 2 * p
  BY <1>2 DEF RightHalf, SpansOf, PrecedingOf
<1> HIDE DEF p, r, s
<1> QED
  BY <1>2, <1>3, <1>4

-----------------------------------------------------------------------------
(* The overlap-add against the whole timeline of a mode sequence.          *)

\* What a block adds before an earlier block's centre is nothing: a sample
\* before the centre of block k is settled once block k was pushed.
LEMMA TimelineSettled ==
    ASSUME NEW ms \in Seq(Modes), NEW terminal_ \in Modes, NEW k \in 1 .. Len(ms),
           NEW i \in Nat, i < Centre(ms, k)
    PROVE  \A m \in k .. Len(ms) :
              WholeTimeline(ms, terminal_, m, i) = WholeTimeline(ms, terminal_, k, i)
<1> DEFINE settled == {n \in Nat : k + n <= Len(ms) =>
              /\ Centre(ms, k) <= Centre(ms, k + n)
              /\ WholeTimeline(ms, terminal_, k + n, i) = WholeTimeline(ms, terminal_, k, i)}
<1>1. Len(ms) \in Nat /\ k \in Nat /\ Centre(ms, k) \in Nat
  BY LenProperties, CentreSteps
<1>2. 0 \in settled
  <2>1. k + 0 = k
    BY <1>1
  <2> QED
    BY <1>1, <2>1
<1>3. ASSUME NEW n \in Nat, n \in settled PROVE n + 1 \in settled
  <2> SUFFICES ASSUME k + (n + 1) <= Len(ms)
               PROVE  /\ Centre(ms, k) <= Centre(ms, k + (n + 1))
                      /\ WholeTimeline(ms, terminal_, k + (n + 1), i)
                           = WholeTimeline(ms, terminal_, k, i)
    OBVIOUS
  <2> DEFINE m == k + n
  <2>1. /\ m \in 1 .. Len(ms) /\ m + 1 \in 1 .. Len(ms) /\ m + 1 = k + (n + 1)
        /\ m <= Len(ms) /\ m \in 0 .. Len(ms)
    BY <1>1
  <2>2. /\ Centre(ms, k) <= Centre(ms, m)
        /\ WholeTimeline(ms, terminal_, m, i) = WholeTimeline(ms, terminal_, k, i)
    BY <1>3, <2>1
  <2> HIDE DEF m, settled
  <2>3. /\ Centre(ms, m) \in Nat /\ Centre(ms, m + 1) \in Nat
        /\ Centre(ms, m) <= Centre(ms, m + 1)
        /\ i < Centre(ms, m) => ContributionOf(ms, terminal_, m + 1, i) = <<>>
    BY <2>1, NextBlock
  <2>4. ContributionOf(ms, terminal_, m + 1, i) = <<>>
    BY <1>1, <2>2, <2>3
  <2>5. /\ WholeTimeline(ms, terminal_, m, i) \in Seq(Contributions)
        /\ WholeTimeline(ms, terminal_, m + 1, i)
             = WholeTimeline(ms, terminal_, m, i)
                 \o ContributionOf(ms, terminal_, m + 1, i)
    BY <2>1, TimelineGrows
  <2>6. WholeTimeline(ms, terminal_, m + 1, i) = WholeTimeline(ms, terminal_, m, i)
    BY <2>4, <2>5, ConcatEmptySeq
  <2> QED
    BY <1>1, <2>1, <2>2, <2>3, <2>6
<1> HIDE DEF settled
<1>4. \A n \in Nat : n \in settled
  BY <1>2, <1>3, NatInduct
<1> QED
  <2> SUFFICES ASSUME NEW m \in k .. Len(ms)
               PROVE  WholeTimeline(ms, terminal_, m, i) = WholeTimeline(ms, terminal_, k, i)
    OBVIOUS
  <2>1. m - k \in Nat /\ k + (m - k) = m /\ m <= Len(ms)
    BY <1>1
  <2>2. m - k \in settled
    BY <1>4, <2>1
  <2> QED
    BY <2>1, <2>2 DEF settled

\* Where the first k blocks of a sequence put the positions that are kept.
Placed(ms, terminal_, k) ==
    /\ k = 0 => base = 0 /\ supportEnd = 0 /\ previous = 0 /\ completed = 0
    /\ k # 0 =>
          /\ previous = ms[k]
          /\ supportEnd = Origin + (Centre(ms, k) + RightHalf(ms, terminal_, k))
          /\ completed = Centre(ms, k)
    /\ k < Len(ms) => base = Centre(ms, k + 1)

\* From the window's first position on, the window is the timeline of the
\* first k blocks.
Mirrors(ms, terminal_, k) ==
    \A p \in Nat : p >= start =>
        Held(p) = WholeTimeline(ms, terminal_, k, p - Origin)

\* What a step hands out is the whole timeline, from the old finalized
\* frontier to the new one.
HandsOut(ms, terminal_) ==
    /\ completed <= completed'
    /\ released' \in Seq(Seq(Contributions))
    /\ Len(released') = completed' - completed
    /\ \A j \in 1 .. completed' - completed :
          released'[j] = WholeTimeline(ms, terminal_, Len(ms), (completed + j) - 1)

\* The overlap-add starts as an empty timeline.
LEMMA InitMirrors ==
    ASSUME OlaInit, OlaTypeOK, NEW ms \in Seq(Modes), NEW terminal_ \in Modes
    PROVE  Placed(ms, terminal_, 0) /\ Mirrors(ms, terminal_, 0)
<1>1. Len(ms) \in Nat
  BY LenProperties
<1>2. \A i \in Int : WholeTimeline(ms, terminal_, 0, i) = <<>>
  <2>1. 0 \in 0 .. Len(ms)
    BY <1>1
  <2> QED
    BY <2>1, TimelineGrows
<1>3. 0 < Len(ms) => Centre(ms, 0 + 1) = 0
  <2> SUFFICES ASSUME 0 < Len(ms) PROVE Centre(ms, 0 + 1) = 0
    OBVIOUS
  <2>1. 0 + 1 = 1 /\ 1 \in 1 .. Len(ms)
    BY <1>1
  <2> QED
    BY <2>1, CentreSteps
<1>4. Placed(ms, terminal_, 0)
  BY <1>3 DEF Placed, OlaInit
<1>5. ASSUME NEW p \in Nat, p >= start
      PROVE  Held(p) = WholeTimeline(ms, terminal_, 0, p - Origin)
  <2>1. Len(samples) \in Nat /\ DOMAIN samples = 1 .. Len(samples)
    BY LenProperties DEF OlaTypeOK
  <2>2. \A m \in 1 .. Len(samples) : samples[m] = <<>>
    BY <2>1 DEF OlaInit
  <2>3. start = 0 /\ p - Origin \in Int
    BY OriginNat DEF OlaInit
  <2>4. Held(p) = <<>>
    BY <2>1, <2>2, <2>3 DEF Held
  <2> QED
    BY <1>2, <2>3, <2>4
<1> QED
  BY <1>4, <1>5 DEF Mirrors

\* A pushed block lands where the scheduler plans it, on the whole timeline.
LEMMA PushMirrors ==
    ASSUME OlaTypeOK, OlaInv, NEW ms \in Seq(Modes), NEW terminal_ \in Modes,
           NEW k \in 1 .. Len(ms), Placed(ms, terminal_, k - 1), Mirrors(ms, terminal_, k - 1),
           OlaPush(k, ms[k], FollowingOf(ms, terminal_, k))
    PROVE  /\ Placed(ms, terminal_, k)' /\ Mirrors(ms, terminal_, k)'
           /\ HandsOut(ms, terminal_)
<1> DEFINE index == k - 1
           current == ms[k]
           following == FollowingOf(ms, terminal_, k)
<1>1. /\ Len(ms) \in Nat /\ k \in Nat /\ index \in Nat /\ index \in 0 .. Len(ms)
      /\ index < Len(ms) /\ index + 1 = k /\ current \in Modes /\ following \in Modes
  BY Neighbours
<1>2. base = Centre(ms, k) /\ base \in Nat
  BY <1>1 DEF Placed, OlaTypeOK
<1>3. previous = PrecedingOf(ms, k) /\ previous \in Modes
  BY <1>1 DEF Placed, PrecedingOf, OlaTypeOK
<1>4. Spans(previous, current, following) = SpansOf(ms, terminal_, k)
  BY <1>3 DEF SpansOf, PrecedingOf
<1>5. /\ completed' = base /\ previous' = current
      /\ supportEnd' = Position(current) + SpansOf(ms, terminal_, k).rightEnd
      /\ base' = base + (BlockSize(current) + BlockSize(following)) \div 4
      /\ released' = ReleasedSince(completed)
  <2>1. Greatest(completed, base) = base
    <3>1. completed \in Nat /\ completed <= base
      BY DEF OlaInv, OlaTypeOK
    <3> QED
      BY <1>2, <3>1 DEF Greatest
  <2>2. Spans(previous, current, following).n = BlockSize(current)
    BY DEF Spans
  <2> QED
    BY <1>4, <2>1, <2>2 DEF OlaPush
<1>6. /\ OlaTypeOK' /\ OlaInv' /\ completed <= completed'
      /\ Len(released') = completed' - completed
  BY <1>1, OlaPushInv
<1>7. start' = base
  <2>1. start + Droppable = base
    BY <1>1, PushGeometry
  <2>2. start' = start + Droppable
    BY DEF OlaPush
  <2> QED
    BY <2>1, <2>2
<1>half. BlockSize(current) \div 2 \in Nat
  <2>1. current \in Modes
    BY <1>1
  <2> HIDE DEF current
  <2>2. BlockSize(current) \div 2 = 2 * Quarter(current) /\ Quarter(current) \in Nat
    BY <2>1, QuarterSizes
  <2> QED
    BY <2>2
<1> HIDE DEF index, current, following
<1>8. Placed(ms, terminal_, k)'
  <2>1. supportEnd' = Origin + (Centre(ms, k) + RightHalf(ms, terminal_, k))
    <3>1. BlockSize(current) \div 2 \in Nat
      BY <1>half
    <3>2. SpansOf(ms, terminal_, k).rightEnd \in Nat
      <4>1. Spans(previous, current, following).rightEnd \in Nat
        BY <1>1, <1>3, SpansShape
      <4> QED
        BY <1>4, <4>1
    <3>3. RightHalf(ms, terminal_, k)
            = SpansOf(ms, terminal_, k).rightEnd - BlockSize(current) \div 2
      BY DEF RightHalf, current
    <3>4. Position(current) = base + Origin - BlockSize(current) \div 2
      BY DEF Position
    <3>5. \A o, b, h, e \in Nat : (b + o - h) + e = o + (b + (e - h))
      OBVIOUS
    <3> QED
      BY <1>2, <1>5, <3>1, <3>2, <3>3, <3>4, <3>5, OriginNat
  <2>2. k < Len(ms) => base' = Centre(ms, k + 1)
    <3> SUFFICES ASSUME k < Len(ms) PROVE base' = Centre(ms, k + 1)
      OBVIOUS
    <3>1. k + 1 \in 1 .. Len(ms) /\ k + 1 # 1 /\ (k + 1) - 1 = k
      BY <1>1
    <3>2. Centre(ms, k + 1)
            = Centre(ms, k) + (BlockSize(ms[k]) + BlockSize(ms[k + 1])) \div 4
      BY <3>1, CentreSteps
    <3>3. following = ms[k + 1] /\ current = ms[k]
      BY DEF following, current, FollowingOf
    <3> QED
      BY <1>2, <1>5, <3>2, <3>3
  <2>3. k # 0 /\ current = ms[k]
    BY <1>1 DEF current
  <2> QED
    BY <1>2, <1>5, <2>1, <2>2, <2>3 DEF Placed
<1>9. ASSUME NEW i \in Int
      PROVE  /\ WholeTimeline(ms, terminal_, index, i) \in Seq(Contributions)
             /\ WholeTimeline(ms, terminal_, k, i)
                  = WholeTimeline(ms, terminal_, index, i)
                      \o ContributionOf(ms, terminal_, k, i)
  BY <1>1, TimelineGrows
<1>10. ASSUME NEW p \in Nat, p >= start'
       PROVE  Held(p)' = WholeTimeline(ms, terminal_, k, p - Origin)
  <2> DEFINE offset == p - Position(current)
             size == BlockSize(current)
  <2>1. Held(p)' = Held(p) \o
             (IF offset \in 0 .. size - 1
              THEN Windowed(k, SpansOf(ms, terminal_, k), offset) ELSE <<>>)
    <3>1. OlaPush(k, current, following)
      BY DEF current, following
    <3> QED
      BY <1>1, <1>4, <1>10, <3>1, PushedSample
  <2>2. p >= start
    <3>1. start <= base /\ start \in Nat
      BY DEF OlaInv, OlaTypeOK
    <3> QED
      BY <1>2, <1>7, <1>10, <3>1
  <2>3. Held(p) = WholeTimeline(ms, terminal_, index, p - Origin)
    BY <2>2 DEF Mirrors, index
  <2>4. p - Origin \in Int
    BY OriginNat
  <2>5. offset = (p - Origin) - (Centre(ms, k) - size \div 2)
    <3>1. size \div 2 \in Nat
      BY <1>half
    <3>2. Position(current) = base + Origin - size \div 2
      BY DEF Position
    <3>3. \A o, b, h, x \in Nat : x - (b + o - h) = (x - o) - (b - h)
      OBVIOUS
    <3> QED
      BY <1>2, <3>1, <3>2, <3>3, OriginNat
  <2>6. ContributionOf(ms, terminal_, k, p - Origin)
          = IF offset \in 0 .. size - 1
            THEN Windowed(k, SpansOf(ms, terminal_, k), offset) ELSE <<>>
    BY <2>5 DEF ContributionOf, current
  <2> QED
    BY <1>9, <2>1, <2>3, <2>4, <2>6
<1>11. Mirrors(ms, terminal_, k)'
  BY <1>10 DEF Mirrors
<1>12. ASSUME NEW j \in 1 .. completed' - completed
       PROVE  released'[j] = WholeTimeline(ms, terminal_, Len(ms), (completed + j) - 1)
  <2>1. completed \in Nat /\ base \in Nat /\ completed' = base /\ j \in 1 .. base - completed
    BY <1>2, <1>5, <1>12 DEF OlaTypeOK
  <2>2. PICK i, p \in Nat : /\ i = (completed + j) - 1 /\ p = Origin + completed + j - 1
                            /\ i < base /\ p - Origin = i
    BY <2>1, OriginNat
  <2>3. start' <= Origin + completed /\ Origin + completed' <= start' + Len(samples')
    BY <1>6, <1>7 DEF OlaInv
  <2>4. p >= start' /\ released'[j] = Held(p)'
    BY <1>5, <1>6, <1>12, <2>2, <2>3, ReleasedSample
  <2>5. released'[j] = WholeTimeline(ms, terminal_, k, i)
    BY <1>10, <2>2, <2>4
  <2>6. Len(ms) \in k .. Len(ms)
    BY <1>1
  <2>7. WholeTimeline(ms, terminal_, Len(ms), i) = WholeTimeline(ms, terminal_, k, i)
    BY <1>2, <2>2, <2>6, TimelineSettled
  <2> QED
    BY <2>2, <2>5, <2>7
<1>13. released' \in Seq(Seq(Contributions))
  BY <1>6 DEF OlaTypeOK
<1> QED
  BY <1>6, <1>8, <1>11, <1>12, <1>13 DEF HandsOut

\* The tail is the last block's right half of the timeline.
LEMMA FinishMirrors ==
    ASSUME OlaTypeOK, OlaInv, NEW ms \in Seq(Modes), NEW terminal_ \in Modes,
           Placed(ms, terminal_, Len(ms)), Mirrors(ms, terminal_, Len(ms)), OlaFinish
    PROVE  /\ completed' = IF Len(ms) = 0 THEN 0
                           ELSE Centre(ms, Len(ms)) + RightHalf(ms, terminal_, Len(ms))
           /\ HandsOut(ms, terminal_)
<1> DEFINE n == Len(ms)
<1>1. /\ n \in Nat /\ Len(samples) \in Nat /\ completed \in Nat /\ supportEnd \in Nat
      /\ start \in Nat /\ base \in Nat
  BY LenProperties DEF OlaTypeOK
<1>2. /\ samples' = samples /\ start' = start
      /\ completed' = Greatest(completed, supportEnd - Origin)
      /\ released' = ReleasedSince(completed)
  BY DEF OlaFinish
<1>3. OlaTypeOK' /\ completed <= completed' /\ Len(released') = completed' - completed
  BY OlaFinishInv
<1> HIDE DEF n
<1>4. completed' = IF n = 0 THEN 0 ELSE Centre(ms, n) + RightHalf(ms, terminal_, n)
  <2>1. CASE n = 0
    <3>1. completed = 0 /\ supportEnd = 0
      BY <2>1 DEF Placed, n
    <3> QED
      BY <1>2, <2>1, <3>1, OriginNat DEF Greatest
  <2>2. CASE n # 0
    <3> DEFINE c == Centre(ms, n)
               h == RightHalf(ms, terminal_, n)
    <3>1. n \in 1 .. Len(ms)
      BY <1>1, <2>2 DEF n
    <3>2. c \in Nat /\ h \in Nat
      BY <3>1, CentreSteps, RightHalfNat
    <3>3. completed = c /\ supportEnd = Origin + (c + h)
      BY <2>2 DEF Placed, n
    <3> HIDE DEF c, h
    <3>4. supportEnd - Origin = c + h
      BY <3>2, <3>3, OriginNat
    <3>5. Greatest(c, c + h) = c + h
      BY <3>2 DEF Greatest
    <3>6. completed' = c + h
      BY <1>2, <3>3, <3>4, <3>5
    <3> QED
      BY <2>2, <3>6 DEF c, h
  <2> QED
    BY <2>1, <2>2
<1>5. start' <= Origin + completed /\ Origin + completed' <= start' + Len(samples')
  BY <1>1, <1>2, OriginNat DEF OlaInv, Greatest
<1>6. ASSUME NEW j \in 1 .. completed' - completed
      PROVE  released'[j] = WholeTimeline(ms, terminal_, n, (completed + j) - 1)
  <2>1. completed \in Nat /\ completed' \in Nat
    BY <1>3 DEF OlaTypeOK
  <2>2. PICK i, p \in Nat : /\ i = (completed + j) - 1 /\ p = Origin + completed + j - 1
                            /\ p - Origin = i
    <3>1. j \in Nat /\ 1 <= j
      BY <1>6, <2>1
    <3> QED
      BY <2>1, <3>1, OriginNat
  <2>3. p >= start' /\ released'[j] = Held(p)'
    BY <1>2, <1>3, <1>5, <1>6, <2>2, ReleasedSample
  <2>4. Held(p)' = Held(p) /\ p >= start
    BY <1>2, <2>3 DEF Held
  <2>5. Held(p) = WholeTimeline(ms, terminal_, n, i)
    BY <2>2, <2>4 DEF Mirrors, n
  <2> QED
    BY <2>2, <2>3, <2>4, <2>5
<1>7. released' \in Seq(Seq(Contributions))
  BY <1>3 DEF OlaTypeOK
<1> QED
  BY <1>3, <1>4, <1>6, <1>7 DEF HandsOut, n

=============================================================================
