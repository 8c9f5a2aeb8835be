----------------------- MODULE RepeatedEncode_proofs ------------------------
(***************************************************************************)
(* The answer of a conversion depends on its source alone: any chunking is *)
(* answered with the same frames, and encode_pcm decides what the stream   *)
(* does, for a source of any length, whatever the detector hears.          *)
(*                                                                         *)
(* Course(Q) is what the mode loop would decide if it knew the whole queue *)
(* Q beforehand.  A conversion that has heard a part of Q follows it: a    *)
(* scan decides only on slots no later quantum changes.                    *)
(***************************************************************************)
EXTENDS RepeatedEncode, StreamEncode_proofs

-----------------------------------------------------------------------------
(* The mode loop that knows the whole queue. *)

\* Where it stands before a decision.
CursorRecords == [scan : Nat, found : Nat, next : Nat, prev : Nat \cup {-1},
                  before : Modes, mode : Modes]

CenterAt(c) == c.next + LongHalf
BoundaryAt(c) == Quarter(c.mode) + c.next + 4 * Quarter(1) + Quarter(0)

Cursors ==
    {c \in CursorRecords : /\ c.scan % Hop = 0 /\ c.next % Hop = 0
                           /\ c.scan < BoundaryAt(c)}

FirstCursor == [scan |-> LongHalf, found |-> 0, next |-> 0, prev |-> -1,
                before |-> 0, mode |-> 0]

\* The transients ahead of the block.
Transients(Q, c) ==
    {p \in Nat :
        /\ c.scan <= p /\ p < BoundaryAt(c) /\ p % Hop = 0
        /\ CenterAt(c) < p /\ p \div Hop \in Q}

FollowingOf(Q, c) == IF Transients(Q, c) # {} THEN 0 ELSE 1

FoundAt(Q, c) == IF Transients(Q, c) # {} THEN Min(Transients(Q, c)) ELSE c.found

NextCursor(Q, c) ==
    [scan   |-> IF Transients(Q, c) # {} THEN Min(Transients(Q, c))
                ELSE BoundaryAt(c) - Hop,
     found  |-> FoundAt(Q, c),
     next   |-> c.next + Quarter(c.mode) + Quarter(FollowingOf(Q, c)),
     prev   |-> c.next,
     before |-> c.mode,
     mode   |-> FollowingOf(Q, c)]

Course(Q) ==
    LET cursor[k \in Nat] ==
          IF k = 0 THEN FirstCursor ELSE NextCursor(Q, cursor[k - 1])
    IN  cursor

\* The code of the block at a cursor; that of the last block.
CodeAt(Q, c) ==
    IF c.mode = 1
    THEN IF c.before # 0 /\ FollowingOf(Q, c) # 0 THEN 3 ELSE 2
    ELSE LET lower == CenterAt(c) - 2 * Quarter(0)
             upper == CenterAt(c) + 2 * Quarter(0)
         IN  IF \/ lower <= FoundAt(Q, c) /\ FoundAt(Q, c) < upper
                \/ \E s \in lower \div Hop .. upper \div Hop - 1 : s \in Q
             THEN 0 ELSE 1

LastCodeAt(Q, c) ==
    IF c.mode = 1 THEN IF c.before # 0 THEN 3 ELSE 2 ELSE CodeAt(Q, c)

CodeOf(Q, k, ends) ==
    IF ends THEN LastCodeAt(Q, Course(Q)[k - 1]) ELSE CodeAt(Q, Course(Q)[k - 1])

\* The plan of block k, and of the last one.
PlanOf(Q, k, ends) ==
    LET c == Course(Q)[k - 1]
    IN  [index |-> k - 1, previous |-> c.before, current |-> c.mode,
         following |-> IF ends THEN 1 ELSE FollowingOf(Q, c),
         start |-> c.next + LongHalf - 2 * Quarter(c.mode),
         end |-> c.next + LongHalf + 2 * Quarter(c.mode)]

\* What was heard of the detector stream up to `reach` decides the block.
Known(Q, c, reach) ==
    \E p \in Nat :
        /\ p % Hop = 0 /\ c.scan <= p /\ p + 3 * Hop <= reach
        /\ BoundaryAt(c) <= p \/ p \in Transients(Q, c)

\* A source of `length` samples decides m blocks and no more.
TailAt(Q, length, m) ==
    /\ \A j \in 0 .. m - 1 : /\ Course(Q)[j].prev < length
                             /\ Known(Q, Course(Q)[j], LongHalf + length)
    /\ \/ length <= Course(Q)[m].prev
       \/ ~Known(Q, Course(Q)[m], LongHalf + length)

TrainingAt(Q, length, m) == Least(Long, LongHalf + length - Course(Q)[m].next)

-----------------------------------------------------------------------------
(* What a conversion has done of it. *)

\* The samples heard of the detector stream.
Reached == quanta * Hop + Hop

\* The queue and Q are the same where no later quantum sets a slot.
Agrees(Q) == \A s \in Nat : s + 1 < quanta => (s \in queue <=> s \in Q)

At(Q) == Course(Q)[Len(modes)]

\* The modes decided are those of Q, and the cursor is where Q leads.
Follows(Q) ==
    /\ nextCenter = At(Q).next /\ previousCenter = At(Q).prev
    /\ previousMode = At(Q).before /\ currentMode = At(Q).mode
    /\ selected = At(Q).found
    /\ At(Q).scan <= scanCursor
    /\ \A p \in Transients(Q, At(Q)) : scanCursor <= p
    /\ \A k \in 1 .. Len(modes) :
          /\ modes[k] = Course(Q)[k - 1].mode
          /\ Course(Q)[k - 1].prev < total
          /\ Known(Q, Course(Q)[k - 1], Reached)

\* The last block is planned as such.
Settled == pc \in {"flush", "plan", "done"}

\* The codes and the plans are those of Q.
Recorded(Q) ==
    pc # "failed" =>
        /\ \A k \in 1 .. Len(codes) :
              codes[k] = CodeOf(Q, k, Settled /\ k = Len(modes))
        /\ \A k \in 1 .. Len(plans) :
              plans[k] = PlanOf(Q, k, Settled /\ k = Len(modes))

SessionSound ==
    /\ SessionTypeOK /\ modes \in Seq(Modes)
    /\ scanCursor % Hop = 0 /\ nextCenter % Hop = 0
    /\ scanCursor < Boundary
    /\ Len(codes) = Len(modes)

\* The tail of a stream is predicted where its source decides no more.
TailFollows(Q) ==
    /\ pc = "tail" => TailAt(Q, total, Len(modes))
    /\ pc \in {"tailIngest", "tailScan", "flush", "done"} =>
          \E m \in 0 .. Len(modes) :
             TailAt(Q, total, m) /\ training = TrainingAt(Q, total, m)

\* The frames of a stream are those of its plans.
PastOf(plan, length, window) ==
    LET past == (WindowEnd(plan) - LongHalf) - length
    IN  IF past > 0
        THEN [trained |-> window, predicted |-> Least(past, Long)]
        ELSE [trained |-> 0, predicted |-> 0]

FrameOf(plan, code, length, window) ==
    [plan |-> plan, past |-> PastOf(plan, length, window), code |-> code]

FramesFollow ==
    \A k \in 1 .. Len(frames) :
        /\ frames[k] = FrameOf(plans[k], codes[k], total, training)
        /\ training = NoTail => WindowEnd(plans[k]) - LongHalf <= total

-----------------------------------------------------------------------------
(* The whole answer, as Q has it. *)

Decided(Q, length, r) ==
    LET n == Len(r.modes)
    IN  /\ r.modes \in Seq(Modes) /\ r.plans \in Seq(PlanRecords)
        /\ r.codes \in Seq(0 .. 3)
        /\ Len(r.plans) = n /\ Len(r.codes) = n
        /\ \A k \in 1 .. n :
              /\ r.modes[k] = Course(Q)[k - 1].mode
              /\ r.plans[k] = PlanOf(Q, k, k = n)
              /\ r.codes[k] = CodeOf(Q, k, k = n)
              /\ Course(Q)[k - 1].prev < length
        /\ length <= Course(Q)[n].prev

Trained(Q, r) ==
    \E m \in 0 .. Len(r.modes) :
        TailAt(Q, r.total, m) /\ r.training = TrainingAt(Q, r.total, m)

Framed(r) ==
    /\ r.frames \in Seq(FrameRecords) /\ Len(r.frames) = Len(r.plans)
    /\ \A k \in 1 .. Len(r.frames) :
          r.frames[k] = FrameOf(r.plans[k], r.codes[k], r.total, r.training)

Complete(Q, r) ==
    /\ r.total \in Nat /\ MinFrames <= r.total
    /\ Decided(Q, r.total, r) /\ Trained(Q, r) /\ Framed(r)

Result == [total |-> total, training |-> training, modes |-> modes,
           plans |-> plans, codes |-> codes, frames |-> frames]

\* The slots the first quanta set.
QueueOf(words, count) ==
    {s \in Nat : \E q \in 0 .. count - 1 : s \in Slots(q, words[q + 1])}

\* The queue of the first encode.
Known1 == QueueOf(heard, Len(heard))

-----------------------------------------------------------------------------
(* encode_pcm. *)

PlannerFollows(Q) ==
    pc = "plan" /\ Len(plans) < Len(modes) =>
        /\ planner.previous = Course(Q)[Len(plans)].before
        /\ planner.base = Course(Q)[Len(plans)].next

SourceTurn == pc \in {"idle", "ingest", "scan", "tail"}

BatchInv ==
    /\ SessionSound
    /\ pc \in {"idle", "ingest", "scan", "tail", "tailIngest", "tailScan",
               "finalize", "plan", "done", "failed"}
    /\ IF pc = "idle"
       THEN quanta = 0 /\ modes = <<>> /\ total = 0
       ELSE total = answer.total
    /\ SourceTurn => training = Long /\ Reached <= LongHalf + answer.total
    /\ training \in Int
    /\ pc \in {"tailIngest", "tailScan", "finalize", "plan", "done"} =>
          Reached <= LongHalf + answer.total + BatchTail
    /\ pc \in {"tailScan", "finalize", "plan", "done"} =>
          LongHalf + total + BatchTail < Reached + Hop
    /\ pc = "tailIngest" => StreamDecidesNoLess
    /\ pc \in {"finalize", "plan", "done"} => total <= previousCenter
    /\ IF pc \in {"plan", "done", "failed"}
       THEN plans \in Seq(PlanRecords) /\ Len(plans) <= Len(modes)
       ELSE plans = <<>>
    /\ pc = "plan" => /\ planner \in PlannerStates
                      /\ planner.cursor = LongHalf /\ planner.emitted = Len(plans)
    /\ pc = "done" => Len(plans) = Len(modes)

-----------------------------------------------------------------------------
(* The inductive invariant. *)

FirstInv == Len(heard) = quanta /\ queue = QueueOf(heard, quanta)

AgainInv ==
    /\ queue = QueueOf(heard, quanta)
    /\ total <= answer.total /\ pc # "refused"
    /\ pc \in {"drain", "tail", "tailIngest", "tailScan", "flush", "done"} =>
          total = answer.total
    /\ training # NoTail => training = answer.training

AnswerInv ==
    /\ Complete(Known1, answer)
    /\ LongHalf + answer.total + StreamTail < Len(heard) * Hop + 2 * Hop

IsTurn ==
    /\ turn \in {"stream", "again", "batch"}
    /\ heard \in Seq(FlagWords)
    /\ turn = "stream" => FirstInv
    /\ turn = "again" => AgainInv
    /\ turn = "batch" =>
          /\ BatchInv
          /\ SourceTurn \/ training = answer.training =>
                queue = QueueOf(heard, quanta)
    /\ turn \in {"stream", "again"} => StreamInv /\ FramesFollow
    /\ turn \in {"again", "batch"} => AnswerInv

CourseInv(Q) ==
    Agrees(Q) =>
        /\ Follows(Q) /\ Recorded(Q)
        /\ IF turn = "batch" THEN PlannerFollows(Q) ELSE TailFollows(Q)

RepeatInv == IsTurn /\ \A Q \in SUBSET Nat : CourseInv(Q)

-----------------------------------------------------------------------------
(* The course of a queue. *)

\* The cursor's fields, and where the boundary of its block lies.
LEMMA CursorFields ==
    ASSUME NEW c \in Cursors
    PROVE  /\ c.scan \in Nat /\ c.found \in Nat /\ c.next \in Nat
           /\ c.prev \in Nat \cup {-1} /\ c.before \in Modes /\ c.mode \in Modes
           /\ Quarter(c.mode) \in Nat /\ Quarter(c.mode) <= Quarter(1)
           /\ Quarter(0) <= Quarter(c.mode)
           /\ c.scan % Hop = 0 /\ c.next % Hop = 0 /\ c.scan < BoundaryAt(c)
           /\ BoundaryAt(c) \in Nat /\ CenterAt(c) \in Nat
           /\ CenterAt(c) = c.next + 2 * Quarter(1)
           /\ Whole(BoundaryAt(c)) /\ Whole(CenterAt(c)) /\ Whole(c.scan)
<1>1. /\ c.scan \in Nat /\ c.found \in Nat /\ c.next \in Nat
      /\ c.prev \in Nat \cup {-1} /\ c.before \in Modes /\ c.mode \in Modes
      /\ c.scan % Hop = 0 /\ c.next % Hop = 0 /\ c.scan < BoundaryAt(c)
  BY DEF Cursors, CursorRecords
<1>2. /\ Quarter(c.mode) \in Nat /\ Quarter(c.mode) <= Quarter(1)
      /\ Quarter(0) <= Quarter(c.mode)
      /\ Quarter(0) \in Nat /\ Quarter(1) \in Nat
  BY <1>1, BlockQuarter, Sizes
<1>3. Whole(Quarter(c.mode)) /\ Whole(Quarter(0)) /\ Whole(Quarter(1))
  BY <1>1, QuarterHops DEF Whole, Modes
<1>4. Whole(c.next) /\ Whole(c.scan)
  BY <1>1, WholeRemainder
<1>5. ASSUME NEW x \in Int, NEW a \in Int, NEW b \in Int, NEW d \in Int,
             Whole(x), Whole(a), Whole(b), Whole(d)
      PROVE  Whole(a + x + 4 * d + b) /\ Whole(x + 2 * d)
  <2>1. Whole(d + d)
    BY <1>5, WholeSum
  <2>2. Whole((d + d) + (d + d))
    BY <2>1, WholeSum
  <2>3. Whole(a + x)
    BY <1>5, WholeSum
  <2>4. Whole((a + x) + ((d + d) + (d + d)))
    BY <2>2, <2>3, WholeSum
  <2>5. Whole(((a + x) + ((d + d) + (d + d))) + b)
    BY <1>5, <2>4, WholeSum
  <2>6. Whole(x + (d + d))
    BY <1>5, <2>1, WholeSum
  <2>7. /\ ((a + x) + ((d + d) + (d + d))) + b = a + x + 4 * d + b
        /\ x + (d + d) = x + 2 * d
    OBVIOUS
  <2> QED
    BY <2>5, <2>6, <2>7
<1>6. c.next \in Int /\ Quarter(c.mode) \in Int /\ Quarter(0) \in Int /\ Quarter(1) \in Int
  BY <1>1, <1>2
<1>7. Whole(BoundaryAt(c)) /\ Whole(c.next + 2 * Quarter(1))
  BY <1>3, <1>4, <1>5, <1>6 DEF BoundaryAt
<1>8. BoundaryAt(c) \in Nat
  BY <1>1, <1>2 DEF BoundaryAt
<1>9. CenterAt(c) = c.next + 2 * Quarter(1) /\ CenterAt(c) \in Nat
  BY <1>1, <1>2, Sizes DEF CenterAt
<1> QED
  BY <1>1, <1>2, <1>4, <1>7, <1>8, <1>9

\* The first of the transients ahead.
LEMMA FirstTransient ==
    ASSUME NEW Q, NEW c, Transients(Q, c) # {}
    PROVE  /\ Min(Transients(Q, c)) \in Transients(Q, c)
           /\ Min(Transients(Q, c)) \in Nat
           /\ \A p \in Transients(Q, c) : Min(Transients(Q, c)) <= p
<1>1. Transients(Q, c) \in SUBSET Nat
  BY DEF Transients
<1>2. \E x \in Transients(Q, c) : \A y \in Transients(Q, c) : x <= y
  BY <1>1, NatLeast
<1> QED
  BY <1>1, <1>2 DEF Min

\* A block leads to the next.
LEMMA NextCursorType ==
    ASSUME NEW Q \in SUBSET Nat, NEW c \in Cursors
    PROVE  NextCursor(Q, c) \in Cursors
<1> DEFINE d == NextCursor(Q, c)
           f == FollowingOf(Q, c)
<1>1. /\ c.scan \in Nat /\ c.found \in Nat /\ c.next \in Nat /\ c.mode \in Modes
      /\ Quarter(c.mode) \in Nat /\ Quarter(0) <= Quarter(c.mode)
      /\ c.next % Hop = 0 /\ BoundaryAt(c) \in Nat /\ Whole(BoundaryAt(c))
  BY CursorFields
<1>2. f \in Modes /\ Quarter(f) \in Nat /\ Quarter(0) <= Quarter(f)
  BY BlockQuarter DEF FollowingOf, Modes
<1>3. /\ Quarter(0) \in Nat /\ Quarter(1) \in Nat /\ Hop \in Nat /\ 0 < Hop
      /\ Hop <= 2 * Quarter(1)
  BY Sizes, Bounds
<1>4. d.next \in Nat /\ d.next = c.next + Quarter(c.mode) + Quarter(f)
  BY <1>1, <1>2 DEF NextCursor
<1>5. d.next % Hop = 0
  <2>1. Whole(c.next) /\ Whole(Quarter(c.mode)) /\ Whole(Quarter(f))
    BY <1>1, <1>2, WholeRemainder, QuarterHops DEF Whole
  <2>2. ASSUME NEW x \in Int, NEW a \in Int, NEW b \in Int,
               Whole(x), Whole(a), Whole(b)
        PROVE  Whole(x + a + b)
    <3>1. Whole(x + a)
      BY <2>2, WholeSum
    <3> QED
      BY <2>2, <3>1, WholeSum
  <2>3. c.next \in Int /\ Quarter(c.mode) \in Int /\ Quarter(f) \in Int
    BY <1>1, <1>2
  <2> HIDE DEF f
  <2>4. Whole(c.next + Quarter(c.mode) + Quarter(f))
    BY <2>1, <2>2, <2>3
  <2> QED
    BY <1>4, <2>4, WholeRemainder
<1>6. d.scan \in Nat /\ d.scan % Hop = 0 /\ d.scan < BoundaryAt(c) /\ d.found \in Nat
  <2>1. CASE Transients(Q, c) # {}
    <3>1. Min(Transients(Q, c)) \in Transients(Q, c)
      BY <2>1, FirstTransient
    <3>2. d.scan = Min(Transients(Q, c)) /\ d.found = Min(Transients(Q, c))
      BY <2>1 DEF NextCursor, FoundAt
    <3> QED
      BY <3>1, <3>2 DEF Transients
  <2>2. CASE Transients(Q, c) = {}
    <3>1. d.scan = BoundaryAt(c) - Hop /\ d.found = c.found
      BY <2>2 DEF NextCursor, FoundAt
    <3>2. Whole(Hop)
      BY <1>3 DEF Whole
    <3>3. Whole(BoundaryAt(c) - Hop)
      BY <1>1, <1>3, <3>2, WholeSum
    <3>4. BoundaryAt(c) - Hop \in Nat
      BY <1>1, <1>3 DEF BoundaryAt
    <3> QED
      BY <1>1, <1>3, <3>1, <3>3, <3>4, WholeRemainder
  <2> QED
    BY <2>1, <2>2
<1>7. d.mode = f /\ d.before = c.mode /\ d.prev = c.next
  BY DEF NextCursor
<1>8. BoundaryAt(c) <= BoundaryAt(d) /\ BoundaryAt(d) \in Nat
  <2>1. /\ BoundaryAt(d) = Quarter(f) + d.next + 4 * Quarter(1) + Quarter(0)
        /\ BoundaryAt(c) = Quarter(c.mode) + c.next + 4 * Quarter(1) + Quarter(0)
    BY <1>7 DEF BoundaryAt
  <2> HIDE DEF d, f
  <2> QED
    BY <1>1, <1>2, <1>3, <1>4, <2>1
<1>9. d.scan < BoundaryAt(d)
  BY <1>1, <1>6, <1>8
<1>10. d = [scan |-> d.scan, found |-> d.found, next |-> d.next, prev |-> d.prev,
            before |-> d.before, mode |-> d.mode]
  BY DEF NextCursor
<1> HIDE DEF d
<1>11. d \in CursorRecords
  BY <1>1, <1>2, <1>4, <1>6, <1>7, <1>10 DEF CursorRecords
<1>12. d \in Cursors
  BY <1>5, <1>6, <1>9, <1>11 DEF Cursors
<1> QED
  BY <1>12 DEF d

\* The first block's cursor.
LEMMA FirstCursorType == FirstCursor \in Cursors
<1>1. /\ Quarter(0) \in Nat /\ Quarter(1) \in Nat /\ 0 < Quarter(0)
      /\ LongHalf = 2 * Quarter(1) /\ Hop \in Nat /\ 0 < Hop
  BY Sizes, Bounds
<1>2. LongHalf % Hop = 0
  BY HopAssumption
<1>3. 0 % Hop = 0
  BY <1>1
<1>4. BoundaryAt(FirstCursor) = Quarter(0) + 0 + 4 * Quarter(1) + Quarter(0)
  BY DEF BoundaryAt, FirstCursor
<1>5. FirstCursor \in CursorRecords
  BY <1>1 DEF FirstCursor, CursorRecords, Modes
<1> QED
  BY <1>1, <1>2, <1>3, <1>4, <1>5 DEF FirstCursor, Cursors

\* The course is the mode loop, decision by decision.
LEMMA CourseUnfolds ==
    ASSUME NEW Q \in SUBSET Nat
    PROVE  /\ Course(Q)[0] = FirstCursor
           /\ \A k \in Nat : /\ Course(Q)[k] \in Cursors
                             /\ Course(Q)[k + 1] = NextCursor(Q, Course(Q)[k])
<1> DEFINE unfolds(g) == g = [k \in Nat |-> IF k = 0 THEN FirstCursor
                                            ELSE NextCursor(Q, g[k - 1])]
           step == [c \in Cursors |-> NextCursor(Q, c)]
<1>1. step \in [Cursors -> Cursors]
  BY NextCursorType
<1>11. \A c \in Cursors : step[c] = NextCursor(Q, c)
  OBVIOUS
<1> HIDE DEF step
<1>2. PICK f \in [Nat -> Cursors] :
          f[0] = FirstCursor /\ \A k \in Nat : f[k + 1] = step[f[k]]
  BY <1>1, FirstCursorType, NatIterate
<1>3. unfolds(f)
  <2>1. ASSUME NEW k \in Nat
        PROVE  f[k] = IF k = 0 THEN FirstCursor ELSE NextCursor(Q, f[k - 1])
    <3>1. CASE k = 0
      BY <1>2, <3>1
    <3>2. CASE k # 0
      <4>1. k - 1 \in Nat /\ (k - 1) + 1 = k
        BY <3>2
      <4>2. f[(k - 1) + 1] = step[f[k - 1]] /\ f[k - 1] \in Cursors
        BY <1>2, <4>1
      <4> QED
        BY <1>11, <3>2, <4>1, <4>2
    <3> QED
      BY <3>1, <3>2
  <2> QED
    BY <2>1
<1> DEFINE g == CHOOSE h : unfolds(h)
<1>4. Course(Q) = g
  BY DEF Course
<1>5. unfolds(g)
  BY <1>3
<1> HIDE DEF g
<1>6. g[0] = FirstCursor
  BY <1>5
<1>7. ASSUME NEW k \in Nat PROVE g[k + 1] = NextCursor(Q, g[k])
  <2>1. k + 1 \in Nat /\ k + 1 # 0 /\ (k + 1) - 1 = k
    OBVIOUS
  <2> QED
    BY <1>5, <2>1
<1> DEFINE typed == {k \in Nat : g[k] \in Cursors}
<1>8. 0 \in typed
  BY <1>6, FirstCursorType
<1>9. ASSUME NEW k \in Nat, k \in typed PROVE k + 1 \in typed
  BY <1>7, <1>9, NextCursorType
<1> HIDE DEF typed
<1>10. \A k \in Nat : k \in typed
  BY <1>8, <1>9, NatInduct
<1> QED
  BY <1>4, <1>6, <1>7, <1>10 DEF typed

-----------------------------------------------------------------------------
(* A scan follows the course. *)

\* The whole hops below the limit of the scan.
LEMMA WholeBelow ==
    ASSUME quanta \in Nat, NEW p \in Nat, p % Hop = 0
    PROVE  /\ p < Limit <=> p + 3 * Hop <= Reached
           /\ p < Limit => p \div Hop + 1 < quanta
           /\ p \div Hop \in Nat /\ p = (p \div Hop) * Hop
<1>1. Hop \in Nat /\ 0 < Hop
  BY Bounds
<1>2. PICK k \in Nat : k = p \div Hop /\ p = k * Hop
  <2>1. p \div Hop \in Int /\ p = Hop * (p \div Hop) + (p % Hop)
    BY <1>1, DivideInt
  <2> DEFINE k == p \div Hop
  <2>2. k \in Int /\ p = k * Hop
    BY <1>1, <2>1
  <2> HIDE DEF k
  <2>3. 0 * Hop <= k * Hop
    BY <1>1, <2>2
  <2>4. 0 <= k
    BY <1>1, <2>2, <2>3, TimesMonotone
  <2> QED
    BY <2>2, <2>4 DEF k
<1>3. k + 2 <= quanta <=> (k + 2) * Hop <= quanta * Hop
  BY <1>1, <1>2, TimesMonotone
<1>4. quanta <= k + 1 <=> quanta * Hop <= (k + 1) * Hop
  BY <1>1, <1>2, TimesMonotone
<1>5. (k + 1) * Hop = p + Hop /\ (k + 2) * Hop = p + 2 * Hop /\ quanta * Hop \in Int
  BY <1>1, <1>2
<1>6. Limit = quanta * Hop - Hop /\ Reached = quanta * Hop + Hop
  BY DEF Limit, Generated, Reached
<1>7. p < Limit <=> k + 1 < quanta
  BY <1>1, <1>2, <1>4, <1>5, <1>6
<1>8. p + 3 * Hop <= Reached <=> k + 2 <= quanta
  BY <1>1, <1>2, <1>3, <1>5, <1>6
<1> QED
  BY <1>2, <1>7, <1>8

\* A cursor of the selector that has not passed a transient of the course.
InStep(Q, c) ==
    /\ nextCenter = c.next /\ currentMode = c.mode /\ selected = c.found
    /\ c.scan <= scanCursor
    /\ \A p \in Transients(Q, c) : scanCursor <= p

\* The scan finds the transients of the course that are heard, and answers when
\* and only when what was heard is enough.
LEMMA ScanFollows ==
    ASSUME SessionTypeOK, scanCursor % Hop = 0, scanCursor < Boundary,
           NEW Q \in SUBSET Nat, NEW c \in Cursors, Agrees(Q), InStep(Q, c)
    PROVE  /\ Center = CenterAt(c) /\ Boundary = BoundaryAt(c)
           /\ Status \in {-1, 0, 1}
           /\ Status >= 0 <=> Known(Q, c, Reached)
           /\ Status = 0 => /\ Transients(Q, c) # {}
                            /\ ScanEnd = Min(Transients(Q, c)) /\ Found = ScanEnd
                            /\ Found < Limit
           /\ Status = 1 => /\ Transients(Q, c) = {}
                            /\ ScanEnd = BoundaryAt(c) - Hop /\ Found = c.found
                            /\ BoundaryAt(c) < Limit
           /\ Status < 0 => /\ scanCursor <= ScanEnd
                            /\ \A p \in Transients(Q, c) : ScanEnd <= p
<1>1. /\ quanta \in Nat /\ scanCursor \in Nat /\ nextCenter \in Nat
      /\ currentMode \in Modes /\ selected \in Nat /\ Whole(scanCursor)
  BY WholeRemainder DEF SessionTypeOK
<1>2. Hop \in Nat /\ 0 < Hop
  BY Bounds
<1>3. Boundary = BoundaryAt(c) /\ Center = CenterAt(c)
  <2>1. /\ Center = nextCenter + 2 * Quarter(1)
        /\ Boundary = nextCenter + Quarter(currentMode) + 4 * Quarter(1) + Quarter(0)
    BY BoundaryValue
  <2>2. CenterAt(c) = c.next + 2 * Quarter(1)
    BY CursorFields
  <2>3. /\ nextCenter \in Nat /\ Quarter(currentMode) \in Nat
        /\ Quarter(1) \in Nat /\ Quarter(0) \in Nat
    BY <1>1, BlockQuarter, Sizes
  <2> QED
    BY <2>1, <2>2, <2>3 DEF BoundaryAt, InStep
<1>4. BoundaryAt(c) \in Nat /\ CenterAt(c) \in Nat /\ Whole(BoundaryAt(c))
      /\ BoundaryAt(c) % Hop = 0
  BY CursorFields, WholeRemainder
<1>5. Limit \in Int
  BY <1>1, <1>2 DEF Limit, Generated
<1>6. ASSUME NEW p
      PROVE  p \in Positions <=> p \in Nat /\ p % Hop = 0 /\ scanCursor <= p /\ p < Limit
  <2>1. CASE p \in Nat
    <3>1. (p - scanCursor) % Hop = 0 <=> p % Hop = 0
      <4>1. ASSUME Whole(p - scanCursor) PROVE Whole(p)
        <5>1. Whole((p - scanCursor) + scanCursor)
          BY <1>1, <2>1, <4>1, WholeSum
        <5>2. (p - scanCursor) + scanCursor = p
          BY <1>1, <2>1
        <5> QED
          BY <5>1, <5>2
      <4>2. ASSUME Whole(p) PROVE Whole(p - scanCursor)
        BY <1>1, <2>1, <4>2, WholeSum
      <4>3. p \in Int /\ p - scanCursor \in Int
        BY <1>1, <2>1
      <4> QED
        BY <4>1, <4>2, <4>3, WholeRemainder
    <3> QED
      BY <1>1, <1>5, <2>1, <3>1 DEF Positions
  <2>2. CASE p \notin Nat
    BY <1>1, <1>5, <2>2 DEF Positions
  <2> QED
    BY <2>1, <2>2
<1>7. ASSUME NEW p
      PROVE  p \in Hits <=> p \in Transients(Q, c) /\ p < Limit
  <2>1. ASSUME p \in Hits PROVE p \in Transients(Q, c) /\ p < Limit
    <3>1. p \in Positions /\ p < Boundary /\ p \div Hop \in queue /\ p > Center
      BY <2>1 DEF Hits, Visited
    <3>2. p \in Nat /\ p % Hop = 0 /\ scanCursor <= p /\ p < Limit
      BY <1>6, <3>1
    <3>3. p \div Hop \in Nat /\ p \div Hop + 1 < quanta
      BY <1>1, <3>2, WholeBelow
    <3>4. p \div Hop \in Q
      BY <3>1, <3>3 DEF Agrees
    <3>5. c.scan <= p
      BY <1>1, <3>2, CursorFields DEF InStep
    <3>6. CenterAt(c) < p
      BY <1>3, <1>4, <3>1, <3>2
    <3> QED
      BY <1>3, <3>1, <3>2, <3>4, <3>5, <3>6 DEF Transients
  <2>2. ASSUME p \in Transients(Q, c), p < Limit PROVE p \in Hits
    <3>1. /\ p \in Nat /\ p % Hop = 0 /\ p < BoundaryAt(c) /\ CenterAt(c) < p
          /\ p \div Hop \in Q /\ scanCursor <= p
      BY <2>2 DEF Transients, InStep
    <3>2. p \in Positions
      BY <1>6, <2>2, <3>1
    <3>3. p \div Hop \in Nat /\ p \div Hop + 1 < quanta
      BY <1>1, <2>2, <3>1, WholeBelow
    <3>4. p \div Hop \in queue
      BY <3>1, <3>3 DEF Agrees
    <3>5. p > Center
      BY <1>3, <1>4, <3>1
    <3> QED
      BY <1>3, <3>1, <3>2, <3>4, <3>5 DEF Hits, Visited
  <2> QED
    BY <2>1, <2>2
<1>8. ASSUME Hits # {}
      PROVE  /\ Transients(Q, c) # {} /\ Min(Hits) = Min(Transients(Q, c))
             /\ Min(Hits) < Limit /\ Known(Q, c, Reached)
  <2>1. Transients(Q, c) # {}
    BY <1>7, <1>8
  <2> DEFINE m == Min(Transients(Q, c))
  <2>2. m \in Transients(Q, c) /\ m \in Nat /\ \A p \in Transients(Q, c) : m <= p
    BY <2>1, FirstTransient
  <2> HIDE DEF m
  <2>3. PICK h \in Hits : TRUE
    BY <1>8
  <2>4. h \in Transients(Q, c) /\ h < Limit /\ m <= h /\ h \in Nat
    BY <1>7, <2>2, <2>3 DEF Transients
  <2>5. m < Limit
    BY <1>5, <2>2, <2>4
  <2>6. m \in Hits /\ \A p \in Hits : m <= p
    BY <1>7, <2>2, <2>5
  <2>7. Min(Hits) = m
    <3> DEFINE least(x) == x \in Hits /\ \A y \in Hits : x <= y
    <3>1. ASSUME NEW x, least(x) PROVE x = m
      <4>1. x \in Nat /\ x <= m /\ m <= x
        BY <1>7, <2>6, <3>1 DEF Transients
      <4> QED
        BY <2>2, <4>1
    <3>2. Min(Hits) = CHOOSE x \in Hits : \A y \in Hits : x <= y
      BY DEF Min
    <3> QED
      BY <2>6, <3>1, <3>2
  <2>8. Known(Q, c, Reached)
    <3>1. m % Hop = 0 /\ c.scan <= m
      BY <2>2 DEF Transients
    <3>2. m + 3 * Hop <= Reached
      BY <1>1, <2>2, <2>5, <3>1, WholeBelow
    <3> QED
      BY <2>2, <3>1, <3>2 DEF Known
  <2> QED
    BY <2>1, <2>5, <2>7, <2>8 DEF m
<1>9. ASSUME NEW p \in Positions, p \notin Visited
      PROVE  /\ BoundaryAt(c) <= p /\ BoundaryAt(c) < Limit /\ Known(Q, c, Reached)
  <2>1. p \in Nat /\ p % Hop = 0 /\ scanCursor <= p /\ p < Limit
    BY <1>6, <1>9
  <2>2. BoundaryAt(c) <= p
    BY <1>3, <1>4, <1>9, <2>1 DEF Visited
  <2>3. p + 3 * Hop <= Reached
    BY <1>1, <2>1, WholeBelow
  <2>4. c.scan <= p
    BY <1>1, <2>1, CursorFields DEF InStep
  <2> QED
    BY <1>4, <1>5, <2>1, <2>2, <2>3, <2>4 DEF Known
<1>10. Status = 0 <=> Hits # {}
  BY DEF Status
<1>11. Status = 1 <=> Hits = {} /\ Positions # Visited
  BY DEF Status
<1>12. Status \in {-1, 0, 1} /\ (Status >= 0 <=> Status \in {0, 1})
  BY DEF Status
<1>13. ASSUME Status = 0
       PROVE  /\ Transients(Q, c) # {}
              /\ ScanEnd = Min(Transients(Q, c)) /\ Found = ScanEnd
              /\ Found < Limit /\ Known(Q, c, Reached)
  <2>1. Hits # {}
    BY <1>10, <1>13
  <2> QED
    BY <1>8, <2>1 DEF ScanEnd, Found
<1>14. ASSUME Status = 1
       PROVE  /\ Transients(Q, c) = {}
              /\ ScanEnd = BoundaryAt(c) - Hop /\ Found = c.found
              /\ BoundaryAt(c) < Limit /\ Known(Q, c, Reached)
  <2>1. Hits = {} /\ Positions # Visited
    BY <1>11, <1>14
  <2>2. PICK p \in Positions : p \notin Visited
    BY <2>1 DEF Visited
  <2>3. BoundaryAt(c) < Limit /\ Known(Q, c, Reached)
    BY <1>9, <2>2
  <2>4. Transients(Q, c) = {}
    <3>1. ASSUME NEW t \in Transients(Q, c) PROVE FALSE
      <4>1. t \in Nat /\ t < BoundaryAt(c)
        BY DEF Transients
      <4>2. t < Limit
        BY <1>4, <1>5, <2>3, <4>1
      <4> QED
        BY <1>7, <2>1, <4>2
    <3> QED
      BY <3>1
  <2> DEFINE e == BoundaryAt(c) - Hop
  <2>5. /\ e \in Int /\ e % Hop = 0 /\ Whole(e) /\ e < BoundaryAt(c) /\ e < Limit
    <3>1. Whole(Hop)
      BY <1>2 DEF Whole
    <3>2. Whole(e)
      BY <1>2, <1>4, <3>1, WholeSum
    <3>3. e \in Int /\ e < BoundaryAt(c)
      BY <1>2, <1>4
    <3> HIDE DEF e
    <3> QED
      BY <1>4, <1>5, <2>3, <3>2, <3>3, WholeRemainder
  <2>6. \A x \in Int : Whole(x) /\ x < BoundaryAt(c) => x <= e
    <3> SUFFICES ASSUME NEW x \in Int, Whole(x), x < BoundaryAt(c) PROVE x <= e
      OBVIOUS
    <3>1. PICK j \in Int : BoundaryAt(c) = j * Hop
      BY <1>4 DEF Whole
    <3>2. PICK k \in Int : x = k * Hop
      BY DEF Whole
    <3>3. ~(j <= k)
      <4>1. ~(j * Hop <= k * Hop)
        BY <1>2, <3>1, <3>2
      <4> QED
        BY <1>2, <4>1, TimesMonotone
    <3>4. k <= j - 1
      BY <3>3
    <3>5. k * Hop <= (j - 1) * Hop
      BY <1>2, <3>4, TimesMonotone
    <3>6. (j - 1) * Hop = j * Hop - Hop
      BY <1>2
    <3> QED
      BY <3>1, <3>2, <3>5, <3>6
  <2>7. scanCursor <= e /\ e \in Nat
    <3>1. scanCursor <= e
      BY <1>1, <1>3, <2>6
    <3> QED
      BY <1>1, <2>5, <3>1
  <2> HIDE DEF e
  <2>8. e \in Visited
    <3>1. e \in Positions
      BY <1>6, <2>5, <2>7
    <3> QED
      BY <1>3, <2>5, <3>1 DEF Visited
  <2>9. \A x \in Visited : x \in Nat /\ x <= e
    <3> SUFFICES ASSUME NEW x \in Visited PROVE x \in Nat /\ x <= e
      OBVIOUS
    <3>1. x \in Positions /\ x < BoundaryAt(c)
      BY <1>3 DEF Visited
    <3>2. x \in Nat /\ Whole(x)
      BY <1>6, <3>1, WholeRemainder
    <3> QED
      BY <2>6, <3>1, <3>2
  <2>10. Max(Visited) = e
    <3>1. Max(Visited) = CHOOSE x \in Visited : \A y \in Visited : x >= y
      BY DEF Max
    <3>2. \A y \in Visited : e >= y
      BY <2>7, <2>9
    <3>3. ASSUME NEW x \in Visited, \A y \in Visited : x >= y PROVE x = e
      <4>1. x >= e /\ x \in Nat /\ x <= e
        BY <2>8, <2>9, <3>3
      <4> QED
        BY <2>7, <4>1
    <3> QED
      BY <2>8, <3>1, <3>2, <3>3
  <2>11. ScanEnd = e /\ Found = c.found
    <3>1. selected = c.found
      BY DEF InStep
    <3> QED
      BY <2>1, <2>8, <2>10, <3>1 DEF ScanEnd, Found
  <2> QED
    BY <2>3, <2>4, <2>11 DEF e
<1>15. ASSUME Status = -1
       PROVE  /\ scanCursor <= ScanEnd
              /\ \A p \in Transients(Q, c) : ScanEnd <= p
              /\ ~Known(Q, c, Reached)
  <2>1. Hits = {} /\ Positions = Visited
    BY <1>10, <1>11, <1>15
  <2>2. ASSUME NEW p \in Transients(Q, c) PROVE p \in Nat /\ Limit <= p
    <3>1. p \in Nat
      BY DEF Transients
    <3>2. ~(p < Limit)
      BY <1>7, <2>1
    <3> QED
      BY <1>5, <3>1, <3>2
  <2>3. ~Known(Q, c, Reached)
    <3>1. ASSUME NEW p \in Nat, p % Hop = 0, p + 3 * Hop <= Reached
          PROVE  ~(p \in Transients(Q, c)) /\ ~(BoundaryAt(c) <= p)
      <4>1. p < Limit
        BY <1>1, <3>1, WholeBelow
      <4>2. ~(p \in Transients(Q, c))
        BY <1>7, <2>1, <4>1
      <4>3. ASSUME BoundaryAt(c) <= p PROVE FALSE
        <5>1. scanCursor <= p
          BY <1>1, <1>3, <1>4, <4>3
        <5>2. p \in Positions
          BY <1>6, <3>1, <4>1, <5>1
        <5>3. p < BoundaryAt(c)
          BY <1>3, <2>1, <5>2 DEF Visited
        <5> QED
          BY <1>4, <4>3, <5>3
      <4> QED
        BY <4>2, <4>3
    <3> QED
      BY <3>1 DEF Known
  <2>4. CASE Visited = {}
    <3>1. ScanEnd = scanCursor
      BY <2>1, <2>4 DEF ScanEnd
    <3> QED
      BY <1>1, <2>3, <3>1 DEF InStep
  <2>5. CASE Visited # {}
    <3>1. \A x \in Visited : x \in Nat /\ x <= Boundary /\ scanCursor <= x /\ x < Limit
      BY <1>3, <1>4, <1>6 DEF Visited
    <3>2. Visited \in SUBSET Nat
      BY <3>1
    <3>3. Boundary \in Nat
      BY <1>3, <1>4
    <3>4. \E x \in Visited : \A y \in Visited : y <= x
      BY <2>5, <3>1, <3>2, <3>3, NatGreatest
    <3>5. \E x \in Visited : \A y \in Visited : x >= y
      BY <3>1, <3>4
    <3>6. Max(Visited) \in Visited
      BY <3>5 DEF Max
    <3>7. ScanEnd = Max(Visited)
      BY <2>1, <2>5 DEF ScanEnd
    <3>8. ScanEnd \in Nat /\ scanCursor <= ScanEnd /\ ScanEnd < Limit
      BY <3>1, <3>6, <3>7
    <3>9. ASSUME NEW p \in Transients(Q, c) PROVE ScanEnd <= p
      BY <1>5, <2>2, <3>8
    <3> QED
      BY <2>3, <3>8, <3>9
  <2> QED
    BY <2>4, <2>5
<1>16. Status >= 0 <=> Known(Q, c, Reached)
  BY <1>12, <1>13, <1>14, <1>15
<1>17. Status < 0 <=> Status = -1
  BY <1>12
<1> QED
  BY <1>3, <1>12, <1>13, <1>14, <1>15, <1>16, <1>17

\* The code of a decision is that of the course: the window of a short block
\* ends before what was heard.
LEMMA CodeFollows ==
    ASSUME SessionTypeOK, scanCursor % Hop = 0, scanCursor < Boundary,
           NEW Q \in SUBSET Nat, NEW c \in Cursors, Agrees(Q), InStep(Q, c),
           previousMode = c.before, Status >= 0,
           NEW following, following = FollowingOf(Q, c)
    PROVE  TransitionCode(following) = CodeAt(Q, c)
<1>1. currentMode = c.mode /\ c.mode \in Modes /\ quanta \in Nat
  BY CursorFields DEF InStep, SessionTypeOK
<1>2. CASE c.mode = 1
  BY <1>1, <1>2 DEF TransitionCode, CodeAt
<1>3. CASE c.mode = 0
  <2> DEFINE lower == CenterAt(c) - 2 * Quarter(0)
             upper == CenterAt(c) + 2 * Quarter(0)
             low == lower \div Hop
             high == upper \div Hop
  <2>1. /\ Center = CenterAt(c) /\ Boundary = BoundaryAt(c)
        /\ Status \in {0, 1}
        /\ Status = 0 => /\ Transients(Q, c) # {} /\ Found = Min(Transients(Q, c))
                         /\ Found < Limit
        /\ Status = 1 => /\ Transients(Q, c) = {} /\ Found = c.found
                         /\ BoundaryAt(c) < Limit
    <3>1. -1 < 0
      OBVIOUS
    <3> QED
      BY <3>1, ScanFollows
  <2>2. Found = FoundAt(Q, c)
    BY <2>1 DEF FoundAt
  <2>3. /\ CenterAt(c) \in Nat /\ CenterAt(c) = c.next + 2 * Quarter(1)
        /\ BoundaryAt(c) \in Nat /\ c.next \in Nat /\ Whole(CenterAt(c))
        /\ Quarter(c.mode) \in Nat
    BY CursorFields
  <2>4. /\ Quarter(0) \in Nat /\ Quarter(1) \in Nat /\ 2 * Quarter(0) <= Quarter(1)
        /\ Short \div 2 = 2 * Quarter(0) /\ Hop \in Nat /\ 0 < Hop
    BY Sizes, Bounds
  <2>5. lower \in Nat /\ upper \in Nat /\ upper <= BoundaryAt(c)
    BY <2>3, <2>4 DEF BoundaryAt
  <2>6. upper % Hop = 0 /\ lower % Hop = 0
    <3>1. Whole(Quarter(0))
      BY QuarterHops DEF Whole, Modes
    <3>2. Whole(Quarter(0) + Quarter(0))
      BY <2>4, <3>1, WholeSum
    <3>3. 2 * Quarter(0) = Quarter(0) + Quarter(0) /\ 2 * Quarter(0) \in Int
      BY <2>4
    <3>4. Whole(2 * Quarter(0))
      BY <3>2, <3>3
    <3> DEFINE v == CenterAt(c)
               w == 2 * Quarter(0)
    <3>5. v \in Int /\ w \in Int /\ Whole(v) /\ Whole(w)
      BY <2>3, <3>3, <3>4
    <3>6. upper = v + w /\ lower = v - w
      OBVIOUS
    <3> HIDE DEF v, w, upper, lower
    <3>7. Whole(v + w) /\ Whole(v - w)
      BY <3>5, WholeSum
    <3> QED
      BY <2>5, <3>6, <3>7, WholeRemainder
  <2>7. /\ low \in Nat /\ lower = low * Hop
        /\ high \in Nat /\ upper = high * Hop
        /\ upper < Limit => high + 1 < quanta
    BY <1>1, <2>5, <2>6, WholeBelow
  <2>8. TransientInWindow <=>
          \/ lower <= Found /\ Found < upper
          \/ \E s \in low .. high - 1 : s \in queue
    BY <2>1, <2>4 DEF TransientInWindow
  <2>9. TransitionCode(following) = IF TransientInWindow THEN 0 ELSE 1
    BY <1>1, <1>3 DEF TransitionCode
  <2>10. CodeAt(Q, c) = IF \/ lower <= Found /\ Found < upper
                           \/ \E s \in low .. high - 1 : s \in Q
                        THEN 0 ELSE 1
    BY <1>3, <2>2 DEF CodeAt
  <2> HIDE DEF lower, upper, low, high
  <2>11. Limit \in Int
    BY <1>1, <2>4 DEF Limit, Generated
  <2>12. CASE lower <= Found /\ Found < upper
    BY <2>8, <2>9, <2>10, <2>12
  <2>13. CASE ~(lower <= Found /\ Found < upper)
    <3>1. upper <= Limit
      <4>1. CASE Status = 1
        BY <2>1, <2>3, <2>5, <2>11, <4>1
      <4>2. CASE Status = 0
        <5>1. Found \in Transients(Q, c)
          BY <2>1, <4>2, FirstTransient
        <5>2. Found \in Nat /\ CenterAt(c) < Found
          BY <5>1 DEF Transients
        <5>3. lower <= Found
          BY <2>3, <2>4, <5>2 DEF lower
        <5>4. upper <= Found
          BY <2>5, <2>13, <5>2, <5>3
        <5> QED
          BY <2>1, <2>5, <2>11, <4>2, <5>2, <5>4
      <4> QED
        BY <2>1, <4>1, <4>2
    <3>2. high * Hop <= (quanta - 1) * Hop
      <4>1. (quanta - 1) * Hop = quanta * Hop - Hop
        BY <1>1, <2>4
      <4> QED
        BY <2>7, <3>1, <4>1 DEF Limit, Generated
    <3>3. high <= quanta - 1
      BY <1>1, <2>4, <2>7, <3>2, TimesMonotone
    <3>4. \A s \in low .. high - 1 : s \in Nat /\ s + 1 < quanta
      BY <1>1, <2>7, <3>3
    <3>5. \A s \in low .. high - 1 : s \in queue <=> s \in Q
      BY <3>4 DEF Agrees
    <3> QED
      BY <2>8, <2>9, <2>10, <3>5
  <2> QED
    BY <2>12, <2>13
<1> QED
  BY <1>1, <1>2, <1>3 DEF Modes

\* What is known of a block stays known.
LEMMA KnownGrows ==
    ASSUME NEW Q, NEW c, NEW a \in Int, NEW b \in Int, a <= b, Known(Q, c, a)
    PROVE  Known(Q, c, b)
<1>1. Hop \in Nat
  BY Bounds
<1> QED
  BY <1>1 DEF Known

\* A decision on what was heard is the next of the course.
LEMMA DecisionFollows ==
    ASSUME SessionSound, NEW Q \in SUBSET Nat, Agrees(Q), Follows(Q),
           NEW eos, Decide(eos), Status >= 0, total \in Nat,
           previousCenter < total, total' = total,
           modes' = Append(modes, currentMode)
    PROVE  /\ Follows(Q)'
           /\ codes' = Append(codes, CodeAt(Q, At(Q)))
           /\ currentMode' = FollowingOf(Q, At(Q))
           /\ At(Q)' = NextCursor(Q, At(Q))
<1> DEFINE n == Len(modes)
           c == At(Q)
           f == FollowingOf(Q, c)
<1>1. modes \in Seq(Modes) /\ n \in Nat /\ SessionTypeOK /\ currentMode \in Modes
  BY LenProperties DEF SessionSound, SessionTypeOK
<1>2. c \in Cursors /\ Course(Q)[n + 1] = NextCursor(Q, c) /\ c = Course(Q)[n]
  BY <1>1, CourseUnfolds DEF At
<1>3. /\ InStep(Q, c) /\ scanCursor % Hop = 0 /\ scanCursor < Boundary
      /\ previousMode = c.before /\ previousCenter = c.prev
  BY DEF SessionSound, Follows, InStep
<1> HIDE DEF n, c
<1>4. /\ Status \in {0, 1}
      /\ Known(Q, c, Reached)
      /\ Status = 0 => /\ Transients(Q, c) # {}
                       /\ ScanEnd = Min(Transients(Q, c)) /\ Found = ScanEnd
      /\ Status = 1 => /\ Transients(Q, c) = {}
                       /\ ScanEnd = BoundaryAt(c) - Hop /\ Found = c.found
  <2>1. ~(-1 >= 0)
    OBVIOUS
  <2> QED
    BY <1>1, <1>2, <1>3, <2>1, ScanFollows
<1>5. f = IF Status = 1 THEN 1 ELSE 0
  BY <1>4 DEF FollowingOf
<1>6. TransitionCode(f) = CodeAt(Q, c)
  BY <1>1, <1>2, <1>3, CodeFollows
<1>7. /\ scanCursor' = ScanEnd /\ selected' = Found
      /\ codes' = Append(codes, CodeAt(Q, c))
      /\ previousCenter' = nextCenter
      /\ nextCenter' = nextCenter + Quarter(currentMode) + Quarter(f)
      /\ previousMode' = currentMode /\ currentMode' = f
      /\ quanta' = quanta /\ queue' = queue
  BY <1>5, <1>6 DEF Decide, Quarter
<1>8. Len(modes') = n + 1 /\ modes'[n + 1] = currentMode
      /\ \A k \in 1 .. n : modes'[k] = modes[k]
  BY <1>1, AppendProperties DEF n
<1>9. At(Q)' = Course(Q)[n + 1]
  BY <1>8 DEF At
<1> DEFINE d == NextCursor(Q, c)
<1>10. /\ d.next = c.next + Quarter(c.mode) + Quarter(f)
       /\ d.prev = c.next /\ d.before = c.mode /\ d.mode = f
       /\ d.scan = ScanEnd /\ d.found = Found
  BY <1>4 DEF NextCursor, FoundAt
<1>11. \A p \in Transients(Q, d) : d.scan <= p
  BY DEF Transients
<1>12. ScanEnd \in Nat
  BY <1>1, <1>3, ScanEnds
<1>13. Reached' = Reached
  BY <1>7 DEF Reached
<1>14. c.mode = currentMode /\ c.next = nextCenter
  BY <1>3 DEF InStep
<1>15. ASSUME NEW k \in 1 .. n + 1
       PROVE  /\ modes'[k] = Course(Q)[k - 1].mode
              /\ Course(Q)[k - 1].prev < total'
              /\ Known(Q, Course(Q)[k - 1], Reached')
  <2>1. CASE k = n + 1
    <3>1. k - 1 = n
      BY <1>1, <2>1
    <3> QED
      BY <1>2, <1>3, <1>4, <1>8, <1>13, <1>14, <2>1, <3>1
  <2>2. CASE k # n + 1
    <3>1. k \in 1 .. n
      BY <1>1, <2>2
    <3> QED
      BY <1>8, <1>13, <3>1 DEF Follows, n
  <2> QED
    BY <2>1, <2>2
<1> HIDE DEF d
<1>16. At(Q)' = d
  BY <1>2, <1>9 DEF d
<1>17. Follows(Q)'
  <2>1. /\ nextCenter' = d.next /\ previousCenter' = d.prev
        /\ previousMode' = d.before /\ currentMode' = d.mode
        /\ selected' = d.found /\ scanCursor' = d.scan
    BY <1>7, <1>10, <1>14
  <2>2. d.scan <= scanCursor' /\ \A p \in Transients(Q, d) : scanCursor' <= p
    BY <1>7, <1>10, <1>11, <1>12
  <2>3. \A k \in 1 .. Len(modes') :
          /\ modes'[k] = Course(Q)[k - 1].mode
          /\ Course(Q)[k - 1].prev < total'
          /\ Known(Q, Course(Q)[k - 1], Reached')
    BY <1>8, <1>15
  <2> QED
    BY <1>16, <2>1, <2>2, <2>3 DEF Follows
<1> QED
  BY <1>7, <1>16, <1>17 DEF c, d

\* A scan that is undecided stays behind the transients of the course; it is
\* undecided when what was heard is not enough.
LEMMA UndecidedFollows ==
    ASSUME SessionSound, NEW Q \in SUBSET Nat, Agrees(Q), Follows(Q),
           Undecided, total' = total, modes' = modes
    PROVE  Follows(Q)' /\ ~Known(Q, At(Q), Reached)
<1> DEFINE c == At(Q)
<1>1. /\ modes \in Seq(Modes) /\ Len(modes) \in Nat /\ SessionTypeOK
      /\ scanCursor \in Nat
  BY LenProperties DEF SessionSound, SessionTypeOK
<1>2. c \in Cursors
  BY <1>1, CourseUnfolds DEF At
<1>3. /\ InStep(Q, c) /\ scanCursor % Hop = 0 /\ scanCursor < Boundary
  BY DEF SessionSound, Follows, InStep
<1>4. c.scan \in Nat
  BY <1>2, CursorFields
<1> HIDE DEF c
<1>5. Status < 0 /\ scanCursor' = ScanEnd
      /\ UNCHANGED <<quanta, queue, selected, cursorVars, codes>>
  BY DEF Undecided
<1>6. /\ ~Known(Q, c, Reached) /\ scanCursor <= ScanEnd
      /\ \A p \in Transients(Q, c) : ScanEnd <= p
  <2>1. Status \in {-1, 0, 1} /\ (Status >= 0 <=> Known(Q, c, Reached))
    BY <1>1, <1>2, <1>3, ScanFollows
  <2>2. ~(Status >= 0)
    BY <1>5, <2>1
  <2> QED
    BY <1>1, <1>2, <1>3, <1>5, <2>1, <2>2, ScanFollows
<1>7. At(Q)' = c /\ Reached' = Reached
  BY <1>5 DEF At, c, Reached
<1>8. c.scan <= ScanEnd
  <2>1. ScanEnd \in Nat /\ c.scan <= scanCursor
    BY <1>1, <1>3, ScanEnds DEF InStep
  <2> QED
    BY <1>1, <1>4, <1>6, <2>1
<1>9. Follows(Q)'
  BY <1>5, <1>6, <1>7, <1>8 DEF Follows, c, cursorVars
<1> QED
  BY <1>6, <1>9 DEF c

\* A quantum leaves the slots that can be scanned as they are, and what was
\* decided stays decided.
LEMMA IngestFollows ==
    ASSUME SessionTypeOK, NEW flags, Ingest(flags), NEW Q \in SUBSET Nat
    PROVE  /\ Agrees(Q)' => Agrees(Q)
           /\ Follows(Q) /\ modes' = modes /\ total' = total => Follows(Q)'
           /\ Reached' = Reached + Hop
<1>1. /\ quanta \in Nat /\ queue \in SUBSET Nat /\ quanta' = quanta + 1
      /\ queue' = (queue \ {quanta + 2}) \cup Slots(quanta, flags)
      /\ UNCHANGED <<selected, scanCursor, cursorVars, codes>>
  BY DEF SessionTypeOK, Ingest
<1>2. Hop \in Nat /\ 0 < Hop
  BY Bounds
<1>3. ASSUME Agrees(Q)' PROVE Agrees(Q)
  <2> SUFFICES ASSUME NEW s \in Nat, s + 1 < quanta PROVE s \in queue <=> s \in Q
    BY DEF Agrees
  <2>1. s + 1 < quanta' /\ s # quanta + 2
    BY <1>1
  <2>2. s \notin Slots(quanta, flags)
    BY <1>1 DEF Slots
  <2>3. s \in queue' <=> s \in Q
    BY <1>3, <2>1 DEF Agrees
  <2> QED
    BY <1>1, <2>1, <2>2, <2>3
<1>4. Reached' = Reached + Hop /\ Reached \in Int /\ Reached' \in Int
  BY <1>1, <1>2 DEF Reached
<1>5. ASSUME Follows(Q), modes' = modes, total' = total PROVE Follows(Q)'
  <2>1. At(Q)' = At(Q)
    BY <1>5 DEF At
  <2>2. \A k \in 1 .. Len(modes) : Known(Q, Course(Q)[k - 1], Reached')
    <3> SUFFICES ASSUME NEW k \in 1 .. Len(modes)
                 PROVE  Known(Q, Course(Q)[k - 1], Reached')
      OBVIOUS
    <3>1. Known(Q, Course(Q)[k - 1], Reached)
      BY <1>5 DEF Follows
    <3>2. Reached <= Reached'
      BY <1>2, <1>4
    <3> QED
      BY <1>4, <3>1, <3>2, KnownGrows
  <2> QED
    BY <1>1, <1>5, <2>1, <2>2 DEF Follows, cursorVars
<1> QED
  BY <1>3, <1>4, <1>5

\* A step that leaves the session alone leaves the course alone, though the
\* source grow.
LEMMA StillFollows ==
    ASSUME UNCHANGED <<sessionVars, modes>>, modes \in Seq(Modes),
           NEW Q \in SUBSET Nat, total \in Int, total' \in Int, total <= total'
    PROVE  /\ Agrees(Q)' <=> Agrees(Q)
           /\ Reached' = Reached /\ At(Q)' = At(Q) /\ SessionSound' = SessionSound
           /\ Follows(Q) => Follows(Q)'
<1>1. /\ quanta' = quanta /\ queue' = queue /\ selected' = selected
      /\ scanCursor' = scanCursor /\ nextCenter' = nextCenter
      /\ previousCenter' = previousCenter /\ previousMode' = previousMode
      /\ currentMode' = currentMode /\ codes' = codes /\ modes' = modes
  BY DEF sessionVars, selectorVars, cursorVars
<1>2. Reached' = Reached /\ At(Q)' = At(Q) /\ (Agrees(Q)' <=> Agrees(Q))
  BY <1>1 DEF Reached, At, Agrees
<1>3. SessionSound' = SessionSound
  BY <1>1, SessionStill DEF SessionSound
<1>4. ASSUME Follows(Q) PROVE Follows(Q)'
  <2>1. ASSUME NEW k \in 1 .. Len(modes) PROVE Course(Q)[k - 1].prev < total'
    <3>1. Len(modes) \in Nat
      BY LenProperties
    <3>2. k - 1 \in Nat
      BY <3>1
    <3>3. Course(Q)[k - 1].prev \in Int
      <4>1. Course(Q)[k - 1] \in Cursors
        BY <3>2, CourseUnfolds
      <4>2. Course(Q)[k - 1].prev \in Nat \cup {-1}
        BY <4>1, CursorFields
      <4> QED
        BY <4>2
    <3>4. Course(Q)[k - 1].prev < total
      BY <1>4 DEF Follows
    <3> QED
      BY <3>3, <3>4
  <2> QED
    BY <1>1, <1>2, <1>4, <2>1 DEF Follows
<1> QED
  BY <1>2, <1>3, <1>4

\* What each cursor has of the one before it.
LEMMA CourseBefore ==
    ASSUME NEW Q \in SUBSET Nat, NEW k \in Nat
    PROVE  /\ k = 0 => /\ Course(Q)[k].before = 0 /\ Course(Q)[k].prev = -1
                       /\ Course(Q)[k].next = 0
           /\ k # 0 => /\ Course(Q)[k].before = Course(Q)[k - 1].mode
                       /\ Course(Q)[k].prev = Course(Q)[k - 1].next
                       /\ Course(Q)[k].mode = FollowingOf(Q, Course(Q)[k - 1])
<1>1. CASE k = 0
  BY <1>1, CourseUnfolds DEF FirstCursor
<1>2. CASE k # 0
  <2>1. k - 1 \in Nat /\ (k - 1) + 1 = k
    BY <1>2
  <2>2. Course(Q)[k] = NextCursor(Q, Course(Q)[k - 1])
    BY <2>1, CourseUnfolds
  <2> QED
    BY <1>2, <2>2 DEF NextCursor
<1> QED
  BY <1>1, <1>2

\* The codes of the blocks decided; those with the last put right.
CodesFollow(Q) == \A k \in 1 .. Len(modes) : codes[k] = CodeOf(Q, k, FALSE)

FinalCodes(Q, final) ==
    /\ final \in Seq(0 .. 3) /\ Len(final) = Len(modes)
    /\ \A k \in 1 .. Len(modes) :
          /\ final[k] = CodeOf(Q, k, k = Len(modes))
          /\ k # Len(modes) => final[k] = codes[k]

\* The code of the last block, put right at the end.
LEMMA FinalFollows ==
    ASSUME SessionSound, NEW Q \in SUBSET Nat, Follows(Q), modes # <<>>,
           CodesFollow(Q), NEW before,
           before = IF Len(modes) > 1 THEN modes[Len(modes) - 1] ELSE 0,
           NEW final, final = FinalizedCodes(before, modes[Len(modes)])
    PROVE  FinalCodes(Q, final)
<1> USE DEF CodesFollow, FinalCodes
<1> DEFINE n == Len(modes)
           c == Course(Q)[n - 1]
<1>1. /\ modes \in Seq(Modes) /\ codes \in Seq(0 .. 3) /\ Len(codes) = n
      /\ n \in Nat /\ n # 0
  BY LenProperties, EmptySeq DEF SessionSound, SessionTypeOK
<1>2. modes[n] = c.mode /\ n \in 1 .. n /\ n - 1 \in Nat
  BY <1>1 DEF Follows
<1>3. c.before = before
  <2>1. CASE n > 1
    <3>1. n - 1 \in 1 .. n /\ n - 1 # 0
      BY <1>1, <2>1
    <3>2. modes[n - 1] = Course(Q)[(n - 1) - 1].mode
      BY <3>1 DEF Follows
    <3>3. before = modes[n - 1]
      BY <2>1
    <3> DEFINE j == n - 1
    <3>4. j \in Nat /\ j # 0
      BY <3>1
    <3> HIDE DEF j, n
    <3>5. Course(Q)[j].before = Course(Q)[j - 1].mode
      BY <3>4, CourseBefore
    <3> QED
      BY <3>2, <3>3, <3>5 DEF j
  <2>2. CASE ~(n > 1)
    <3>1. n - 1 = 0
      BY <1>1, <2>2
    <3>2. before = 0
      BY <2>2
    <3>3. Course(Q)[0].before = 0
      BY CourseBefore
    <3> QED
      BY <3>1, <3>2, <3>3
  <2> QED
    BY <2>1, <2>2
<1> HIDE DEF n, c
<1>4. CASE c.mode = 1
  <2> DEFINE last == IF before # 0 THEN 3 ELSE 2
  <2>1. final = [codes EXCEPT ![n] = last]
    BY <1>1, <1>2, <1>4 DEF FinalizedCodes, n
  <2>2. last \in 0 .. 3 /\ last = LastCodeAt(Q, c)
    BY <1>3, <1>4 DEF LastCodeAt
  <2>3. CodeOf(Q, n, TRUE) = last
    BY <2>2 DEF CodeOf, c
  <2> HIDE DEF last
  <2>4. /\ final \in Seq(0 .. 3) /\ Len(final) = n /\ final[n] = last
        /\ \A k \in 1 .. n : k # n => final[k] = codes[k]
    <3>1. n \in 1 .. Len(codes) /\ last \in 0 .. 3
      BY <1>1, <2>2
    <3>2. /\ final \in Seq(0 .. 3) /\ Len(final) = Len(codes)
          /\ \A j \in 1 .. Len(codes) :
                final[j] = IF j = n THEN last ELSE codes[j]
      <4> DEFINE set == [codes EXCEPT ![n] = last]
                 S == 0 .. 3
      <4>1. codes \in Seq(S) /\ last \in S
        BY <1>1, <3>1
      <4> HIDE DEF S
      <4>2. /\ set \in Seq(S) /\ Len(set) = Len(codes)
            /\ \A j \in 1 .. Len(codes) : set[j] = IF j = n THEN last ELSE codes[j]
        BY ONLY <3>1, <4>1, ExceptSeq
      <4>3. final = set
        BY <2>1
      <4> HIDE DEF set
      <4> QED
        BY <4>2, <4>3 DEF S
    <3> QED
      BY <1>1, <3>1, <3>2
  <2>5. \A k \in 1 .. n : final[k] = CodeOf(Q, k, k = n)
    <3> SUFFICES ASSUME NEW k \in 1 .. n PROVE final[k] = CodeOf(Q, k, k = n)
      OBVIOUS
    <3>1. CASE k = n
      BY <2>3, <2>4, <3>1 DEF CodeOf
    <3>2. CASE k # n
      BY <2>4, <3>2 DEF n, CodeOf
    <3> QED
      BY <3>1, <3>2
  <2> QED
    BY <2>4, <2>5 DEF n
<1>5. CASE c.mode # 1
  <2>1. final = codes
    BY <1>2, <1>5 DEF FinalizedCodes, n
  <2>2. LastCodeAt(Q, c) = CodeAt(Q, c)
    BY <1>5 DEF LastCodeAt
  <2>3. \A k \in 1 .. n : final[k] = CodeOf(Q, k, k = n)
    <3> SUFFICES ASSUME NEW k \in 1 .. n PROVE final[k] = CodeOf(Q, k, k = n)
      OBVIOUS
    <3>1. codes[k] = CodeAt(Q, Course(Q)[k - 1])
      BY DEF n, CodeOf
    <3>2. CASE k = n
      BY <2>1, <2>2, <3>1, <3>2 DEF c, CodeOf
    <3>3. CASE k # n
      BY <2>1, <3>1, <3>3 DEF CodeOf
    <3> QED
      BY <3>2, <3>3
  <2> QED
    BY <1>1, <2>1, <2>3 DEF n
<1> QED
  BY <1>4, <1>5

-----------------------------------------------------------------------------
(* A stream follows the course of what it hears. *)

StreamCourse(Q) == Agrees(Q) => Follows(Q) /\ Recorded(Q) /\ TailFollows(Q)

\* What of a stream's invariant the course needs.
LEMMA StreamIsSound ==
    ASSUME StreamInv
    PROVE  /\ SessionSound /\ total \in Nat /\ training \in Nat /\ pc # "failed"
           /\ Planned <=> Settled
           /\ Len(codes) = Len(modes) /\ Len(modes) \in Nat /\ Len(plans) \in Nat
           /\ Len(frames) \in Nat /\ Len(frames) <= Len(plans)
           /\ codes \in Seq(0 .. 3) /\ plans \in Seq(PlanRecords)
           /\ frames \in Seq(FrameRecords)
<1> USE DEF StreamInv
<1>1. Long \in Nat
  BY BlockSizesAssumption
<1>2. SessionSound
  BY DEF SessionSound, Typed, SelectorInv, TimelineInv
<1>3. training \in Nat
  BY <1>1 DEF Typed
<1>4. Planned <=> Settled
  BY DEF Typed, Planned, Settled
<1> QED
  BY <1>2, <1>3, <1>4, Shapes DEF Typed, CallInv, SessionTypeOK

\* The plan a stream makes is that of the course.
LEMMA PlanFollows ==
    ASSUME StreamInv, ~Planned, pending # NoCentre,
           NEW Q \in SUBSET Nat, Follows(Q), Recorded(Q), NEW ends \in BOOLEAN,
           NEW following, following = IF ends THEN 1 ELSE currentMode,
           NEW next, EmitPlan(following, next)
    PROVE  /\ Len(modes) = Len(plans) + 1
           /\ plans' = Append(plans, PlanOf(Q, Len(modes), ends))
           /\ PlanOf(Q, Len(modes), ends) \in PlanRecords
           /\ pc' = next /\ modes' = modes
<1> DEFINE n == Len(modes)
           c == Course(Q)[n - 1]
<1>1. /\ n = Len(plans) + 1 /\ Len(plans) \in Nat /\ n \in Nat
      /\ pending = previousCenter /\ currentMode \in Modes
  BY Shapes DEF StreamInv
<1>2. n # 0 /\ n - 1 \in Nat /\ n - 1 = Len(plans) /\ n \in 1 .. n
  BY <1>1
<1>3. c \in Cursors /\ At(Q) = Course(Q)[n]
  BY <1>2, CourseUnfolds DEF At
<1>4. /\ pending = c.next /\ currentMode = FollowingOf(Q, c)
      /\ modes[n] = c.mode
  BY <1>1, <1>2, <1>3, CourseBefore DEF Follows
<1>5. /\ c.next \in Nat /\ c.mode \in Modes /\ BlockSize(c.mode) = 4 * Quarter(c.mode)
      /\ Quarter(c.mode) \in Nat /\ LongHalf \in Nat
  <2> HIDE DEF c
  <2>1. c.next \in Nat /\ c.mode \in Modes
    BY <1>3, CursorFields
  <2>2. BlockSize(c.mode) = 4 * Quarter(c.mode) /\ Quarter(c.mode) \in Nat
    BY <2>1, BlockQuarter
  <2>3. LongHalf \in Nat
    BY Sizes
  <2> QED
    BY <2>1, <2>2, <2>3
<1>6. following \in Modes
  BY <1>1 DEF Modes
<1>7. PICK p \in PlanRecords : PlanAdded(following, p) /\ pc' = next
  BY <1>6, PlanMade DEF StreamInv
<1>8. /\ plans' = Append(plans, p) /\ p.index = n - 1 /\ p.following = following
      /\ CentreOf(p) = c.next /\ p.current = c.mode
      /\ p.start = CentreOf(p) + LongHalf - 2 * Quarter(p.current)
      /\ p.end = p.start + BlockSize(p.current) /\ modes' = modes
  BY <1>2, <1>4, <1>7 DEF PlanAdded
<1>9. p.start = c.next + LongHalf - 2 * Quarter(c.mode)
      /\ p.end = c.next + LongHalf + 2 * Quarter(c.mode)
  BY <1>5, <1>8
<1>10. p.previous = c.before
  <2>1. CASE plans = <<>>
    <3>1. n - 1 = 0
      BY <1>2, <2>1
    <3>2. p.previous = 0
      BY <1>7, <2>1 DEF PlanAdded
    <3>3. Course(Q)[0].before = 0
      BY CourseBefore
    <3> QED
      BY <3>1, <3>2, <3>3
  <2>2. CASE plans # <<>>
    <3>1. Len(plans) # 0
      BY <2>2, EmptySeq DEF StreamInv, Typed
    <3>2. n - 1 \in 1 .. Len(plans) /\ n - 1 # 0
      BY <1>1, <3>1
    <3>3. pc # "failed"
      BY StreamIsSound
    <3>4. plans[n - 1].current = Course(Q)[(n - 1) - 1].mode
      <4>1. plans[n - 1] = PlanOf(Q, n - 1, Settled /\ n - 1 = Len(modes))
        BY <3>2, <3>3 DEF Recorded
      <4> QED
        BY <4>1 DEF PlanOf
    <3>5. p.previous = plans[n - 1].current
      BY <1>2, <1>7, <2>2 DEF PlanAdded
    <3> QED
      BY <1>2, <3>2, <3>4, <3>5, CourseBefore
  <2> QED
    BY <2>1, <2>2
<1>11. p = [index |-> p.index, previous |-> p.previous, current |-> p.current,
            following |-> p.following, start |-> p.start, end |-> p.end]
  BY DEF PlanRecords
<1>12. p = PlanOf(Q, n, ends)
  <2>1. following = IF ends THEN 1 ELSE FollowingOf(Q, c)
    BY <1>4
  <2> QED
    BY <1>8, <1>9, <1>10, <1>11, <2>1 DEF PlanOf
<1> QED
  BY <1>1, <1>7, <1>8, <1>12

\* What is known of a block once every quantum of the source is heard.
LEMMA KnownSame ==
    ASSUME quanta \in Nat, NEW Q, NEW c, NEW reach \in Int, reach < Reached + Hop,
           Known(Q, c, reach)
    PROVE  Known(Q, c, Reached)
<1>1. PICK p \in Nat :
        /\ p % Hop = 0 /\ c.scan <= p /\ p + 3 * Hop <= reach
        /\ BoundaryAt(c) <= p \/ p \in Transients(Q, c)
  BY DEF Known
<1>2. Hop \in Nat /\ 0 < Hop
  BY Bounds
<1>3. PICK k \in Int : p = k * Hop
  BY <1>1, WholeRemainder DEF Whole
<1>4. (k + 3) * Hop < (quanta + 2) * Hop
  <2>1. (k + 3) * Hop = p + 3 * Hop
    BY <1>2, <1>3
  <2>2. (quanta + 2) * Hop = quanta * Hop + Hop + Hop
    BY <1>2
  <2>3. quanta * Hop \in Int
    BY <1>2
  <2> QED
    BY <1>1, <1>2, <2>1, <2>2, <2>3 DEF Reached
<1>5. ~(quanta + 2 <= k + 3)
  <2>1. ~((quanta + 2) * Hop <= (k + 3) * Hop)
    BY <1>2, <1>4
  <2> QED
    BY <1>2, <2>1, TimesMonotone
<1>6. (k + 2) * Hop <= quanta * Hop
  <2>1. k + 2 <= quanta
    BY <1>5
  <2> QED
    BY <1>2, <2>1, TimesMonotone
<1>7. p + 3 * Hop <= Reached
  <2>1. (k + 2) * Hop = p + 2 * Hop
    BY <1>2, <1>3
  <2>2. quanta * Hop \in Int
    BY <1>2
  <2> QED
    BY <1>2, <1>6, <2>1, <2>2 DEF Reached
<1> QED
  BY <1>1, <1>7 DEF Known

\* The tail is heard past the boundary of every block the source reaches: at the
\* end of a stream every scan is decided.
LEMMA TailDecides ==
    ASSUME SessionSound, total \in Nat, previousCenter < total,
           nextCenter = 0 \/ nextCenter <= previousCenter + 2 * Quarter(1),
           LongHalf + total + BatchTail < Reached + Hop
    PROVE  Status >= 0
<1>1. /\ quanta \in Nat /\ scanCursor \in Nat /\ nextCenter \in Nat
      /\ currentMode \in Modes /\ previousCenter \in Int
      /\ scanCursor % Hop = 0 /\ nextCenter % Hop = 0 /\ scanCursor < Boundary
      /\ SessionTypeOK
  BY DEF SessionSound, SessionTypeOK
<1>2. /\ Boundary = nextCenter + Quarter(currentMode) + 4 * Quarter(1) + Quarter(0)
      /\ Boundary \in Nat /\ Whole(Boundary) /\ Whole(scanCursor)
  BY <1>1, BoundaryValue, BoundaryWhole, WholeRemainder
<1>3. /\ Quarter(currentMode) \in Nat /\ Quarter(currentMode) <= Quarter(1)
      /\ Quarter(0) \in Nat /\ Quarter(1) \in Nat /\ LongHalf = 2 * Quarter(1)
      /\ Hop \in Nat /\ 0 < Hop
  BY <1>1, BlockQuarter, Sizes, Bounds
<1>4. 5 * Quarter(1) + Quarter(0) + 4 * Hop <= BatchTail /\ BatchTail \in Nat
  BY TailAssumption, Sizes
<1>5. nextCenter <= total + 2 * Quarter(1)
  BY <1>1, <1>3
<1>6. Boundary < Limit
  <2>1. quanta * Hop \in Int
    BY <1>1, <1>3
  <2> QED
    BY <1>1, <1>2, <1>3, <1>4, <1>5, <2>1 DEF Reached, Limit, Generated
<1>7. Limit \in Int
  BY <1>1, <1>3 DEF Limit, Generated
<1>8. (Boundary - scanCursor) % Hop = 0
  BY <1>1, <1>2, WholeSum, WholeRemainder
<1>9. Boundary \in Positions /\ Boundary \notin Visited
  BY <1>1, <1>2, <1>6, <1>7, <1>8 DEF Positions, Visited
<1> QED
  BY <1>9 DEF Status

\* The places of a call behind the tail.
Late == {"tailIngest", "tailScan", "flush", "done"}

\* A step that decides and plans nothing.
LEMMA QuietFollows ==
    ASSUME StreamInv, NEW Q \in SUBSET Nat, StreamCourse(Q),
           UNCHANGED <<sessionVars, modes, plans>>,
           total' \in Int, total <= total',
           pc' # "tail", Settled' <=> Settled,
           pc' \in Late => pc \in Late /\ total' = total /\ training' = training
    PROVE  StreamCourse(Q)'
<1>1. /\ SessionSound /\ total \in Nat /\ pc # "failed" /\ modes \in Seq(Modes)
      /\ codes' = codes /\ modes' = modes /\ plans' = plans
  BY StreamIsSound DEF SessionSound, sessionVars
<1>2. (Agrees(Q)' <=> Agrees(Q)) /\ (Follows(Q) => Follows(Q)')
  <2>1. UNCHANGED <<sessionVars, modes>> /\ modes \in Seq(Modes)
    BY <1>1
  <2>2. total \in Int /\ total' \in Int /\ total <= total'
    BY <1>1
  <2> QED
    BY <2>1, <2>2, StillFollows
<1>3. Recorded(Q) => Recorded(Q)'
  BY <1>1 DEF Recorded
<1>4. TailFollows(Q) => TailFollows(Q)'
  BY <1>1 DEF TailFollows, Late
<1> QED
  BY <1>2, <1>3, <1>4 DEF StreamCourse

\* A quantum is heard.
LEMMA QuantumFollows ==
    ASSUME StreamInv, NEW Q \in SUBSET Nat, StreamCourse(Q),
           NEW flags, Ingest(flags),
           UNCHANGED <<pc, total, training, modes, plans>>
    PROVE  StreamCourse(Q)'
<1>1. SessionSound /\ pc # "failed" /\ codes' = codes /\ SessionTypeOK
  BY StreamIsSound DEF Ingest, SessionSound
<1>2. (Agrees(Q)' => Agrees(Q)) /\ (Follows(Q) => Follows(Q)')
  BY <1>1, IngestFollows
<1>3. Recorded(Q) => Recorded(Q)'
  BY <1>1 DEF Recorded, Settled
<1>4. TailFollows(Q) => TailFollows(Q)'
  BY DEF TailFollows
<1> QED
  BY <1>2, <1>3, <1>4 DEF StreamCourse

\* A block is decided.
LEMMA DecideFollows ==
    ASSUME StreamInv, NEW Q \in SUBSET Nat, StreamCourse(Q),
           pc \in {"pump", "drain", "tailScan"}, pending = NoCentre,
           NEW eos \in BOOLEAN, Decide(eos), Status >= 0,
           modes' = Append(modes, currentMode),
           UNCHANGED <<pc, plans, total, training>>
    PROVE  StreamCourse(Q)'
<1>1. /\ SessionSound /\ total \in Nat /\ codes \in Seq(0 .. 3)
      /\ modes \in Seq(Modes) /\ currentMode \in Modes /\ Len(codes) = Len(modes)
      /\ Len(modes) \in Nat
  BY StreamIsSound DEF SessionSound, SessionTypeOK
<1>2. ~Settled /\ ~Settled' /\ ~Planned
  BY DEF Settled, Planned
<1>3. previousCenter < total
  BY <1>2 DEF StreamInv, EndInv
<1>4. ASSUME Agrees(Q)'
      PROVE  Follows(Q)' /\ Recorded(Q)' /\ TailFollows(Q)'
  <2>1. Agrees(Q)
    BY <1>4 DEF Agrees, Decide
  <2>2. Follows(Q) /\ Recorded(Q) /\ TailFollows(Q)
    BY <2>1 DEF StreamCourse
  <2>3. Follows(Q)' /\ codes' = Append(codes, CodeAt(Q, At(Q)))
    BY <1>1, <1>3, <2>1, <2>2, DecisionFollows
  <2>4. /\ Len(codes') = Len(codes) + 1
        /\ \A k \in 1 .. Len(codes) : codes'[k] = codes[k]
        /\ codes'[Len(codes) + 1] = CodeAt(Q, At(Q))
        /\ Len(modes') = Len(modes) + 1
    <3>1. codes' = Append(codes, CodeAt(Q, At(Q)))
      BY <2>3
    <3> QED
      BY <1>1, <3>1, AppendProperties
  <2>5. pc # "failed"
    BY StreamIsSound
  <2>6. ASSUME NEW k \in 1 .. Len(codes) + 1
        PROVE  codes'[k] = CodeOf(Q, k, FALSE)
    <3>1. CASE k = Len(codes) + 1
      <4>1. k - 1 = Len(modes)
        BY <1>1, <3>1
      <4> QED
        BY <2>4, <3>1, <4>1 DEF CodeOf, At
    <3>2. CASE k # Len(codes) + 1
      <4>1. k \in 1 .. Len(codes)
        BY <1>1, <3>2
      <4>2. codes[k] = CodeOf(Q, k, FALSE)
        BY <1>2, <2>2, <2>5, <4>1 DEF Recorded
      <4> QED
        BY <2>4, <4>1, <4>2
    <3> QED
      BY <3>1, <3>2
  <2>7. Recorded(Q)'
    <3>1. \A k \in 1 .. Len(codes') : codes'[k] = CodeOf(Q, k, FALSE)
      BY <2>4, <2>6
    <3>2. \A k \in 1 .. Len(plans') : plans'[k] = PlanOf(Q, k, FALSE)
      BY <1>2, <2>2, <2>5 DEF Recorded
    <3> QED
      BY <1>2, <3>1, <3>2 DEF Recorded
  <2>8. TailFollows(Q)'
    <3>1. 0 .. Len(modes) \subseteq 0 .. Len(modes')
      BY <1>1, <2>4
    <3> QED
      BY <2>2, <3>1 DEF TailFollows
  <2> QED
    BY <2>3, <2>7, <2>8
<1> QED
  BY <1>4 DEF StreamCourse

\* A block centred in the source is planned.
LEMMA PlannedFollows ==
    ASSUME StreamInv, NEW Q \in SUBSET Nat, StreamCourse(Q),
           pc \in {"pump", "drain", "tailScan"}, pending # NoCentre,
           EmitPlan(PendingFollowing, pc),
           UNCHANGED <<sessionVars, total, training>>
    PROVE  StreamCourse(Q)'
<1>1. /\ SessionSound /\ total \in Nat /\ pc # "failed" /\ modes \in Seq(Modes)
      /\ codes' = codes /\ Len(modes) \in Nat /\ Len(plans) \in Nat
      /\ plans \in Seq(PlanRecords)
  BY StreamIsSound DEF SessionSound, sessionVars
<1>2. ~Settled /\ ~Planned
  BY DEF Settled, Planned
<1>3. ASSUME Agrees(Q)'
      PROVE  Follows(Q)' /\ Recorded(Q)' /\ TailFollows(Q)'
  <2>1. Agrees(Q)
    BY <1>3 DEF Agrees, sessionVars, selectorVars
  <2>2. Follows(Q) /\ Recorded(Q) /\ TailFollows(Q)
    BY <2>1 DEF StreamCourse
  <2> DEFINE p == PlanOf(Q, Len(modes), FALSE)
  <2>3. /\ Len(modes) = Len(plans) + 1 /\ plans' = Append(plans, p)
        /\ p \in PlanRecords /\ pc' = pc /\ modes' = modes
    <3>1. PendingFollowing = IF FALSE THEN 1 ELSE currentMode
      BY DEF PendingFollowing
    <3> QED
      BY <1>2, <2>2, <3>1, PlanFollows
  <2>4. Follows(Q)'
    <3>1. UNCHANGED <<sessionVars, modes>> /\ modes \in Seq(Modes)
      BY <1>1, <2>3
    <3>2. total \in Int /\ total' \in Int /\ total <= total'
      BY <1>1
    <3> QED
      BY <2>2, <3>1, <3>2, StillFollows
  <2>5. ~Settled'
    BY <1>2, <2>3 DEF Settled
  <2> HIDE DEF p
  <2>6. /\ Len(plans') = Len(plans) + 1 /\ plans'[Len(plans) + 1] = p
        /\ \A k \in 1 .. Len(plans) : plans'[k] = plans[k]
    BY <1>1, <2>3, AppendProperties
  <2>7. ASSUME NEW k \in 1 .. Len(plans')
        PROVE  plans'[k] = PlanOf(Q, k, FALSE)
    <3>1. CASE k = Len(plans) + 1
      BY <2>3, <2>6, <3>1 DEF p
    <3>2. CASE k # Len(plans) + 1
      <4>1. k \in 1 .. Len(plans)
        BY <1>1, <2>6, <3>2
      <4> QED
        BY <1>1, <1>2, <2>2, <2>6, <4>1 DEF Recorded
    <3> QED
      BY <3>1, <3>2
  <2>8. Recorded(Q)'
    BY <1>1, <1>2, <2>2, <2>3, <2>5, <2>7 DEF Recorded
  <2>9. TailFollows(Q)'
    BY <2>2, <2>3 DEF TailFollows
  <2> QED
    BY <2>4, <2>8, <2>9
<1> QED
  BY <1>3 DEF StreamCourse

\* The source decides no more: the block ahead is centred past its end, or the
\* scan needs samples of the tail.
LEMMA TailReached ==
    ASSUME StreamInv, NEW Q \in SUBSET Nat, StreamCourse(Q), pc = "drain",
           pc' = "tail", UNCHANGED <<quanta, queue, total, modes, plans, codes>>,
           Follows(Q) => Follows(Q)',
           Agrees(Q) => total <= At(Q).prev \/ ~Known(Q, At(Q), Reached)
    PROVE  StreamCourse(Q)'
<1>1. /\ SessionSound /\ total \in Nat /\ Len(modes) \in Nat /\ pc # "failed"
      /\ quanta \in Nat
  BY StreamIsSound DEF SessionSound, SessionTypeOK
<1>2. Primed /\ training = NoTail /\ ~QuantumComplete
  BY DEF StreamInv, CallInv
<1>3. Hop \in Nat /\ 0 < Hop /\ Hop <= 2 * Quarter(1) /\ LongHalf = 2 * Quarter(1)
      /\ LongHalf \in Nat
  BY Sizes, Bounds
<1>4. DetectorStream = LongHalf + total
  BY <1>1, <1>2, <1>3 DEF DetectorStream
<1>5. Reached <= LongHalf + total /\ LongHalf + total < Reached + Hop /\ Reached \in Int
  <2>1. quanta = extracted /\ (quanta # 0 => quanta * Hop + Hop <= DetectorStream)
    BY DEF StreamInv, SelectorInv
  <2>2. quanta * Hop \in Int
    BY <1>1, <1>3
  <2>3. ~(quanta * Hop + 2 * Hop <= DetectorStream)
    BY <1>2, <2>1 DEF QuantumComplete, Window
  <2>4. quanta = 0 => quanta * Hop = 0
    BY <1>3
  <2> QED
    BY <1>1, <1>3, <1>4, <2>1, <2>2, <2>3, <2>4 DEF Reached
<1>6. ASSUME Agrees(Q)'
      PROVE  Follows(Q)' /\ Recorded(Q)' /\ TailFollows(Q)'
  <2>1. Agrees(Q)
    BY <1>6 DEF Agrees
  <2>2. Follows(Q) /\ Recorded(Q)
    BY <2>1 DEF StreamCourse
  <2>3. Follows(Q)'
    BY <2>2
  <2>4. Recorded(Q)'
    <3>1. ~Settled /\ ~Settled'
      BY DEF Settled
    <3> QED
      BY <1>1, <2>2, <3>1 DEF Recorded
  <2>5. TailAt(Q, total, Len(modes))
    <3>1. ASSUME NEW j \in 0 .. Len(modes) - 1
          PROVE  /\ Course(Q)[j].prev < total
                 /\ Known(Q, Course(Q)[j], LongHalf + total)
      <4>1. j + 1 \in 1 .. Len(modes) /\ (j + 1) - 1 = j
        BY <1>1
      <4>2. Course(Q)[j].prev < total /\ Known(Q, Course(Q)[j], Reached)
        BY <2>2, <4>1 DEF Follows
      <4> QED
        BY <1>1, <1>3, <1>5, <4>2, KnownGrows
    <3>2. total <= At(Q).prev \/ ~Known(Q, At(Q), LongHalf + total)
      BY <1>1, <1>3, <1>5, <2>1, KnownSame
    <3> QED
      BY <3>1, <3>2 DEF TailAt, At
  <2>6. TailFollows(Q)'
    BY <2>5 DEF TailFollows
  <2> QED
    BY <2>3, <2>4, <2>6
<1> QED
  BY <1>6 DEF StreamCourse

\* The tail is predicted.
LEMMA TrainingFollows ==
    ASSUME StreamInv, NEW Q \in SUBSET Nat, StreamCourse(Q), ComputeTail, pc' # "failed"
    PROVE  StreamCourse(Q)'
<1>1. /\ SessionSound /\ total \in Nat /\ pc # "failed" /\ modes \in Seq(Modes)
      /\ Len(modes) \in Nat
  BY StreamIsSound DEF SessionSound
<1>2. /\ pc = "tail" /\ pc' = "tailIngest"
      /\ training' = Least(Long, LongHalf + total - nextCenter)
      /\ UNCHANGED <<sessionVars, total, retained, extracted, planVars>>
  BY DEF ComputeTail
<1>3. modes' = modes /\ plans' = plans /\ codes' = codes
  BY <1>2 DEF planVars, sessionVars
<1>4. (Agrees(Q)' <=> Agrees(Q)) /\ (Follows(Q) => Follows(Q)')
  <2>1. UNCHANGED <<sessionVars, modes>> /\ modes \in Seq(Modes)
    BY <1>1, <1>2, <1>3
  <2>2. total \in Int /\ total' \in Int /\ total <= total'
    BY <1>1, <1>2
  <2> QED
    BY <2>1, <2>2, StillFollows
<1>5. ~Settled /\ ~Settled'
  BY <1>2 DEF Settled
<1>6. Recorded(Q) => Recorded(Q)'
  BY <1>1, <1>3, <1>5 DEF Recorded
<1>7. Follows(Q) /\ TailFollows(Q) => TailFollows(Q)'
  <2> SUFFICES ASSUME Follows(Q), TailFollows(Q) PROVE TailFollows(Q)'
    OBVIOUS
  <2>1. TailAt(Q, total, Len(modes))
    BY <1>2 DEF TailFollows
  <2>2. training' = TrainingAt(Q, total, Len(modes))
    BY <1>2 DEF TrainingAt, Follows, At
  <2>3. Len(modes) \in 0 .. Len(modes)
    BY <1>1
  <2> QED
    BY <1>2, <1>3, <2>1, <2>2, <2>3 DEF TailFollows
<1> QED
  BY <1>4, <1>6, <1>7 DEF StreamCourse

\* The last block is planned, its code put right.
LEMMA TerminalFollows ==
    ASSUME StreamInv, NEW Q \in SUBSET Nat, StreamCourse(Q), TailTerminal
    PROVE  StreamCourse(Q)'
<1>1. /\ SessionSound /\ total \in Nat /\ pc # "failed" /\ modes \in Seq(Modes)
      /\ Len(modes) \in Nat /\ Len(plans) \in Nat /\ plans \in Seq(PlanRecords)
      /\ Len(codes) = Len(modes)
  BY StreamIsSound DEF SessionSound
<1>2. /\ pc = "tailScan" /\ ~AllPlanned /\ EmitPlan(1, "flush")
      /\ UNCHANGED <<selectorVars, cursorVars, feederVars, frames, handed>>
      /\ codes' = FinalizedCodes(IF Len(plans) > 0 THEN modes[Len(plans)] ELSE 0,
                                 modes[Len(plans) + 1])
  BY DEF TailTerminal
<1>3. pending # NoCentre /\ ~Planned /\ ~Settled
  BY <1>2, Shapes DEF StreamInv, Planned, Settled
<1>4. ASSUME Agrees(Q)'
      PROVE  Follows(Q)' /\ Recorded(Q)' /\ TailFollows(Q)'
  <2>1. Agrees(Q)
    BY <1>2, <1>4 DEF Agrees, selectorVars
  <2>2. Follows(Q) /\ Recorded(Q) /\ TailFollows(Q)
    BY <2>1 DEF StreamCourse
  <2> DEFINE n == Len(modes)
             p == PlanOf(Q, n, TRUE)
  <2>3. /\ n = Len(plans) + 1 /\ plans' = Append(plans, p)
        /\ p \in PlanRecords /\ pc' = "flush" /\ modes' = modes
    <3>1. 1 = IF TRUE THEN 1 ELSE currentMode
      OBVIOUS
    <3> QED
      BY <1>2, <1>3, <2>2, <3>1, PlanFollows
  <2>4. /\ Len(codes') = n
        /\ \A k \in 1 .. n : codes'[k] = CodeOf(Q, k, k = n)
    <3> DEFINE before == IF n > 1 THEN modes[n - 1] ELSE 0
    <3>1. codes' = FinalizedCodes(before, modes[n])
      <4>1. Len(plans) = n - 1 /\ (Len(plans) > 0 <=> n > 1)
        BY <1>1, <2>3
      <4> QED
        BY <1>2, <2>3, <4>1
    <3>2. \A k \in 1 .. n : codes[k] = CodeOf(Q, k, FALSE)
      BY <1>1, <1>3, <2>2 DEF Recorded
    <3>3. modes # <<>>
      BY <1>1, <2>3
    <3> DEFINE final == FinalizedCodes(before, modes[n])
    <3>4. /\ before = IF Len(modes) > 1 THEN modes[Len(modes) - 1] ELSE 0
          /\ final = FinalizedCodes(before, modes[Len(modes)])
      OBVIOUS
    <3>5. SessionSound /\ Follows(Q) /\ modes # <<>> /\ CodesFollow(Q)
      BY <1>1, <2>2, <3>2, <3>3 DEF CodesFollow
    <3> HIDE DEF final, before
    <3>6. FinalCodes(Q, final)
      BY ONLY <3>4, <3>5, Q \in SUBSET Nat, FinalFollows
    <3>7. codes' = final
      BY <3>1 DEF final
    <3>8. Len(final) = n /\ \A k \in 1 .. n : final[k] = CodeOf(Q, k, k = n)
      BY <3>6 DEF FinalCodes
    <3> QED
      BY <3>7, <3>8
  <2>5. /\ Len(plans') = n /\ plans'[n] = p
        /\ \A k \in 1 .. n - 1 : plans'[k] = plans[k]
    <3> HIDE DEF p
    <3> QED
      BY <1>1, <2>3, AppendProperties
  <2>6. \A k \in 1 .. n : plans'[k] = PlanOf(Q, k, k = n)
    <3> SUFFICES ASSUME NEW k \in 1 .. n PROVE plans'[k] = PlanOf(Q, k, k = n)
      OBVIOUS
    <3>1. CASE k = n
      BY <2>5, <3>1
    <3>2. CASE k # n
      <4>1. k \in 1 .. Len(plans) /\ k \in 1 .. n - 1
        BY <1>1, <2>3, <3>2
      <4>2. plans[k] = PlanOf(Q, k, FALSE)
        BY <1>1, <1>3, <2>2, <4>1 DEF Recorded
      <4> QED
        BY <2>5, <3>2, <4>1, <4>2 DEF PlanOf
    <3> QED
      BY <3>1, <3>2
  <2>7. Settled'
    BY <2>3 DEF Settled
  <2>8. Recorded(Q)'
    BY <2>3, <2>4, <2>5, <2>6, <2>7 DEF Recorded
  <2>9. Follows(Q)'
    <3>1. /\ UNCHANGED <<quanta, queue, selected, scanCursor, nextCenter,
                         previousCenter, previousMode, currentMode, modes, total>>
      BY <1>2, <2>3 DEF selectorVars, cursorVars, feederVars
    <3> QED
      BY <2>2, <3>1 DEF Follows, At, Reached
  <2>10. TailFollows(Q)'
    BY <1>2, <2>2, <2>3 DEF TailFollows, feederVars
  <2> QED
    BY <2>8, <2>9, <2>10
<1> QED
  BY <1>4 DEF StreamCourse

-----------------------------------------------------------------------------
(* The frames of a stream are those of its plans. *)

\* A block's window ends within the block.
LEMMA WindowEnds ==
    ASSUME NEW p \in PlanRecords
    PROVE  /\ WindowEnd(p) \in Int
           /\ p.end = p.start + BlockSize(p.current) => WindowEnd(p) <= p.end
<1>1. p.start \in Int /\ p.current \in Modes /\ p.following \in Modes
  BY DEF PlanRecords
<1> DEFINE q == Quarter(p.current)
           r == Quarter(p.following)
<1>2. /\ q \in Nat /\ r \in Nat /\ BlockSize(p.current) = 4 * q
      /\ BlockSize(p.following) = 4 * r /\ r <= Quarter(1)
      /\ BlockSize(p.current) \div 2 = 2 * q
      /\ BlockSize(p.current) \div 4 = q /\ BlockSize(p.following) \div 4 = r
  BY <1>1, BlockQuarter
<1>3. Short \div 4 = Quarter(0) /\ Quarter(0) \in Nat /\ Quarter(1) \in Nat
  BY Sizes
<1>4. WindowEnd(p) = p.start + 2 * q + q
                     + (IF p.current = 0 THEN Quarter(0) ELSE r)
  BY <1>2, <1>3 DEF WindowEnd
<1>5. p.current = 0 => q = Quarter(0)
  OBVIOUS
<1>6. p.current # 0 => q = Quarter(1)
  BY <1>1 DEF Modes
<1> HIDE DEF q, r
<1> QED
  BY <1>1, <1>2, <1>3, <1>4, <1>5, <1>6

\* The frames made stay those of their plans.
LEMMA FramesStay ==
    ASSUME StreamInv, FramesFollow, frames' = frames,
           \A k \in 1 .. Len(frames) : plans'[k] = plans[k] /\ codes'[k] = codes[k],
           total' \in Int, total <= total',
           training # NoTail => total' = total /\ training' = training
    PROVE  FramesFollow'
<1>1. /\ total \in Nat /\ plans \in Seq(PlanRecords) /\ Len(frames) \in Nat
      /\ Len(plans) \in Nat /\ Len(frames) <= Len(plans)
  BY StreamIsSound
<1>2. LongHalf \in Nat
  BY Sizes
<1> SUFFICES ASSUME NEW k \in 1 .. Len(frames)
             PROVE  /\ frames[k] = FrameOf(plans[k], codes[k], total', training')
                    /\ training' = NoTail => WindowEnd(plans[k]) - LongHalf <= total'
  BY DEF FramesFollow
<1>3. k \in 1 .. Len(plans)
  BY <1>1
<1>4. WindowEnd(plans[k]) \in Int
  BY <1>1, <1>3, ElementOfSeq, WindowEnds
<1>5. /\ frames[k] = FrameOf(plans[k], codes[k], total, training)
      /\ training = NoTail => WindowEnd(plans[k]) - LongHalf <= total
  BY DEF FramesFollow
<1>6. CASE training = NoTail
  <2>1. /\ ~((WindowEnd(plans[k]) - LongHalf) - total > 0)
        /\ ~((WindowEnd(plans[k]) - LongHalf) - total' > 0)
        /\ WindowEnd(plans[k]) - LongHalf <= total'
    BY <1>1, <1>2, <1>4, <1>5, <1>6
  <2>2. PastOf(plans[k], total', training') = PastOf(plans[k], total, training)
    BY <2>1 DEF PastOf
  <2> QED
    BY <1>5, <2>1, <2>2 DEF FrameOf
<1>7. CASE training # NoTail
  BY <1>5, <1>7
<1> QED
  BY <1>6, <1>7

\* A frame is made of its plan.
LEMMA FrameFollows ==
    ASSUME StreamInv, FramesFollow, EmitFrame, pc' # "failed"
    PROVE  FramesFollow'
<1> DEFINE m == Len(frames) + 1
           plan == plans[m]
           f == [plan |-> plan, past |-> Past(plan), code |-> codes[m]]
<1>1. /\ total \in Nat /\ plans \in Seq(PlanRecords) /\ Len(frames) \in Nat
      /\ Len(plans) \in Nat /\ Len(frames) <= Len(plans)
      /\ frames \in Seq(FrameRecords) /\ codes \in Seq(0 .. 3)
      /\ Len(codes) = Len(modes) /\ Len(modes) \in Nat /\ training \in Nat
  BY StreamIsSound
<1>2. Len(frames) # Len(plans) /\ Len(plans) <= Len(modes)
  <2>1. Len(frames) # Len(plans)
    BY DEF EmitFrame, AllEmitted
  <2>2. Len(plans) <= Len(modes)
    BY <1>1 DEF StreamInv, TimelineInv
  <2> QED
    BY <2>1, <2>2
<1>3. m \in 1 .. Len(plans) /\ m \in 1 .. Len(codes)
  BY <1>1, <1>2
<1>4. plan \in PlanRecords /\ codes[m] \in 0 .. 3
  BY <1>1, <1>3, ElementOfSeq
<1>5. /\ FrameAtHand(plan) /\ frames' = Append(frames, f)
      /\ UNCHANGED <<sessionVars, feederVars, planVars>>
  BY DEF EmitFrame
<1>6. plan.end = plan.start + BlockSize(plan.current)
  BY <1>3 DEF StreamInv, PlansInv, InSequence
<1>7. /\ WindowEnd(plan) \in Int /\ WindowEnd(plan) <= plan.end
      /\ plan.end \in Int /\ LongHalf \in Nat
  <2> HIDE DEF plan
  <2>1. plan.end \in Int
    BY <1>4 DEF PlanRecords
  <2>2. LongHalf \in Nat
    BY Sizes
  <2> QED
    BY <1>4, <1>6, <2>1, <2>2, WindowEnds
<1>8. training = NoTail => WindowEnd(plan) - LongHalf <= total
  <2>1. plan.end - LongHalf <= total \/ training # NoTail
    BY <1>5 DEF FrameAtHand
  <2> HIDE DEF plan
  <2> QED
    BY <1>1, <1>7, <2>1
<1>9. f = FrameOf(plan, codes[m], total, training)
  BY DEF FrameOf, PastOf, Past
<1>10. f \in FrameRecords
  <2>1. Past(plan) \in [trained : Nat, predicted : Int]
    <3>1. Long \in Nat
      BY BlockSizesAssumption
    <3> HIDE DEF plan
    <3> QED
      BY <1>1, <1>7, <3>1 DEF Past, Least
  <2> HIDE DEF plan, m
  <2> QED
    BY <1>4, <2>1 DEF FrameRecords
<1>11. /\ codes' = codes /\ plans' = plans /\ total' = total /\ training' = training
  BY <1>5 DEF sessionVars, feederVars, planVars
<1> HIDE DEF f
<1>12. /\ Len(frames') = m /\ frames'[m] = f
       /\ \A k \in 1 .. Len(frames) : frames'[k] = frames[k]
  BY <1>1, <1>5, <1>10, AppendProperties
<1> SUFFICES ASSUME NEW k \in 1 .. m
             PROVE  /\ frames'[k] = FrameOf(plans[k], codes[k], total, training)
                    /\ training = NoTail => WindowEnd(plans[k]) - LongHalf <= total
  BY <1>11, <1>12 DEF FramesFollow
<1>13. CASE k = m
  BY <1>8, <1>9, <1>12, <1>13
<1>14. CASE k # m
  <2>1. k \in 1 .. Len(frames)
    BY <1>1, <1>14
  <2> QED
    BY <1>12, <2>1 DEF FramesFollow
<1> QED
  BY <1>13, <1>14

\* A plan or a decision leaves the plans and codes of the frames made.
LEMMA FramesKeep ==
    ASSUME StreamInv,
           \/ plans' = plans
           \/ \E p \in PlanRecords : plans' = Append(plans, p),
           \/ codes' = codes
           \/ \E code \in 0 .. 3 : codes' = Append(codes, code)
           \/ \E code : /\ codes' = [codes EXCEPT ![Len(codes)] = code]
                        /\ ~AllPlanned
    PROVE  \A k \in 1 .. Len(frames) : plans'[k] = plans[k] /\ codes'[k] = codes[k]
<1>1. /\ plans \in Seq(PlanRecords) /\ Len(frames) \in Nat
      /\ Len(plans) \in Nat /\ Len(frames) <= Len(plans)
      /\ codes \in Seq(0 .. 3) /\ Len(codes) = Len(modes) /\ Len(modes) \in Nat
  BY StreamIsSound
<1>2. Len(plans) <= Len(modes)
  BY <1>1 DEF StreamInv, TimelineInv
<1> SUFFICES ASSUME NEW k \in 1 .. Len(frames)
             PROVE  plans'[k] = plans[k] /\ codes'[k] = codes[k]
  OBVIOUS
<1>3. k \in 1 .. Len(plans) /\ k \in 1 .. Len(codes)
  BY <1>1, <1>2
<1>4. plans'[k] = plans[k]
  <2>1. ASSUME NEW p \in PlanRecords, plans' = Append(plans, p)
        PROVE  plans'[k] = plans[k]
    BY <1>1, <1>3, <2>1, AppendProperties
  <2> QED
    BY <2>1
<1>5. codes'[k] = codes[k]
  <2>1. ASSUME NEW code \in 0 .. 3, codes' = Append(codes, code)
        PROVE  codes'[k] = codes[k]
    BY <1>1, <1>3, <2>1, AppendProperties
  <2>2. ASSUME NEW code, codes' = [codes EXCEPT ![Len(codes)] = code], ~AllPlanned
        PROVE  codes'[k] = codes[k]
    <3>1. k # Len(codes)
      BY <1>1, <1>2, <1>3, <2>2 DEF AllPlanned
    <3>2. k \in DOMAIN codes
      BY <1>1, <1>3
    <3> QED
      BY <2>2, <3>1, <3>2
  <2> QED
    BY <2>1, <2>2
<1> QED
  BY <1>4, <1>5


-----------------------------------------------------------------------------
(* A step of a stream. *)

\* A scan of the tail is decided.
LEMMA TailScanDecides ==
    ASSUME StreamInv, pc = "tailScan", pending = NoCentre
    PROVE  Status >= 0
<1> USE DEF StreamInv
<1>1. SessionSound /\ total \in Nat /\ Len(modes) \in Nat
  BY StreamIsSound
<1>2. previousCenter < total
  BY DEF EndInv, Planned
<1>3. nextCenter = 0 \/ nextCenter <= previousCenter + 2 * Quarter(1)
  <2>1. CASE modes = <<>>
    BY <2>1 DEF TimelineInv
  <2>2. CASE modes # <<>>
    <3>1. nextCenter = previousCenter + Quarter(previousMode) + Quarter(currentMode)
      BY <2>2 DEF TimelineInv
    <3>2. previousMode \in Modes /\ currentMode \in Modes /\ previousCenter \in Int
      BY DEF Typed, SessionTypeOK
    <3>3. /\ Quarter(previousMode) \in Nat /\ Quarter(previousMode) <= Quarter(1)
          /\ Quarter(currentMode) \in Nat /\ Quarter(currentMode) <= Quarter(1)
          /\ Quarter(1) \in Nat
      BY <3>2, BlockQuarter, Sizes
    <3> QED
      BY <3>1, <3>2, <3>3
  <2> QED
    BY <2>1, <2>2
<1>4. LongHalf + total + BatchTail < Reached + Hop
  <2>1. ~QuantumComplete /\ training # NoTail /\ Primed /\ quanta = extracted
    BY DEF CallInv, SelectorInv
  <2>2. ~(quanta * Hop + 2 * Hop <= LongHalf + total + StreamTail)
    BY <2>1 DEF QuantumComplete, Window, DetectorStream
  <2>3. /\ quanta \in Nat /\ Hop \in Nat /\ LongHalf \in Nat /\ StreamTail \in Nat
        /\ BatchTail \in Nat /\ BatchTail <= StreamTail
    <3>1. quanta \in Nat
      BY DEF Typed, SessionTypeOK
    <3>2. LongHalf \in Nat
      BY Sizes
    <3> QED
      BY <3>1, <3>2, Bounds, TailAssumption
  <2>4. quanta * Hop \in Int
    BY <2>3
  <2> QED
    BY <1>1, <2>2, <2>3, <2>4 DEF Reached
<1> QED
  BY <1>1, <1>2, <1>3, <1>4, TailDecides

\* What a call decides is what the course has.
LEMMA RunFollows ==
    ASSUME StreamInv, StreamInv', Run, NEW Q \in SUBSET Nat, StreamCourse(Q)
    PROVE  StreamCourse(Q)'
<1>1. /\ pending # NoCentre <=> ~AllPlanned
      /\ total \in Int /\ total \in Nat /\ modes \in Seq(Modes)
  BY Shapes, StreamIsSound DEF StreamInv, SessionSound
<1>2. pc' # "failed" /\ pc' # "settle" /\ pc # "settle"
  BY DEF StreamInv, Typed
<1>3. ASSUME UNCHANGED <<sessionVars, planVars, total, training>>,
             pc' # "tail", Settled' <=> Settled, pc' \in Late => pc \in Late
      PROVE  StreamCourse(Q)'
  <2>1. /\ UNCHANGED <<sessionVars, modes, plans>> /\ total' = total
        /\ training' = training /\ total' \in Int /\ total <= total'
    BY <1>1, <1>3 DEF planVars
  <2> QED
    BY <1>3, <2>1, QuietFollows
<1>4. ASSUME EmitPlan(PendingFollowing, pc), pc \in {"pump", "drain", "tailScan"},
             ~AllPlanned, UNCHANGED <<sessionVars, feederVars>>
      PROVE  StreamCourse(Q)'
  <2>1. UNCHANGED <<sessionVars, total, training>>
    BY <1>4 DEF feederVars
  <2> QED
    BY <1>1, <1>4, <2>1, PlannedFollows
<1>5. ASSUME NEW eos \in BOOLEAN, Decide(eos), Status >= 0, AllPlanned,
             modes' = Append(modes, currentMode), UNCHANGED <<pc, planner, plans>>,
             UNCHANGED feederVars, pc \in {"pump", "drain", "tailScan"}
      PROVE  StreamCourse(Q)'
  <2>1. UNCHANGED <<pc, plans, total, training>>
    BY <1>5 DEF feederVars
  <2> QED
    BY <1>1, <1>5, <2>1, DecideFollows
<1>6. ASSUME pc = "drain", pc' = "tail", UNCHANGED <<quanta, queue, codes>>,
             UNCHANGED planVars, total' = total, Follows(Q) => Follows(Q)',
             Agrees(Q) => total <= At(Q).prev \/ ~Known(Q, At(Q), Reached)
      PROVE  StreamCourse(Q)'
  <2>1. UNCHANGED <<quanta, queue, total, modes, plans, codes>>
    BY <1>6 DEF planVars
  <2> QED
    BY <1>6, <2>1, TailReached
<1>7. CASE QuantaIngested
  BY <1>3, <1>7 DEF QuantaIngested, feederVars, Settled, Late
<1>8. CASE EmitFrame
  <2>1. pc' = pc
    BY <1>2, <1>8 DEF EmitFrame
  <2> QED
    BY <1>3, <1>8, <2>1 DEF EmitFrame, feederVars, Settled, Late
<1>9. CASE PumpPlan
  BY <1>4, <1>9 DEF PumpPlan
<1>10. CASE PumpScan
  <2>1. CASE Decide(FALSE) /\ modes' = Append(modes, currentMode)
             /\ UNCHANGED <<pc, planner, plans>>
    <3>1. Status >= 0
      BY <2>1 DEF Decide
    <3> QED
      BY <1>5, <1>10, <2>1, <3>1 DEF PumpScan
  <2> QED
    BY <1>1, <1>2, <1>10, <2>1 DEF PumpScan, ModeIteration
<1>11. CASE PumpRests
  BY <1>2, <1>3, <1>11 DEF PumpRests, feederVars, Settled, Late
<1>12. CASE DrainPlan
  <2>1. CASE CentredInSource
    BY <1>4, <1>12, <2>1 DEF DrainPlan
  <2>2. CASE ~CentredInSource
    <3>1. /\ pc = "drain" /\ pc' = "tail" /\ ~AllPlanned /\ ~(pending < total)
          /\ UNCHANGED <<sessionVars, planVars, feederVars>>
      BY <1>12, <2>2 DEF DrainPlan, CentredInSource
    <3>2. pending = previousCenter /\ pending \in Nat
      BY <1>1, <3>1, Shapes DEF StreamInv
    <3>3. total' = total /\ UNCHANGED <<quanta, queue, codes>>
          /\ UNCHANGED <<sessionVars, modes>>
      BY <3>1 DEF feederVars, planVars, sessionVars, selectorVars
    <3>4. Follows(Q) => Follows(Q)'
      <4>1. total' \in Int /\ total <= total'
        BY <1>1, <3>3
      <4> QED
        BY <1>1, <3>3, <4>1, StillFollows
    <3>5. Agrees(Q) => total <= At(Q).prev
      <4>1. Follows(Q) => At(Q).prev = pending
        BY <3>2 DEF Follows
      <4>2. total <= pending
        BY <1>1, <3>1, <3>2
      <4> QED
        BY <4>1, <4>2 DEF StreamCourse
    <3> QED
      BY <1>6, <3>1, <3>3, <3>4, <3>5
  <2> QED
    BY <2>1, <2>2
<1>13. CASE DrainScan
  <2>1. HasSourceFrame(total)
    BY <1>1, <1>13 DEF HasSourceFrame, EndInv, Planned, StreamInv, DrainScan
  <2>2. CASE Decide(FALSE) /\ modes' = Append(modes, currentMode)
             /\ UNCHANGED <<pc, planner, plans>>
    <3>1. Status >= 0
      BY <2>2 DEF Decide
    <3> QED
      BY <1>5, <1>13, <2>2, <3>1 DEF DrainScan
  <2>3. CASE Undecided /\ pc' = "tail" /\ UNCHANGED planVars
    <3>1. /\ pc = "drain" /\ total' = total /\ modes' = modes
          /\ UNCHANGED <<quanta, queue, codes>>
      BY <1>13, <2>3 DEF DrainScan, feederVars, planVars, Undecided
    <3>2. SessionSound
      BY StreamIsSound
    <3>3. CASE Agrees(Q)
      <4>1. Follows(Q)
        BY <3>3 DEF StreamCourse
      <4>2. Follows(Q)' /\ ~Known(Q, At(Q), Reached)
        BY <2>3, <3>1, <3>2, <3>3, <4>1, UndecidedFollows
      <4> QED
        BY <1>6, <2>3, <3>1, <4>2
    <3>4. CASE ~Agrees(Q)
      BY <3>1, <3>4 DEF StreamCourse, Agrees
    <3> QED
      BY <3>3, <3>4
  <2> QED
    BY <1>1, <1>13, <2>1, <2>2, <2>3 DEF DrainScan, ModeIteration
<1>14. CASE ComputeTail
  BY <1>2, <1>14, TrainingFollows
<1>15. CASE TailPlan
  BY <1>4, <1>15 DEF TailPlan
<1>16. CASE TailTerminal
  BY <1>16, TerminalFollows
<1>17. CASE TailScan
  <2>1. pc = "tailScan" /\ AllPlanned /\ pending = NoCentre /\ UNCHANGED feederVars
    BY <1>1, <1>17 DEF TailScan
  <2>2. HasSourceFrame(total)
    BY <2>1 DEF HasSourceFrame, EndInv, Planned, StreamInv
  <2>3. /\ Decide(TRUE) /\ modes' = Append(modes, currentMode)
        /\ UNCHANGED <<pc, planner, plans>>
    BY <1>17, <2>1, <2>2 DEF TailScan, ModeIteration
  <2> QED
    BY <1>5, <2>1, <2>3, TailScanDecides
<1>18. CASE Answer
  <2>1. pc' = "done"
    BY <1>2, <1>18 DEF Answer
  <2> QED
    BY <1>3, <1>18, <2>1 DEF Answer, feederVars, Settled, Late
<1> QED
  BY <1>7, <1>8, <1>9, <1>10, <1>11, <1>12, <1>13, <1>14, <1>15, <1>16, <1>17,
     <1>18 DEF Run

\* What a push, a finish or a quantum leaves of it.
LEMMA FeedFollows ==
    ASSUME StreamInv, StreamInv',
           \/ \E n \in Nat : PushChunk(n)
           \/ Finish
           \/ \E flags \in FlagWords : IngestQuantum(flags),
           NEW Q \in SUBSET Nat, StreamCourse(Q)
    PROVE  StreamCourse(Q)'
<1>1. total \in Nat
  BY StreamIsSound
<1>2. ASSUME NEW n \in Nat, PushChunk(n) PROVE StreamCourse(Q)'
  <2>1. /\ total' \in Int /\ total <= total' /\ UNCHANGED <<sessionVars, modes, plans>>
        /\ pc = "idle" /\ pc' = "ingest"
    BY <1>1, <1>2 DEF PushChunk, planVars
  <2>2. pc' # "tail" /\ (Settled' <=> Settled) /\ pc' \notin Late
    BY <2>1 DEF Settled, Late
  <2> QED
    BY <2>1, <2>2, QuietFollows
<1>3. CASE Finish
  <2>1. /\ total' \in Int /\ total <= total' /\ UNCHANGED <<sessionVars, modes, plans>>
        /\ pc = "idle" /\ pc' \in {"refused", "drain"}
    BY <1>1, <1>3 DEF Finish, planVars, feederVars
  <2>2. pc' # "tail" /\ (Settled' <=> Settled) /\ pc' \notin Late
    BY <2>1 DEF Settled, Late
  <2> QED
    BY <2>1, <2>2, QuietFollows
<1>4. ASSUME NEW flags \in FlagWords, IngestQuantum(flags) PROVE StreamCourse(Q)'
  <2>1. quanta = extracted /\ quanta' = extracted' /\ extracted \in Nat
    BY DEF StreamInv, SelectorInv, Typed
  <2>2. Ingest(flags)
    <3>1. quanta' # quanta
      BY <1>4, <2>1 DEF IngestQuantum
    <3> QED
      BY <1>4, <3>1 DEF IngestQuantum, sessionVars, selectorVars
  <2>3. UNCHANGED <<pc, total, training, modes, plans>>
    BY <1>4 DEF IngestQuantum, planVars
  <2> QED
    BY <2>2, <2>3, QuantumFollows
<1> QED
  BY <1>2, <1>3, <1>4


\* A call keeps the frames made of their plans.
LEMMA RunFrames ==
    ASSUME StreamInv, StreamInv', Run, FramesFollow
    PROVE  FramesFollow'
<1>1. /\ pending # NoCentre <=> ~AllPlanned
      /\ total \in Int /\ currentMode \in Modes
  BY Shapes, StreamIsSound DEF StreamInv
<1>2. pc' # "failed"
  BY DEF StreamInv, Typed
<1>3. ASSUME frames' = frames, UNCHANGED <<total, training>>,
             \A k \in 1 .. Len(frames) : plans'[k] = plans[k] /\ codes'[k] = codes[k]
      PROVE  FramesFollow'
  <2>1. total' \in Int /\ total <= total'
    BY <1>1, <1>3
  <2> QED
    BY <1>3, <2>1, FramesStay
<1>4. ASSUME NEW following \in Modes, NEW next, EmitPlan(following, next), ~AllPlanned,
             ~Planned
      PROVE  \E p \in PlanRecords : plans' = Append(plans, p)
  BY <1>1, <1>4, PlanMade DEF StreamInv, PlanAdded
<1>5. ASSUME EmitPlan(PendingFollowing, pc), ~AllPlanned, ~Planned,
             UNCHANGED <<sessionVars, feederVars, frames>>
      PROVE  FramesFollow'
  <2>1. codes' = codes /\ frames' = frames /\ UNCHANGED <<total, training>>
    BY <1>5 DEF sessionVars, feederVars
  <2>2. PendingFollowing \in Modes
    BY <1>1 DEF PendingFollowing
  <2>3. \E p \in PlanRecords : plans' = Append(plans, p)
    BY <1>4, <1>5, <2>2
  <2> QED
    BY <1>3, <2>1, <2>3, FramesKeep
<1>6. ASSUME NEW eos, Decide(eos), plans' = plans, UNCHANGED <<feederVars, frames>>
      PROVE  FramesFollow'
  <2>1. PICK f : codes' = Append(codes, TransitionCode(f))
    BY <1>6 DEF Decide
  <2>2. TransitionCode(f) \in 0 .. 3
    BY DEF TransitionCode
  <2>3. frames' = frames /\ UNCHANGED <<total, training>>
    BY <1>6 DEF feederVars
  <2> DEFINE code == TransitionCode(f)
  <2> HIDE DEF code
  <2>4. code \in 0 .. 3 /\ codes' = Append(codes, code)
    BY <2>1, <2>2 DEF code
  <2> QED
    BY <1>3, <1>6, <2>3, <2>4, FramesKeep
<1>7. ASSUME UNCHANGED <<codes, plans, total, training, frames>>
      PROVE  FramesFollow'
  BY <1>3, <1>7
<1>8. CASE QuantaIngested
  BY <1>7, <1>8 DEF QuantaIngested, sessionVars, feederVars, planVars
<1>9. CASE EmitFrame
  BY <1>2, <1>9, FrameFollows
<1>10. CASE PumpPlan
  BY <1>5, <1>10 DEF PumpPlan, Planned
<1>11. CASE PumpScan
  <2>1. CASE \E eos \in BOOLEAN : Decide(eos) /\ plans' = plans
    BY <1>6, <1>11, <2>1 DEF PumpScan
  <2>2. CASE UNCHANGED <<codes, plans>>
    BY <1>7, <1>11, <2>2 DEF PumpScan, feederVars
  <2> QED
    BY <1>11, <2>1, <2>2 DEF PumpScan, ModeIteration, Undecided, sessionVars, planVars
<1>12. CASE PumpRests
  BY <1>7, <1>12 DEF PumpRests, sessionVars, planVars
<1>13. CASE DrainPlan
  <2>1. CASE CentredInSource
    BY <1>5, <1>13, <2>1 DEF DrainPlan, Planned
  <2>2. CASE ~CentredInSource
    BY <1>7, <1>13, <2>2 DEF DrainPlan, sessionVars, feederVars, planVars
  <2> QED
    BY <2>1, <2>2
<1>14. CASE DrainScan
  <2>1. CASE \E eos \in BOOLEAN : Decide(eos) /\ plans' = plans
    BY <1>6, <1>14, <2>1 DEF DrainScan
  <2>2. CASE UNCHANGED <<codes, plans>>
    BY <1>7, <1>14, <2>2 DEF DrainScan, feederVars
  <2> QED
    BY <1>14, <2>1, <2>2 DEF DrainScan, ModeIteration, Undecided, sessionVars, planVars
<1>15. CASE ComputeTail
  <2>1. training = NoTail
    BY <1>15 DEF ComputeTail, StreamInv, CallInv
  <2>2. /\ UNCHANGED <<codes, plans, total, frames>>
    BY <1>15 DEF ComputeTail, sessionVars, planVars
  <2> QED
    BY <1>1, <2>1, <2>2, FramesStay
<1>16. CASE TailPlan
  BY <1>5, <1>16 DEF TailPlan, Planned
<1>17. CASE TailTerminal
  <2>1. \E p \in PlanRecords : plans' = Append(plans, p)
    BY <1>4, <1>17 DEF TailTerminal, Planned, Modes
  <2>2. \/ codes' = codes
        \/ \E code : codes' = [codes EXCEPT ![Len(codes)] = code] /\ ~AllPlanned
    <3>1. PICK b, m : codes' = FinalizedCodes(b, m)
      BY <1>17 DEF TailTerminal
    <3> QED
      BY <1>17, <3>1 DEF FinalizedCodes, TailTerminal
  <2>3. frames' = frames /\ UNCHANGED <<total, training>>
    BY <1>17 DEF TailTerminal, feederVars
  <2> QED
    BY <1>3, <2>1, <2>2, <2>3, FramesKeep
<1>18. CASE TailScan
  <2>1. CASE \E eos \in BOOLEAN : Decide(eos) /\ plans' = plans
    BY <1>6, <1>18, <2>1 DEF TailScan
  <2>2. CASE UNCHANGED <<codes, plans>>
    BY <1>7, <1>18, <2>2 DEF TailScan, feederVars
  <2> QED
    BY <1>18, <2>1, <2>2 DEF TailScan, ModeIteration, Undecided, sessionVars, planVars
<1>19. CASE Answer
  BY <1>7, <1>19 DEF Answer, sessionVars, feederVars, planVars
<1> QED
  BY <1>8, <1>9, <1>10, <1>11, <1>12, <1>13, <1>14, <1>15, <1>16, <1>17, <1>18,
     <1>19 DEF Run

\* So do a push, a finish and a quantum.
LEMMA FeedFrames ==
    ASSUME StreamInv,
           \/ \E n \in Nat : PushChunk(n)
           \/ Finish
           \/ \E flags \in FlagWords : IngestQuantum(flags),
           FramesFollow
    PROVE  FramesFollow'
<1>1. total \in Nat
  BY StreamIsSound
<1>2. UNCHANGED <<codes, plans, frames>>
  BY DEF PushChunk, Finish, IngestQuantum, Ingest, sessionVars, planVars
<1>3. total' \in Int /\ total <= total'
  BY <1>1 DEF PushChunk, Finish, IngestQuantum, feederVars
<1>4. training # NoTail => total' = total /\ training' = training
  BY DEF PushChunk, Finish, IngestQuantum, feederVars, StreamInv, CallInv
<1> QED
  BY <1>2, <1>3, <1>4, FramesStay


-----------------------------------------------------------------------------
(* What was heard, and the queue it leaves. *)

\* The slots of a quantum lie next to it.
LEMMA SlotsNear ==
    ASSUME NEW q \in Nat, NEW flags, NEW s \in Slots(q, flags)
    PROVE  s \in Nat /\ q <= s + 1 /\ s <= q + 1
  BY DEF Slots

\* A quantum adds its slots to the queue.
LEMMA QueueHears ==
    ASSUME quanta \in Nat, queue = QueueOf(heard, quanta), NEW flags, Ingest(flags),
           NEW words, words[quanta + 1] = flags,
           \A k \in 1 .. quanta : words[k] = heard[k]
    PROVE  queue' = QueueOf(words, quanta')
<1>1. /\ quanta' = quanta + 1
      /\ queue' = (queue \ {quanta + 2}) \cup Slots(quanta, flags)
  BY DEF Ingest
<1>2. ASSUME NEW s \in Nat, NEW q \in 0 .. quanta - 1
      PROVE  s \in Slots(q, words[q + 1]) <=> s \in Slots(q, heard[q + 1])
  <2>1. q + 1 \in 1 .. quanta
    OBVIOUS
  <2> QED
    BY <2>1
<1>3. \A s \in queue : s # quanta + 2
  <2> SUFFICES ASSUME NEW s \in queue PROVE s # quanta + 2
    OBVIOUS
  <2>1. PICK q \in 0 .. quanta - 1 : s \in Slots(q, heard[q + 1])
    BY DEF QueueOf
  <2>2. s \in Nat /\ s <= q + 1
    BY <2>1, SlotsNear
  <2> QED
    BY <2>2
<1>4. queue' = queue \cup Slots(quanta, flags)
  BY <1>1, <1>3
<1>5. \A s \in Slots(quanta, flags) : s \in Nat
  BY SlotsNear
<1>6. ASSUME NEW s
      PROVE  s \in queue' <=> s \in QueueOf(words, quanta + 1)
  <2>1. ASSUME s \in queue' PROVE s \in QueueOf(words, quanta + 1)
    <3>1. CASE s \in queue
      <4>1. PICK q \in 0 .. quanta - 1 : s \in Slots(q, heard[q + 1]) /\ s \in Nat
        BY <3>1 DEF QueueOf
      <4>2. q \in 0 .. (quanta + 1) - 1 /\ s \in Slots(q, words[q + 1])
        BY <1>2, <4>1
      <4> QED
        BY <4>1, <4>2 DEF QueueOf
    <3>2. CASE s \in Slots(quanta, flags)
      <4>1. quanta \in 0 .. (quanta + 1) - 1 /\ s \in Slots(quanta, words[quanta + 1])
        BY <3>2
      <4> QED
        BY <1>5, <3>2, <4>1 DEF QueueOf
    <3> QED
      BY <1>4, <2>1, <3>1, <3>2
  <2>2. ASSUME s \in QueueOf(words, quanta + 1) PROVE s \in queue'
    <3>1. PICK q \in 0 .. (quanta + 1) - 1 : s \in Slots(q, words[q + 1]) /\ s \in Nat
      BY <2>2 DEF QueueOf
    <3>2. CASE q = quanta
      BY <1>4, <3>1, <3>2
    <3>3. CASE q # quanta
      <4>1. q \in 0 .. quanta - 1
        BY <3>3
      <4>2. s \in Slots(q, heard[q + 1])
        BY <1>2, <3>1, <4>1
      <4>3. s \in queue
        BY <3>1, <4>1, <4>2 DEF QueueOf
      <4> QED
        BY <1>4, <4>3
    <3> QED
      BY <3>2, <3>3
  <2> QED
    BY <2>1, <2>2
<1>7. queue' = QueueOf(words, quanta + 1)
  BY <1>6
<1> QED
  BY <1>1, <1>7

\* The queue of a part of the quanta agrees with that of all.
LEMMA QueueAgrees ==
    ASSUME quanta \in Nat, NEW n \in Nat, quanta <= n, queue = QueueOf(heard, quanta)
    PROVE  QueueOf(heard, n) \in SUBSET Nat /\ Agrees(QueueOf(heard, n))
<1>1. ASSUME NEW s \in Nat, s + 1 < quanta
      PROVE  s \in queue <=> s \in QueueOf(heard, n)
  <2>1. ASSUME s \in queue PROVE s \in QueueOf(heard, n)
    <3>1. PICK q \in 0 .. quanta - 1 : s \in Slots(q, heard[q + 1])
      BY <2>1 DEF QueueOf
    <3>2. q \in 0 .. n - 1
      OBVIOUS
    <3> QED
      BY <3>1, <3>2 DEF QueueOf
  <2>2. ASSUME s \in QueueOf(heard, n) PROVE s \in queue
    <3>1. PICK q \in 0 .. n - 1 : s \in Slots(q, heard[q + 1])
      BY <2>2 DEF QueueOf
    <3>2. q <= s + 1
      BY <3>1, SlotsNear
    <3>3. q \in 0 .. quanta - 1
      BY <1>1, <3>2
    <3> QED
      BY <3>1, <3>3 DEF QueueOf
  <2> QED
    BY <2>1, <2>2
<1> QED
  BY <1>1 DEF Agrees, QueueOf

-----------------------------------------------------------------------------
(* The answer is the one the course has, and there is one. *)

\* The block a cursor is of is centred where the next one has come from.
LEMMA CentreOfPlan ==
    ASSUME NEW Q \in SUBSET Nat, NEW k \in Nat, k # 0, NEW ends \in BOOLEAN
    PROVE  CentreOf(PlanOf(Q, k, ends)) = Course(Q)[k].prev
<1> DEFINE c == Course(Q)[k - 1]
<1>1. k - 1 \in Nat
  OBVIOUS
<1>2. c \in Cursors
  BY <1>1, CourseUnfolds
<1>3. Course(Q)[k].prev = c.next
  BY CourseBefore
<1>4. PlanOf(Q, k, ends).start = c.next + LongHalf - 2 * Quarter(c.mode)
      /\ PlanOf(Q, k, ends).current = c.mode
  BY DEF PlanOf
<1> DEFINE p == PlanOf(Q, k, ends)
<1> HIDE DEF c, p
<1>5. c.next \in Nat /\ c.mode \in Modes
  BY <1>2, CursorFields
<1>6. BlockSize(c.mode) \div 2 = 2 * Quarter(c.mode) /\ Quarter(c.mode) \in Nat
  BY <1>5, BlockQuarter
<1>7. LongHalf \in Nat
  BY Sizes
<1>8. CentreOf(p) = c.next
  BY <1>4, <1>5, <1>6, <1>7 DEF CentreOf, p
<1> QED
  BY <1>3, <1>8 DEF p

\* A stream that is done has the whole answer.
LEMMA DoneComplete ==
    ASSUME StreamInv, FramesFollow, pc = "done",
           NEW Q \in SUBSET Nat, Agrees(Q), StreamCourse(Q)
    PROVE  Complete(Q, Result)
<1> DEFINE n == Len(modes)
<1>1. Follows(Q) /\ Recorded(Q) /\ TailFollows(Q)
  BY DEF StreamCourse
<1>2. /\ total \in Nat /\ plans \in Seq(PlanRecords) /\ codes \in Seq(0 .. 3)
      /\ modes \in Seq(Modes) /\ frames \in Seq(FrameRecords)
      /\ n \in Nat /\ Len(codes) = n
  BY StreamIsSound DEF SessionSound
<1>3. Len(plans) = n /\ Len(frames) = Len(plans) /\ Settled /\ Planned /\ MinFrames <= total
  BY <1>2, Shapes DEF StreamInv, TimelineInv, CallInv, Planned, Settled, Primed
<1>4. n # 0 /\ CentreOf(plans[n]) >= total
  <2>1. plans # <<>>
    BY <1>3 DEF StreamInv, EndInv
  <2>2. n # 0
    BY <1>2, <1>3, <2>1, EmptySeq
  <2>3. n \in 1 .. Len(plans)
    BY <1>2, <1>3, <2>2
  <2> QED
    BY <1>3, <2>2, <2>3 DEF StreamInv, EndInv
<1>5. \A k \in 1 .. n : plans[k] = PlanOf(Q, k, k = n) /\ codes[k] = CodeOf(Q, k, k = n)
  BY <1>1, <1>2, <1>3 DEF Recorded
<1>6. total <= Course(Q)[n].prev
  <2>1. plans[n] = PlanOf(Q, n, TRUE)
    BY <1>2, <1>4, <1>5 DEF PlanOf
  <2>2. CentreOf(PlanOf(Q, n, TRUE)) = Course(Q)[n].prev
    BY <1>2, <1>4, CentreOfPlan
  <2>3. Course(Q)[n].prev \in Int
    <3>1. Course(Q)[n] \in Cursors
      BY <1>2, CourseUnfolds
    <3>2. Course(Q)[n].prev \in Nat \cup {-1}
      BY <3>1, CursorFields
    <3> QED
      BY <3>2
  <2> QED
    BY <1>2, <1>4, <2>1, <2>2, <2>3
<1>7. Decided(Q, total, Result)
  BY <1>1, <1>2, <1>3, <1>5, <1>6 DEF Decided, Result, Follows
<1>8. Trained(Q, Result)
  BY <1>1 DEF TailFollows, Trained, Result
<1>9. Framed(Result)
  BY <1>2, <1>3 DEF FramesFollow, Framed, Result
<1> QED
  BY <1>2, <1>3, <1>7, <1>8, <1>9 DEF Complete, Result

\* One length, one sequence of decisions.
LEMMA DecidedSame ==
    ASSUME NEW Q \in SUBSET Nat, NEW length \in Nat, NEW r, NEW s,
           Decided(Q, length, r), Decided(Q, length, s)
    PROVE  r.modes = s.modes /\ r.plans = s.plans /\ r.codes = s.codes
<1> DEFINE n == Len(r.modes)
           m == Len(s.modes)
<1>1. n \in Nat /\ m \in Nat
  BY LenProperties DEF Decided
<1>2. \A k \in Nat : Course(Q)[k].prev \in Int
  <2> SUFFICES ASSUME NEW k \in Nat PROVE Course(Q)[k].prev \in Int
    OBVIOUS
  <2>1. Course(Q)[k] \in Cursors
    BY CourseUnfolds
  <2>2. Course(Q)[k].prev \in Nat \cup {-1}
    BY <2>1, CursorFields
  <2> QED
    BY <2>2
<1>3. /\ length <= Course(Q)[n].prev /\ length <= Course(Q)[m].prev
      /\ \A k \in 1 .. n : Course(Q)[k - 1].prev < length
      /\ \A k \in 1 .. m : Course(Q)[k - 1].prev < length
  BY DEF Decided
<1> HIDE DEF n, m
<1>4. n = m
  <2>1. ASSUME n < m PROVE FALSE
    <3>1. n + 1 \in 1 .. m /\ (n + 1) - 1 = n
      BY <1>1, <2>1
    <3>2. Course(Q)[n].prev < length
      BY <1>3, <3>1
    <3> QED
      BY <1>1, <1>2, <1>3, <3>2
  <2>2. ASSUME m < n PROVE FALSE
    <3>1. m + 1 \in 1 .. n /\ (m + 1) - 1 = m
      BY <1>1, <2>2
    <3>2. Course(Q)[m].prev < length
      BY <1>3, <3>1
    <3> QED
      BY <1>1, <1>2, <1>3, <3>2
  <2> QED
    BY <1>1, <2>1, <2>2
<1>5. /\ r.modes \in Seq(Modes) /\ s.modes \in Seq(Modes)
      /\ Len(r.modes) = n /\ Len(s.modes) = n
      /\ \A k \in 1 .. n : r.modes[k] = s.modes[k]
  BY <1>4 DEF Decided, n, m
<1>6. /\ r.plans \in Seq(PlanRecords) /\ s.plans \in Seq(PlanRecords)
      /\ Len(r.plans) = n /\ Len(s.plans) = n
      /\ \A k \in 1 .. n : r.plans[k] = PlanOf(Q, k, k = n) /\ s.plans[k] = PlanOf(Q, k, k = n)
  BY <1>4 DEF Decided, n, m
<1>7. /\ r.codes \in Seq(0 .. 3) /\ s.codes \in Seq(0 .. 3)
      /\ Len(r.codes) = n /\ Len(s.codes) = n
      /\ \A k \in 1 .. n : r.codes[k] = CodeOf(Q, k, k = n) /\ s.codes[k] = CodeOf(Q, k, k = n)
  BY <1>4 DEF Decided, n, m
<1> DEFINE S == 0 .. 3
<1>8. r.codes \in Seq(S) /\ s.codes \in Seq(S)
  BY <1>7
<1> HIDE DEF S
<1>9. r.modes = s.modes
  BY <1>5, SeqEqual
<1>10. r.plans = s.plans
  BY <1>6, SeqEqual
<1>11. r.codes = s.codes
  BY <1>7, <1>8, SeqEqual
<1> QED
  BY <1>9, <1>10, <1>11

\* One length, one place where the source decides no more.
LEMMA TailUnique ==
    ASSUME NEW Q, NEW length \in Int, NEW m \in Nat, NEW n \in Nat,
           TailAt(Q, length, m), TailAt(Q, length, n),
           Course(Q)[m].prev \in Int, Course(Q)[n].prev \in Int
    PROVE  m = n
<1>1. ASSUME m < n PROVE FALSE
  <2>1. m \in 0 .. n - 1
    BY <1>1
  <2> QED
    BY <2>1 DEF TailAt
<1>2. ASSUME n < m PROVE FALSE
  <2>1. n \in 0 .. m - 1
    BY <1>2
  <2> QED
    BY <2>1 DEF TailAt
<1> QED
  BY <1>1, <1>2

\* Of one source and one queue there is one answer.
LEMMA CompleteSame ==
    ASSUME NEW Q \in SUBSET Nat, NEW r, NEW s, Complete(Q, r), Complete(Q, s),
           r.total = s.total
    PROVE  /\ r.training = s.training /\ r.modes = s.modes /\ r.plans = s.plans
           /\ r.codes = s.codes /\ r.frames = s.frames
<1>1. r.modes = s.modes /\ r.plans = s.plans /\ r.codes = s.codes
  BY DecidedSame DEF Complete
<1>2. r.training = s.training
  <2>1. PICK m \in 0 .. Len(r.modes) :
          TailAt(Q, r.total, m) /\ r.training = TrainingAt(Q, r.total, m)
    BY DEF Complete, Trained
  <2>2. PICK n \in 0 .. Len(s.modes) :
          TailAt(Q, s.total, n) /\ s.training = TrainingAt(Q, s.total, n)
    BY DEF Complete, Trained
  <2>3. m \in Nat /\ n \in Nat /\ r.total \in Int
    BY DEF Complete
  <2>4. Course(Q)[m].prev \in Int /\ Course(Q)[n].prev \in Int
    <3> SUFFICES ASSUME NEW k \in Nat PROVE Course(Q)[k].prev \in Int
      BY <2>3
    <3>1. Course(Q)[k] \in Cursors
      BY CourseUnfolds
    <3>2. Course(Q)[k].prev \in Nat \cup {-1}
      BY <3>1, CursorFields
    <3> QED
      BY <3>2
  <2>5. m = n
    BY <2>1, <2>2, <2>3, <2>4, TailUnique
  <2> QED
    BY <2>1, <2>2, <2>5
<1>3. r.frames = s.frames
  <2>1. /\ r.frames \in Seq(FrameRecords) /\ s.frames \in Seq(FrameRecords)
        /\ Len(r.frames) = Len(s.frames)
        /\ \A k \in 1 .. Len(r.frames) : r.frames[k] = s.frames[k]
    BY <1>1, <1>2 DEF Complete, Framed
  <2> QED
    BY <2>1, SeqEqual
<1> QED
  BY <1>1, <1>2, <1>3


-----------------------------------------------------------------------------
(* The steps of the two streams. *)

\* The places of a call that has been finished.
Ending == {"drain", "tail"} \cup Late

\* What the steps of a call leave alone.
LEMMA RunStill ==
    ASSUME StreamInv, Run
    PROVE  /\ quanta' = quanta /\ queue' = queue /\ total' = total
           /\ pc' # "refused" /\ (pc' \in Ending => pc \in Ending)
           /\ training' = training \/ pc = "tail"
<1> USE DEF Ending, Late, sessionVars, selectorVars, feederVars
<1>1. CASE QuantaIngested
  BY <1>1 DEF QuantaIngested
<1>2. CASE EmitFrame
  BY <1>2 DEF EmitFrame
<1>3. CASE PumpPlan
  BY <1>3 DEF PumpPlan, EmitPlan
<1>4. CASE PumpScan
  BY <1>4 DEF PumpScan, ModeIteration, Decide, Undecided
<1>5. CASE PumpRests
  BY <1>5 DEF PumpRests
<1>6. CASE DrainPlan
  BY <1>6 DEF DrainPlan, EmitPlan
<1>7. CASE DrainScan
  BY <1>7 DEF DrainScan, ModeIteration, Decide, Undecided
<1>8. CASE ComputeTail
  BY <1>8 DEF ComputeTail
<1>9. CASE TailPlan
  BY <1>9 DEF TailPlan, EmitPlan
<1>10. CASE TailTerminal
  BY <1>10 DEF TailTerminal, EmitPlan
<1>11. CASE TailScan
  BY <1>11 DEF TailScan, ModeIteration, Decide, Undecided
<1>12. CASE Answer
  BY <1>12 DEF Answer
<1> QED
  BY <1>1, <1>2, <1>3, <1>4, <1>5, <1>6, <1>7, <1>8, <1>9, <1>10, <1>11, <1>12 DEF Run

\* A step of a stream.
StreamSteps ==
    \/ Run \/ Finish
    \/ \E n \in Nat : PushChunk(n)
    \/ \E flags \in FlagWords : IngestQuantum(flags)

\* It keeps what a stream is known to do.
LEMMA StreamStepKeeps ==
    ASSUME StreamInv, FramesFollow, StreamSteps
    PROVE  /\ StreamInv' /\ FramesFollow'
           /\ \A Q \in SUBSET Nat : StreamCourse(Q) => StreamCourse(Q)'
<1>1. StreamInv'
  BY RunKeeps, FinishKeeps, PushKeeps, QuantumKeeps DEF StreamSteps
<1>2. FramesFollow'
  BY <1>1, RunFrames, FeedFrames DEF StreamSteps
<1>3. \A Q \in SUBSET Nat : StreamCourse(Q) => StreamCourse(Q)'
  BY <1>1, RunFollows, FeedFollows DEF StreamSteps
<1> QED
  BY <1>1, <1>2, <1>3

\* The quanta of a stream over the same source are those of the first.
LEMMA HeardAll ==
    ASSUME StreamInv, total <= answer.total, AnswerInv, heard \in Seq(FlagWords)
    PROVE  /\ quanta \in Nat /\ Len(heard) \in Nat /\ quanta <= Len(heard)
           /\ answer.total \in Nat
<1>1. /\ total \in Nat /\ training \in Nat
  BY StreamIsSound
<1>2. quanta \in Nat /\ quanta = extracted
  BY DEF StreamInv, SelectorInv, Typed, SessionTypeOK
<1>3. quanta # 0 => quanta * Hop + Hop <= DetectorStream
  BY DEF StreamInv, SelectorInv
<1>4. LongHalf + answer.total + StreamTail < Len(heard) * Hop + 2 * Hop
      /\ answer.total \in Nat
  BY DEF AnswerInv, Complete
<1>5. LongHalf \in Nat
  BY Sizes
<1>6. StreamTail \in Nat /\ Hop \in Nat /\ 0 < Hop
  BY Bounds
<1>7. Len(heard) \in Nat
  BY LenProperties
<1>8. DetectorStream \in Nat /\ DetectorStream <= LongHalf + answer.total + StreamTail
  BY <1>1, <1>4, <1>5, <1>6 DEF DetectorStream
<1>9. CASE quanta # 0
  <2> DEFINE a == quanta * Hop
             b == Len(heard) * Hop
  <2>1. a \in Int /\ b \in Int
    BY <1>2, <1>6, <1>7
  <2>2. b + Hop = (Len(heard) + 1) * Hop
    BY <1>6, <1>7
  <2>3. a < b + Hop
    <3>1. a + Hop <= DetectorStream /\ LongHalf + answer.total + StreamTail < b + 2 * Hop
      BY <1>3, <1>4, <1>9
    <3> HIDE DEF a, b
    <3> QED
      BY <1>4, <1>5, <1>6, <1>8, <2>1, <3>1
  <2>4. ~((Len(heard) + 1) * Hop <= quanta * Hop)
    <3>1. ~(b + Hop <= a)
      <4> HIDE DEF a, b
      <4> QED
        BY <1>6, <2>1, <2>3
    <3> DEFINE c == (Len(heard) + 1) * Hop
    <3>2. b + Hop = c
      BY <2>2
    <3> HIDE DEF c
    <3>3. ~(c <= a)
      BY <3>1, <3>2
    <3> QED
      BY <3>3 DEF c
  <2>5. ~(Len(heard) + 1 <= quanta)
    BY <1>2, <1>6, <1>7, <2>4, TimesMonotone
  <2> QED
    BY <1>2, <1>4, <1>7, <2>5
<1>10. CASE quanta = 0
  BY <1>4, <1>7, <1>10
<1> QED
  BY <1>9, <1>10

\* So the first encode's queue is one to follow.
LEMMA FollowsKnown ==
    ASSUME StreamInv, AgainInv, AnswerInv, heard \in Seq(FlagWords),
           \A Q \in SUBSET Nat : StreamCourse(Q)
    PROVE  Known1 \in SUBSET Nat /\ Agrees(Known1) /\ StreamCourse(Known1)
<1>1. /\ quanta \in Nat /\ Len(heard) \in Nat /\ quanta <= Len(heard)
      /\ queue = QueueOf(heard, quanta)
  BY HeardAll DEF AgainInv
<1>2. Known1 \in SUBSET Nat /\ Agrees(Known1)
  <2> DEFINE n == Len(heard)
  <2>1. n \in Nat /\ quanta <= n
    BY <1>1
  <2> HIDE DEF n
  <2>2. QueueOf(heard, n) \in SUBSET Nat /\ Agrees(QueueOf(heard, n))
    BY <1>1, <2>1, QueueAgrees
  <2>3. Known1 = QueueOf(heard, n)
    BY DEF n, Known1
  <2> DEFINE K == Known1
  <2> HIDE DEF K
  <2>4. K = QueueOf(heard, n) /\ K = Known1
    BY <2>3 DEF K
  <2> QED
    BY <2>2, <2>4
<1> QED
  BY <1>2

\* A quantum of the first encode.
LEMMA HearKeeps ==
    ASSUME RepeatInv, NEW flags \in FlagWords, Hear(flags)
    PROVE  RepeatInv'
<1>1. /\ turn = "stream" /\ turn' = "stream" /\ IngestQuantum(flags)
      /\ heard' = Append(heard, flags)
  BY DEF Hear
<1>2. /\ StreamInv /\ FramesFollow /\ FirstInv /\ heard \in Seq(FlagWords)
      /\ \A Q \in SUBSET Nat : StreamCourse(Q)
  BY <1>1 DEF RepeatInv, IsTurn, CourseInv, StreamCourse
<1>3. /\ StreamInv' /\ FramesFollow' /\ \A Q \in SUBSET Nat : StreamCourse(Q)'
  BY <1>1, <1>2, StreamStepKeeps DEF StreamSteps
<1>4. quanta \in Nat /\ quanta = Len(heard) /\ queue = QueueOf(heard, quanta)
  BY <1>2 DEF FirstInv, StreamInv, Typed, SessionTypeOK
<1>5. Ingest(flags)
  <2>1. quanta = extracted /\ quanta' = extracted'
    BY <1>2, <1>3 DEF StreamInv, SelectorInv
  <2>2. quanta' # quanta
    BY <1>1, <1>4, <2>1 DEF IngestQuantum
  <2> QED
    BY <1>1, <2>2 DEF IngestQuantum, sessionVars, selectorVars
<1> DEFINE words == Append(heard, flags)
<1>6. /\ words \in Seq(FlagWords) /\ Len(words) = quanta + 1
      /\ words[quanta + 1] = flags
      /\ \A k \in 1 .. quanta : words[k] = heard[k]
  BY <1>2, <1>4, AppendProperties
<1> HIDE DEF words
<1>7. queue' = QueueOf(words, quanta')
  BY <1>4, <1>5, <1>6, QueueHears
<1>8. heard' = words /\ quanta' = quanta + 1
  BY <1>1, <1>5 DEF words, Ingest
<1>9. FirstInv'
  BY <1>6, <1>7, <1>8 DEF FirstInv
<1> QED
  BY <1>1, <1>3, <1>6, <1>8, <1>9 DEF RepeatInv, IsTurn, CourseInv, StreamCourse

\* Another step of it.
LEMMA StreamStepFollows ==
    ASSUME RepeatInv, StreamStep
    PROVE  RepeatInv'
<1>1. /\ turn = "stream" /\ turn' = "stream" /\ heard' = heard
      /\ Run \/ Finish \/ \E n \in Chunks : PushChunk(n)
  BY DEF StreamStep, turnVars
<1>2. /\ StreamInv /\ FramesFollow /\ FirstInv /\ heard \in Seq(FlagWords)
      /\ \A Q \in SUBSET Nat : StreamCourse(Q)
  BY <1>1 DEF RepeatInv, IsTurn, CourseInv, StreamCourse
<1>3. /\ StreamInv' /\ FramesFollow' /\ \A Q \in SUBSET Nat : StreamCourse(Q)'
  <2>1. StreamSteps
    BY <1>1, StreamAssumption DEF StreamSteps
  <2> QED
    BY <1>2, <2>1, StreamStepKeeps
<1>4. quanta' = quanta /\ queue' = queue
  BY <1>1, <1>2, RunStill DEF Finish, PushChunk, sessionVars, selectorVars
<1>5. FirstInv'
  BY <1>1, <1>2, <1>4 DEF FirstInv
<1> QED
  BY <1>1, <1>2, <1>3, <1>5 DEF RepeatInv, IsTurn, CourseInv, StreamCourse


\* What the second stream hears of a quantum is what the first did.
LEMMA HeardTheSame ==
    ASSUME StreamInv, AgainInv, AnswerInv, heard \in Seq(FlagWords),
           NEW flags, IngestQuantum(flags), Answers(flags)
    PROVE  flags = heard[quanta + 1]
<1>1. QuantumComplete /\ quanta = extracted /\ (training # NoTail => training = answer.training)
  BY DEF IngestQuantum, AgainInv, StreamInv, SelectorInv
<1>2. /\ total \in Nat /\ quanta \in Nat
  BY StreamIsSound DEF StreamInv, Typed, SessionTypeOK
<1>3. Hop \in Nat /\ 0 < Hop
  BY Bounds
<1>4. LongHalf \in Nat
  BY Sizes
<1>5. CASE training # NoTail
  BY <1>1, <1>5 DEF Answers
<1>6. CASE training = NoTail
  <2>1. quanta * Hop + Window <= DetectorStream
    BY <1>1 DEF QuantumComplete
  <2>2. DetectorStream <= LongHalf + total /\ DetectorStream \in Int
    BY <1>2, <1>4, <1>6 DEF DetectorStream
  <2>3. quanta * Hop + Window \in Int
    BY <1>2, <1>3 DEF Window
  <2>4. ~(quanta * Hop + Window > LongHalf + total)
    <3> DEFINE a == quanta * Hop + Window
    <3>1. a <= DetectorStream /\ a \in Int
      BY <2>1, <2>3
    <3> HIDE DEF a
    <3>2. ~(a > LongHalf + total)
      BY <1>2, <1>4, <2>2, <3>1
    <3> QED
      BY <3>2 DEF a
  <2> QED
    BY <2>4 DEF Answers
<1> QED
  BY <1>5, <1>6

\* What turn the second stream is at.
LEMMA AgainState ==
    ASSUME RepeatInv, turn = "again"
    PROVE  /\ StreamInv /\ FramesFollow /\ AgainInv /\ AnswerInv
           /\ heard \in Seq(FlagWords)
           /\ \A Q \in SUBSET Nat : StreamCourse(Q)
           /\ answer.total \in Nat /\ MinFrames <= answer.total
  BY DEF RepeatInv, IsTurn, CourseInv, StreamCourse, AnswerInv, Complete

\* A quantum of the second stream.
LEMMA HearAgainKeeps ==
    ASSUME RepeatInv, NEW flags \in FlagWords, HearAgain(flags)
    PROVE  RepeatInv'
<1>1. /\ turn = "again" /\ turn' = "again" /\ IngestQuantum(flags) /\ Answers(flags)
      /\ heard' = heard /\ answer' = answer
  BY DEF HearAgain, turnVars
<1>2. /\ StreamInv /\ FramesFollow /\ AgainInv /\ AnswerInv
      /\ heard \in Seq(FlagWords)
      /\ \A Q \in SUBSET Nat : StreamCourse(Q)
  BY <1>1, AgainState
<1>3. /\ StreamInv' /\ FramesFollow' /\ \A Q \in SUBSET Nat : StreamCourse(Q)'
  BY <1>1, <1>2, StreamStepKeeps DEF StreamSteps
<1>4. quanta \in Nat /\ queue = QueueOf(heard, quanta)
  BY <1>2 DEF AgainInv, StreamInv, Typed, SessionTypeOK
<1>5. Ingest(flags)
  <2>1. quanta = extracted /\ quanta' = extracted'
    BY <1>2, <1>3 DEF StreamInv, SelectorInv
  <2>2. quanta' # quanta
    BY <1>1, <1>4, <2>1 DEF IngestQuantum
  <2> QED
    BY <1>1, <2>2 DEF IngestQuantum, sessionVars, selectorVars
<1>6. heard[quanta + 1] = flags
  BY <1>1, <1>2, HeardTheSame
<1>7. queue' = QueueOf(heard, quanta')
  BY <1>4, <1>5, <1>6, QueueHears
<1>8. UNCHANGED <<pc, total, training>>
  BY <1>1 DEF IngestQuantum
<1>9. AgainInv'
  BY <1>1, <1>2, <1>7, <1>8 DEF AgainInv
<1>10. AnswerInv'
  BY <1>1, <1>2 DEF AnswerInv, Known1
<1> QED
  BY <1>1, <1>2, <1>3, <1>9, <1>10 DEF RepeatInv, IsTurn, CourseInv, StreamCourse

\* The place a conversion trains its predictor at is that of the queue it hears.
LEMMA TrainedTheSame ==
    ASSUME NEW Q \in SUBSET Nat, NEW r, Complete(Q, r), NEW n \in Nat, NEW window,
           \E m \in 0 .. n : TailAt(Q, r.total, m) /\ window = TrainingAt(Q, r.total, m)
    PROVE  window = r.training
<1>1. PICK m \in 0 .. n : TailAt(Q, r.total, m) /\ window = TrainingAt(Q, r.total, m)
  OBVIOUS
<1>2. PICK k \in 0 .. Len(r.modes) :
        TailAt(Q, r.total, k) /\ r.training = TrainingAt(Q, r.total, k)
  BY DEF Complete, Trained
<1>3. m \in Nat /\ k \in Nat /\ r.total \in Int
  BY DEF Complete
<1>4. Course(Q)[m].prev \in Int /\ Course(Q)[k].prev \in Int
  <2> SUFFICES ASSUME NEW j \in Nat PROVE Course(Q)[j].prev \in Int
    BY <1>3
  <2>1. Course(Q)[j] \in Cursors
    BY CourseUnfolds
  <2>2. Course(Q)[j].prev \in Nat \cup {-1}
    BY <2>1, CursorFields
  <2> QED
    BY <2>2
<1>5. m = k
  BY <1>1, <1>2, <1>3, <1>4, TailUnique
<1> QED
  BY <1>1, <1>2, <1>5

\* Another step of the second stream.
LEMMA AgainStepKeeps ==
    ASSUME RepeatInv, AgainStep
    PROVE  RepeatInv'
<1>1. /\ turn = "again" /\ turn' = "again" /\ heard' = heard /\ answer' = answer
      /\ \/ Run
         \/ total = answer.total /\ Finish
         \/ \E n \in Chunks \cup {answer.total} :
               total + n <= answer.total /\ PushChunk(n)
  BY DEF AgainStep, turnVars
<1>2. /\ StreamInv /\ FramesFollow /\ AgainInv /\ AnswerInv
      /\ heard \in Seq(FlagWords)
      /\ \A Q \in SUBSET Nat : StreamCourse(Q)
      /\ answer.total \in Nat /\ MinFrames <= answer.total
  BY <1>1, AgainState
<1>3. /\ StreamInv' /\ FramesFollow' /\ \A Q \in SUBSET Nat : StreamCourse(Q)'
  <2>1. StreamSteps
    BY <1>1, <1>2, StreamAssumption DEF StreamSteps
  <2> QED
    BY <1>2, <2>1, StreamStepKeeps
<1>4. quanta' = quanta /\ queue' = queue
  BY <1>1, <1>2, RunStill DEF Finish, PushChunk, sessionVars, selectorVars
<1>5. AnswerInv'
  BY <1>1, <1>2 DEF AnswerInv, Known1
<1>6. total' <= answer.total /\ pc' # "refused"
      /\ (pc' \in Ending => total' = answer.total)
  <2>1. CASE Run
    BY <1>2, <2>1, RunStill DEF AgainInv, Ending, Late
  <2>2. CASE total = answer.total /\ Finish
    <3>1. MinFrames \in Nat
      BY Bounds
    <3>2. ~(total < MinFrames)
      BY <1>2, <2>2, <3>1
    <3>3. pc' = "drain" /\ total' = total
      BY <2>2, <3>2 DEF Finish, feederVars
    <3> QED
      BY <1>2, <2>2, <3>3
  <2>3. ASSUME NEW n, total + n <= answer.total, PushChunk(n)
        PROVE  total' <= answer.total /\ pc' = "ingest"
    BY <2>3 DEF PushChunk
  <2> QED
    BY <1>1, <2>1, <2>2, <2>3 DEF Ending, Late
<1>7. training' # NoTail => training' = answer.training
  <2>1. CASE training' = training
    BY <1>2, <2>1 DEF AgainInv
  <2>2. CASE training' # training
    <3>1. Run /\ pc = "tail"
      BY <1>1, <1>2, <2>2, RunStill DEF Finish, PushChunk, feederVars
    <3>2. ComputeTail
      BY <3>1 DEF Run, QuantaIngested, EmitFrame, PumpPlan, PumpScan, PumpRests,
                  DrainPlan, DrainScan, TailPlan, TailTerminal, TailScan, Answer
    <3>3. pc' = "tailIngest" /\ total' = total /\ total = answer.total
          /\ modes' = modes
      BY <1>2, <2>2, <3>1, <3>2 DEF ComputeTail, AgainInv, planVars
    <3>4. AgainInv /\ quanta' = quanta
      BY <1>2, <1>4
    <3>5. /\ Known1 \in SUBSET Nat /\ Agrees(Known1)
      BY <1>2, FollowsKnown
    <3>6. Agrees(Known1)'
      BY <1>1, <1>4, <3>5 DEF Agrees, Known1
    <3> DEFINE K == Known1
    <3>7. K \in SUBSET Nat /\ K' = K /\ Complete(K, answer) /\ Agrees(K)'
      BY <1>1, <1>2, <3>5, <3>6 DEF Known1, AnswerInv
    <3>8. PICK Q \in SUBSET Nat : Q = K
      BY <3>7
    <3>9. Agrees(Q)'
      BY <1>4, <3>5, <3>8 DEF Agrees
    <3>10. TailFollows(Q)'
      BY <1>3, <3>9 DEF StreamCourse
    <3>11. Len(modes) \in Nat
      BY <1>2, StreamIsSound
    <3>12. \E m \in 0 .. Len(modes) :
              TailAt(Q, answer.total, m) /\ training' = TrainingAt(Q, answer.total, m)
      BY <3>3, <3>10 DEF TailFollows
    <3>13. Complete(Q, answer)
      BY <3>7, <3>8
    <3> QED
      BY <3>11, <3>12, <3>13, TrainedTheSame
  <2> QED
    BY <2>1, <2>2
<1>8. AgainInv'
  BY <1>1, <1>2, <1>4, <1>6, <1>7 DEF AgainInv, Ending, Late
<1> QED
  BY <1>1, <1>2, <1>3, <1>5, <1>8 DEF RepeatInv, IsTurn, CourseInv, StreamCourse

\* What the second stream answers.
LEMMA AgainAnswers ==
    ASSUME RepeatInv
    PROVE  ChunkingNeverMatters
<1> SUFFICES ASSUME turn = "again", pc \in {"done", "refused", "failed"}
             PROVE  pc = "done" /\ frames = answer.frames
  BY DEF ChunkingNeverMatters
<1>1. /\ StreamInv /\ FramesFollow /\ AgainInv /\ AnswerInv
      /\ heard \in Seq(FlagWords)
      /\ \A Q \in SUBSET Nat : StreamCourse(Q)
  BY AgainState
<1>2. pc = "done"
  BY <1>1, StreamIsSound DEF AgainInv
<1>3. Known1 \in SUBSET Nat /\ Agrees(Known1) /\ Complete(Known1, answer)
  BY <1>1, FollowsKnown DEF AnswerInv
<1>4. PICK Q \in SUBSET Nat : Q = Known1
  BY <1>3
<1>5. Agrees(Q) /\ Complete(Q, answer) /\ StreamCourse(Q)
  BY <1>1, <1>3, <1>4
<1>6. Complete(Q, Result)
  BY <1>1, <1>2, <1>5, DoneComplete
<1>7. Result.total = answer.total
  BY <1>1, <1>2 DEF Result, AgainInv
<1> DEFINE r == Result
           s == answer
<1>8. r.frames = frames
  BY DEF Result
<1>9. Complete(Q, r) /\ Complete(Q, s) /\ r.total = s.total
  BY <1>5, <1>6, <1>7
<1> HIDE DEF r, s
<1>10. r.frames = s.frames
  BY <1>9, CompleteSame
<1> QED
  BY <1>2, <1>8, <1>10 DEF s


-----------------------------------------------------------------------------
(* Where each encode begins. *)

\* A session that has heard nothing is sound, and at the start of every course.
LEMMA FreshSession ==
    SessionInit /\ modes = <<>> =>
        SessionSound /\ \A Q \in SUBSET Nat : Follows(Q)
<1> SUFFICES ASSUME SessionInit, modes = <<>>
             PROVE  SessionSound /\ \A Q \in SUBSET Nat : Follows(Q)
  OBVIOUS
<1>1. /\ quanta = 0 /\ queue = {} /\ selected = 0 /\ scanCursor = LongHalf
      /\ nextCenter = 0 /\ previousCenter = -1
      /\ previousMode = 0 /\ currentMode = 0 /\ codes = <<>>
  BY DEF SessionInit
<1>2. /\ Quarter(0) \in Nat /\ Quarter(1) \in Nat /\ 0 < Quarter(0)
      /\ LongHalf = 2 * Quarter(1)
  BY Sizes
<1>3. Hop \in Nat /\ 0 < Hop
  BY Bounds
<1>4. Len(modes) = 0 /\ Len(codes) = 0 /\ modes \in Seq(Modes)
  BY <1>1
<1>5. SessionTypeOK
  BY <1>1, <1>2 DEF SessionTypeOK, Modes
<1>6. scanCursor % Hop = 0 /\ nextCenter % Hop = 0
  BY <1>1, <1>3, HopAssumption
<1>7. scanCursor < Boundary
  <2>1. Boundary = nextCenter + Quarter(currentMode) + 4 * Quarter(1) + Quarter(0)
    BY <1>5, BoundaryValue
  <2> QED
    BY <1>1, <1>2, <2>1
<1>8. SessionSound
  BY <1>4, <1>5, <1>6, <1>7 DEF SessionSound
<1>9. ASSUME NEW Q \in SUBSET Nat PROVE Follows(Q)
  <2>1. At(Q) = FirstCursor
    BY <1>4, CourseUnfolds DEF At
  <2>2. \A p \in Transients(Q, FirstCursor) : scanCursor <= p
    BY <1>1 DEF Transients, FirstCursor
  <2>3. At(Q).scan <= scanCursor
    BY <1>1, <1>2, <2>1 DEF FirstCursor
  <2>4. /\ nextCenter = At(Q).next /\ previousCenter = At(Q).prev
        /\ previousMode = At(Q).before /\ currentMode = At(Q).mode
        /\ selected = At(Q).found
    BY <1>1, <2>1 DEF FirstCursor
  <2> QED
    BY <1>4, <2>1, <2>2, <2>3, <2>4 DEF Follows
<1> QED
  BY <1>8, <1>9

\* A stream begins with the invariant.
LEMMA FreshStream == Init => StreamInv
  BY InitHolds

\* So does the one of the next encode.
LEMMA NextSession ==
    (SessionInit /\ modes = <<>>)' =>
        (SessionSound /\ \A Q \in SUBSET Nat : Follows(Q))'
  BY FreshSession, PTL

LEMMA NextStream == Init' => StreamInv'
  BY FreshStream, PTL

\* Of no quanta, no slots.
LEMMA NothingHeard == ASSUME NEW words PROVE QueueOf(words, 0) = {}
  BY DEF QueueOf

\* The first encode begins with the invariant.
LEMMA RepeatStarts == RepeatInit => RepeatInv
<1> SUFFICES ASSUME RepeatInit PROVE RepeatInv
  OBVIOUS
<1>1. Init /\ turn = "stream" /\ heard = <<>>
  BY DEF RepeatInit
<1>2. /\ SessionInit /\ modes = <<>> /\ plans = <<>> /\ frames = <<>> /\ pc = "idle"
      /\ quanta = 0 /\ queue = {} /\ codes = <<>>
  BY <1>1 DEF Init, SessionInit
<1>3. StreamInv
  BY <1>1, FreshStream
<1>4. FramesFollow
  BY <1>2 DEF FramesFollow
<1>5. FirstInv
  BY <1>1, <1>2, NothingHeard DEF FirstInv
<1>6. heard \in Seq(FlagWords)
  BY <1>1
<1>7. ASSUME NEW Q \in SUBSET Nat PROVE CourseInv(Q)
  <2>1. Follows(Q)
    BY <1>2, FreshSession
  <2>2. Recorded(Q) /\ TailFollows(Q)
    BY <1>2 DEF Recorded, TailFollows
  <2> QED
    BY <1>1, <2>1, <2>2 DEF CourseInv
<1> QED
  BY <1>1, <1>3, <1>4, <1>5, <1>6, <1>7 DEF RepeatInv, IsTurn

\* The answer of the first encode is the one its whole queue has.
LEMMA FirstAnswers ==
    ASSUME StreamInv, FramesFollow, FirstInv, pc = "done", heard \in Seq(FlagWords),
           \A Q \in SUBSET Nat : StreamCourse(Q)
    PROVE  /\ Complete(Known1, Result)
           /\ LongHalf + total + StreamTail < Len(heard) * Hop + 2 * Hop
<1>1. /\ quanta \in Nat /\ quanta = Len(heard) /\ queue = QueueOf(heard, quanta)
      /\ queue \in SUBSET Nat
  BY DEF FirstInv, StreamInv, Typed, SessionTypeOK
<1>2. queue = Known1
  BY <1>1 DEF Known1
<1>3. PICK Q \in SUBSET Nat : Q = queue
  BY <1>1
<1>4. Agrees(Q)
  BY <1>3 DEF Agrees
<1>5. Complete(Q, Result)
  BY <1>4, DoneComplete
<1>6. ~QuantumComplete /\ training # NoTail /\ Primed /\ quanta = extracted
  BY DEF StreamInv, CallInv, SelectorInv
<1>7. ~(quanta * Hop + 2 * Hop <= LongHalf + total + StreamTail)
  BY <1>6 DEF QuantumComplete, Window, DetectorStream
<1>8. /\ total \in Nat /\ Hop \in Nat /\ StreamTail \in Nat
  BY StreamIsSound, Bounds
<1>9. LongHalf \in Nat
  BY Sizes
<1>10. quanta * Hop \in Int
  BY <1>1, <1>8
<1>11. LongHalf + total + StreamTail < quanta * Hop + 2 * Hop
  BY <1>7, <1>8, <1>9, <1>10
<1> QED
  BY <1>1, <1>2, <1>3, <1>5, <1>11

\* The next encode begins with the invariant.
LEMMA RepeatKeeps ==
    ASSUME RepeatInv, Repeat
    PROVE  RepeatInv'
<1>1. /\ turn = "stream" /\ pc = "done" /\ answer' = Result
      /\ Afresh /\ heard' = heard
      /\ \/ turn' = "again" /\ training' = NoTail
         \/ turn' = "batch" /\ training' = Long
  BY DEF Repeat, Result
<1>2. /\ StreamInv /\ FramesFollow /\ FirstInv /\ heard \in Seq(FlagWords)
      /\ \A Q \in SUBSET Nat : StreamCourse(Q)
  BY <1>1 DEF RepeatInv, IsTurn, CourseInv, StreamCourse
<1>3. /\ Complete(Known1, Result)
      /\ LongHalf + total + StreamTail < Len(heard) * Hop + 2 * Hop
  BY <1>1, <1>2, FirstAnswers
<1>4. AnswerInv'
  BY <1>1, <1>3 DEF AnswerInv, Known1, Result
<1>5. answer'.total \in Nat
  BY <1>4 DEF AnswerInv, Complete
<1>6. /\ modes' = <<>> /\ plans' = <<>> /\ frames' = <<>> /\ codes' = <<>>
      /\ pc' = "idle" /\ quanta' = 0 /\ queue' = {} /\ total' = 0
  BY <1>1 DEF Afresh
<1>7. SessionInit'
  BY <1>1 DEF SessionInit, Afresh
<1>8. SessionSound' /\ \A Q \in SUBSET Nat : Follows(Q)'
  BY <1>6, <1>7, NextSession
<1>9. queue' = QueueOf(heard', quanta')
  BY <1>6, NothingHeard
<1>10. FramesFollow'
  BY <1>6 DEF FramesFollow
<1>11. ASSUME NEW Q \in SUBSET Nat PROVE CourseInv(Q)'
  <2>1. Follows(Q)'
    BY <1>8
  <2>2. Recorded(Q)' /\ TailFollows(Q)' /\ PlannerFollows(Q)'
    BY <1>6 DEF Recorded, TailFollows, PlannerFollows
  <2> QED
    BY <2>1, <2>2 DEF CourseInv
<1>12. CASE turn' = "again" /\ training' = NoTail
  <2>1. Init'
    BY <1>1, <1>7, <1>12 DEF Init, Afresh
  <2>2. StreamInv'
    BY <2>1, NextStream
  <2>3. AgainInv'
    BY <1>5, <1>6, <1>9, <1>12 DEF AgainInv
  <2> QED
    BY <1>1, <1>2, <1>4, <1>10, <1>11, <1>12, <2>2, <2>3 DEF RepeatInv, IsTurn
<1>13. CASE turn' = "batch" /\ training' = Long
  <2>1. Reached' <= LongHalf + answer'.total
    <3>1. Hop \in Nat /\ Hop <= 2 * Quarter(1) /\ LongHalf = 2 * Quarter(1)
          /\ Quarter(1) \in Nat
      BY Bounds, Sizes
    <3>2. Reached' = Hop
      BY <1>6, <3>1 DEF Reached
    <3> QED
      BY <1>5, <3>1, <3>2
  <2>2. Long \in Int
    BY BlockSizesAssumption
  <2>3. BatchInv'
    BY <1>6, <1>8, <1>13, <2>1, <2>2 DEF BatchInv, SourceTurn
  <2> QED
    BY <1>1, <1>2, <1>4, <1>9, <1>11, <1>13, <2>3 DEF RepeatInv, IsTurn
<1> QED
  BY <1>1, <1>12, <1>13


-----------------------------------------------------------------------------
(* encode_pcm runs the selector and the mode loop of a stream. *)

\* The parts of the session it has are those of a stream's.
LEMMA BatchScans ==
    /\ Batch!LongHalf = LongHalf /\ Batch!Limit = Limit /\ Batch!Center = Center
    /\ Batch!Boundary = Boundary /\ Batch!Hits = Hits /\ Batch!Status = Status
    /\ Batch!ScanEnd = ScanEnd /\ Batch!Found = Found
    /\ \A mode : Batch!BlockSize(mode) = BlockSize(mode)
    /\ \A following : Batch!TransitionCode(following) = TransitionCode(following)
<1>1. \A mode : Batch!BlockSize(mode) = BlockSize(mode)
  BY DEF Batch!BlockSize, BlockSize
<1>2. Batch!LongHalf = LongHalf
  BY DEF Batch!LongHalf, LongHalf
<1>3. Batch!Limit = Limit
  BY DEF Batch!Limit, Limit, Batch!Generated, Generated
<1>4. Batch!Center = Center
  BY <1>2 DEF Batch!Center, Center
<1>5. Batch!Boundary = Boundary
  BY <1>1, <1>2, <1>4 DEF Batch!Boundary, Boundary
<1>6. Batch!Positions = Positions
  BY <1>3 DEF Batch!Positions, Positions
<1>7. Batch!Visited = Visited
  BY <1>5, <1>6 DEF Batch!Visited, Visited
<1>8. Batch!Hits = Hits
  BY <1>4, <1>7 DEF Batch!Hits, Hits
<1>9. Batch!Status = Status
  BY <1>6, <1>7, <1>8 DEF Batch!Status, Status
<1>10. \A S : Batch!Min(S) = Min(S) /\ Batch!Max(S) = Max(S)
  BY DEF Batch!Min, Min, Batch!Max, Max
<1>11. Batch!Found = Found
  BY <1>8, <1>10 DEF Batch!Found, Found
<1>12. Batch!ScanEnd = ScanEnd
  BY <1>7, <1>8, <1>10 DEF Batch!ScanEnd, ScanEnd
<1>13. Batch!TransientInWindow <=> TransientInWindow
  BY <1>4, <1>11 DEF Batch!TransientInWindow, TransientInWindow
<1>14. \A following : Batch!TransitionCode(following) = TransitionCode(following)
  BY <1>13 DEF Batch!TransitionCode, TransitionCode
<1> QED
  BY <1>1, <1>2, <1>3, <1>4, <1>5, <1>8, <1>9, <1>11, <1>12, <1>14

\* So are its steps.
LEMMA BatchSteps ==
    /\ \A flags : Batch!Ingest(flags) <=> Ingest(flags)
    /\ \A eos \in BOOLEAN : Batch!Decide(eos) <=> Decide(eos)
    /\ Batch!Undecided <=> Undecided
    /\ \A length : Batch!HasSourceFrame(length) <=> HasSourceFrame(length)
    /\ \A before, mode : Batch!FinalizedCodes(before, mode) = FinalizedCodes(before, mode)
    /\ (UNCHANGED Batch!sessionVars) <=> (UNCHANGED sessionVars)
<1>1. \A flags : Batch!Ingest(flags) <=> Ingest(flags)
  BY DEF Batch!Ingest, Ingest, Batch!Slots, Slots, Batch!cursorVars, cursorVars
<1>2. \A eos \in BOOLEAN : Batch!Decide(eos) <=> Decide(eos)
  BY BatchScans DEF Batch!Decide, Decide
<1>3. Batch!Undecided <=> Undecided
  BY BatchScans DEF Batch!Undecided, Undecided, Batch!cursorVars, cursorVars
<1>4. \A length : Batch!HasSourceFrame(length) <=> HasSourceFrame(length)
  BY DEF Batch!HasSourceFrame, HasSourceFrame
<1>5. \A before, mode : Batch!FinalizedCodes(before, mode) = FinalizedCodes(before, mode)
  BY DEF Batch!FinalizedCodes, FinalizedCodes
<1>6. (UNCHANGED Batch!sessionVars) <=> (UNCHANGED sessionVars)
  BY DEF Batch!sessionVars, sessionVars, Batch!selectorVars, selectorVars,
         Batch!cursorVars, cursorVars
<1> QED
  BY <1>1, <1>2, <1>3, <1>4, <1>5, <1>6


\* What a decision leaves of the session.
LEMMA DecideSound ==
    ASSUME SessionSound, NEW eos \in BOOLEAN, Decide(eos),
           modes' = Append(modes, currentMode)
    PROVE  SessionSound' /\ quanta' = quanta /\ queue' = queue
<1>1. /\ SessionTypeOK /\ scanCursor % Hop = 0 /\ nextCenter % Hop = 0
      /\ scanCursor < Boundary /\ modes \in Seq(Modes) /\ Len(codes) = Len(modes)
      /\ currentMode \in Modes
  BY DEF SessionSound, SessionTypeOK
<1>2. /\ SessionTypeOK' /\ quanta' = quanta /\ queue' = queue
      /\ Len(codes') = Len(codes) + 1
      /\ scanCursor' % Hop = 0 /\ nextCenter' % Hop = 0
      /\ scanCursor' < Boundary'
  BY <1>1, DecisionMade
<1>3. modes' \in Seq(Modes) /\ Len(modes') = Len(modes) + 1
  BY <1>1, Appended
<1> QED
  BY <1>1, <1>2, <1>3 DEF SessionSound

\* What an undecided scan does.
LEMMA UndecidedSound ==
    ASSUME SessionSound, Undecided, modes' = modes
    PROVE  SessionSound' /\ quanta' = quanta /\ queue' = queue
<1>1. /\ SessionTypeOK /\ scanCursor % Hop = 0 /\ scanCursor < Boundary
  BY DEF SessionSound
<1>2. ScanEnd \in Nat /\ ScanEnd % Hop = 0 /\ ScanEnd < Boundary
  BY <1>1, ScanEnds
<1>3. /\ quanta' = quanta /\ queue' = queue /\ selected' = selected
      /\ nextCenter' = nextCenter /\ previousCenter' = previousCenter
      /\ previousMode' = previousMode /\ currentMode' = currentMode
      /\ codes' = codes /\ scanCursor' = ScanEnd
  BY DEF Undecided, cursorVars
<1>4. Boundary' = Boundary
  BY <1>3 DEF Boundary, Center
<1>5. SessionTypeOK'
  BY <1>2, <1>3 DEF SessionSound, SessionTypeOK
<1> QED
  BY <1>2, <1>3, <1>4, <1>5 DEF SessionSound

\* What a quantum does.
LEMMA IngestSound ==
    ASSUME SessionSound, NEW flags, Ingest(flags), modes' = modes
    PROVE  SessionSound' /\ quanta' = quanta + 1 /\ quanta' \in Nat /\ codes' = codes
<1>1. /\ quanta' = quanta + 1 /\ quanta \in Nat /\ queue \in SUBSET Nat
      /\ queue' = (queue \ {quanta + 2}) \cup Slots(quanta, flags)
      /\ UNCHANGED <<selected, scanCursor, cursorVars, codes>>
  BY DEF Ingest, SessionSound, SessionTypeOK
<1>2. queue' \in SUBSET Nat
  BY <1>1, SlotsNear
<1>3. Boundary' = Boundary
  BY <1>1 DEF Boundary, Center, cursorVars
<1>4. SessionTypeOK'
  BY <1>1, <1>2 DEF SessionSound, SessionTypeOK, cursorVars
<1> QED
  BY <1>1, <1>3, <1>4 DEF SessionSound, cursorVars

\* encode_pcm follows the course of what it hears.
BatchCourse(Q) == Agrees(Q) => Follows(Q) /\ Recorded(Q) /\ PlannerFollows(Q)

LEMMA BatchState ==
    ASSUME RepeatInv, turn = "batch"
    PROVE  /\ BatchInv /\ AnswerInv /\ heard \in Seq(FlagWords)
           /\ SourceTurn \/ training = answer.training => queue = QueueOf(heard, quanta)
           /\ \A Q \in SUBSET Nat : BatchCourse(Q)
           /\ answer.total \in Nat /\ MinFrames <= answer.total
           /\ total \in Nat /\ quanta \in Nat /\ queue \in SUBSET Nat
           /\ Reached \in Int
<1>1. /\ BatchInv /\ AnswerInv /\ heard \in Seq(FlagWords)
      /\ SourceTurn \/ training = answer.training => queue = QueueOf(heard, quanta)
      /\ \A Q \in SUBSET Nat : BatchCourse(Q)
  BY DEF RepeatInv, IsTurn, CourseInv, BatchCourse
<1>2. answer.total \in Nat /\ MinFrames <= answer.total
  BY <1>1 DEF AnswerInv, Complete
<1>3. total \in Nat
  BY <1>1, <1>2 DEF BatchInv
<1>4. quanta \in Nat /\ queue \in SUBSET Nat
  BY <1>1 DEF BatchInv, SessionSound, SessionTypeOK
<1>5. Reached \in Int
  <2>1. Hop \in Nat
    BY Bounds
  <2> QED
    BY <1>4, <2>1 DEF Reached
<1> QED
  BY <1>1, <1>2, <1>3, <1>4, <1>5

LEMMA BatchNext ==
    ASSUME RepeatInv, turn = "batch", UNCHANGED turnVars, BatchInv',
           SourceTurn' \/ training' = answer.training => queue' = QueueOf(heard, quanta'),
           \A Q \in SUBSET Nat : BatchCourse(Q)'
    PROVE  RepeatInv'
<1>1. AnswerInv /\ heard \in Seq(FlagWords)
  BY BatchState
<1>2. turn' = "batch" /\ heard' = heard /\ answer' = answer
  BY DEF turnVars
<1>3. AnswerInv'
  BY <1>1, <1>2 DEF AnswerInv, Known1
<1> QED
  BY <1>1, <1>2, <1>3 DEF RepeatInv, IsTurn, CourseInv, BatchCourse

\* A step of encode_pcm that decides and plans nothing.
LEMMA BatchQuiet ==
    ASSUME RepeatInv, turn = "batch", UNCHANGED <<sessionVars, modes, plans>>,
           total' \in Int, total <= total',
           pc' # "failed" => pc # "failed" /\ (Settled' <=> Settled),
           pc' # "plan"
    PROVE  /\ \A Q \in SUBSET Nat : BatchCourse(Q)'
           /\ SessionSound' /\ Reached' = Reached
           /\ quanta' = quanta /\ queue' = queue
           /\ previousCenter' = previousCenter /\ nextCenter' = nextCenter
           /\ codes' = codes
<1>1. /\ SessionSound /\ modes \in Seq(Modes) /\ total \in Int
      /\ UNCHANGED <<sessionVars, modes>> /\ total' \in Int /\ total <= total'
  BY BatchState DEF BatchInv, SessionSound
<1>2. /\ codes' = codes /\ quanta' = quanta /\ queue' = queue
      /\ previousCenter' = previousCenter /\ nextCenter' = nextCenter
      /\ plans' = plans /\ modes' = modes
  BY DEF sessionVars, selectorVars, cursorVars
<1>3. ASSUME NEW Q \in SUBSET Nat PROVE BatchCourse(Q)'
  <2>1. (Agrees(Q)' <=> Agrees(Q)) /\ (Follows(Q) => Follows(Q)')
    BY <1>1, StillFollows
  <2>2. Recorded(Q) => Recorded(Q)'
    BY <1>2 DEF Recorded
  <2>3. PlannerFollows(Q)'
    BY DEF PlannerFollows
  <2> QED
    BY <2>1, <2>2, <2>3, BatchState DEF BatchCourse
<1>4. SessionSound' /\ Reached' = Reached
  <2>1. PICK Q \in SUBSET Nat : TRUE
    OBVIOUS
  <2>2. SessionSound' = SessionSound
    BY <1>1, <2>1, StillFollows
  <2> QED
    BY <1>1, <1>2, <2>2 DEF Reached
<1> QED
  BY <1>2, <1>3, <1>4

LEMMA HalfNat == LongHalf \in Nat
<1>1. LongHalf = 2 * Quarter(1) /\ Quarter(1) \in Nat
  BY Sizes
<1> QED
  BY <1>1

\* The queue of encode_pcm, where it hears what the stream did, is one to follow.
LEMMA BatchKnown ==
    ASSUME quanta \in Nat, AnswerInv, heard \in Seq(FlagWords),
           Reached <= LongHalf + answer.total + BatchTail,
           queue = QueueOf(heard, quanta)
    PROVE  Known1 \in SUBSET Nat /\ Agrees(Known1)
<1>1. LongHalf + answer.total + StreamTail < Len(heard) * Hop + 2 * Hop
      /\ answer.total \in Nat
  BY DEF AnswerInv, Complete
<1>2. LongHalf \in Nat
  BY HalfNat
<1>3. StreamTail \in Nat /\ Hop \in Nat /\ 0 < Hop
  BY Bounds
<1>4. BatchTail \in Nat /\ BatchTail <= StreamTail
  BY TailAssumption
<1>5. Len(heard) \in Nat
  BY LenProperties
<1> DEFINE a == quanta * Hop
           b == Len(heard) * Hop
           n == Len(heard)
<1>6. a \in Int /\ b \in Int
  BY <1>3, <1>5
<1>7. (n + 1) * Hop = b + Hop
  BY <1>3, <1>5
<1>8. ~(b + Hop <= a)
  <2>1. a + Hop <= LongHalf + answer.total + BatchTail
        /\ LongHalf + answer.total + StreamTail < b + 2 * Hop
    BY <1>1 DEF Reached
  <2> HIDE DEF a, b
  <2> QED
    BY <1>1, <1>2, <1>3, <1>4, <1>6, <2>1
<1>9. ~(n + 1 <= quanta)
  <2> HIDE DEF n
  <2>1. n \in Nat
    BY <1>5 DEF n
  <2>2. n + 1 <= quanta <=> (n + 1) * Hop <= quanta * Hop
    BY <1>3, <2>1, TimesMonotone
  <2> DEFINE c == (n + 1) * Hop
  <2>3. c = b + Hop
    BY <1>7
  <2> HIDE DEF c
  <2>4. ~(c <= a)
    BY <1>8, <2>3
  <2> QED
    BY <2>2, <2>4 DEF c
<1> HIDE DEF n
<1>10. n \in Nat /\ quanta <= n
  BY <1>5, <1>9 DEF n
<1>11. QueueOf(heard, n) \in SUBSET Nat /\ Agrees(QueueOf(heard, n))
  BY <1>10, QueueAgrees
<1>12. Known1 = QueueOf(heard, n)
  BY DEF n, Known1
<1> DEFINE K == Known1
<1> HIDE DEF K
<1>13. K = QueueOf(heard, n) /\ K = Known1
  BY <1>12 DEF K
<1> QED
  BY <1>11, <1>13

-----------------------------------------------------------------------------
(* What the source decides, before its tail is predicted. *)

\* The blocks of a course follow each other, a long block apart at the most.
LEMMA CourseSteps ==
    ASSUME NEW Q \in SUBSET Nat, NEW k \in Nat
    PROVE  /\ Course(Q)[k].next \in Nat
           /\ Course(Q)[k].next <= Course(Q)[k + 1].next
           /\ Course(Q)[k + 1].next <= Course(Q)[k].next + 2 * Quarter(1)
           /\ Course(Q)[k + 1].prev = Course(Q)[k].next
<1> DEFINE c == Course(Q)[k]
           f == FollowingOf(Q, c)
<1>1. c \in Cursors /\ Course(Q)[k + 1] = NextCursor(Q, c)
  BY CourseUnfolds
<1>2. f \in Modes
  BY DEF FollowingOf, Modes
<1>3. /\ Course(Q)[k + 1].next = c.next + Quarter(c.mode) + Quarter(f)
      /\ Course(Q)[k + 1].prev = c.next
  BY <1>1 DEF NextCursor
<1> HIDE DEF c, f
<1>4. /\ c.next \in Nat /\ Quarter(c.mode) \in Nat /\ Quarter(c.mode) <= Quarter(1)
  BY <1>1, CursorFields
<1>5. Quarter(f) \in Nat /\ Quarter(f) <= Quarter(1) /\ Quarter(1) \in Nat
  BY <1>2, BlockQuarter, Sizes
<1>6. /\ c.next <= c.next + Quarter(c.mode) + Quarter(f)
      /\ c.next + Quarter(c.mode) + Quarter(f) <= c.next + 2 * Quarter(1)
  BY <1>4, <1>5
<1> QED
  BY <1>3, <1>4, <1>6 DEF c

\* Later blocks are centred later.
LEMMA CourseGrows ==
    ASSUME NEW Q \in SUBSET Nat, NEW m \in Nat, NEW n \in Nat, m <= n
    PROVE  Course(Q)[m].next <= Course(Q)[n].next
<1> DEFINE later == {d \in Nat : Course(Q)[m].next <= Course(Q)[m + d].next}
<1>1. 0 \in later
  <2>1. m + 0 = m /\ Course(Q)[m].next \in Nat
    BY CourseSteps
  <2>2. Course(Q)[m].next <= Course(Q)[m].next
    BY <2>1
  <2> QED
    BY <2>1, <2>2
<1>2. ASSUME NEW d \in Nat, d \in later PROVE d + 1 \in later
  <2>1. Course(Q)[m].next <= Course(Q)[m + d].next
    BY <1>2
  <2> DEFINE k == m + d
  <2>2. k \in Nat /\ m + (d + 1) = k + 1
    OBVIOUS
  <2> HIDE DEF k
  <2>3. Course(Q)[k].next <= Course(Q)[k + 1].next
        /\ Course(Q)[k].next \in Nat /\ Course(Q)[k + 1].next \in Nat
    BY <2>2, CourseSteps
  <2>4. Course(Q)[m].next \in Nat
    BY CourseSteps
  <2>5. Course(Q)[m].next <= Course(Q)[k].next
    BY <2>1 DEF k
  <2>6. Course(Q)[m].next <= Course(Q)[k + 1].next
    BY <2>3, <2>4, <2>5
  <2> QED
    BY <2>2, <2>6
<1> HIDE DEF later
<1>3. \A d \in Nat : d \in later
  BY <1>1, <1>2, NatInduct
<1>4. n - m \in Nat /\ m + (n - m) = n
  OBVIOUS
<1>5. Course(Q)[m].next <= Course(Q)[m + (n - m)].next
  BY <1>3, <1>4 DEF later
<1> QED
  BY <1>4, <1>5

\* The block ahead is centred close to the last one.
LEMMA NextNear ==
    ASSUME NEW Q \in SUBSET Nat, Follows(Q), modes \in Seq(Modes)
    PROVE  nextCenter = 0 \/ nextCenter <= previousCenter + 2 * Quarter(1)
<1> DEFINE n == Len(modes)
<1>1. n \in Nat
  BY LenProperties
<1>2. nextCenter = Course(Q)[n].next /\ previousCenter = Course(Q)[n].prev
  BY DEF Follows, At
<1> HIDE DEF n
<1>3. CASE n = 0
  BY <1>2, <1>3, CourseBefore
<1>4. CASE n # 0
  <2>1. n - 1 \in Nat /\ (n - 1) + 1 = n
    BY <1>1, <1>4
  <2> DEFINE j == n - 1
  <2>2. j \in Nat /\ j + 1 = n
    BY <2>1
  <2> HIDE DEF j
  <2>3. /\ Course(Q)[j + 1].next <= Course(Q)[j].next + 2 * Quarter(1)
        /\ Course(Q)[j + 1].prev = Course(Q)[j].next
    BY <2>2, CourseSteps
  <2> QED
    BY <1>2, <2>2, <2>3
<1> QED
  BY <1>3, <1>4

\* What encode_pcm has decided where its source decides no more is a part of
\* what the stream had there.
LEMMA TailPrefix ==
    ASSUME RepeatInv, turn = "batch", pc = "tail"
    PROVE  /\ answer.training \in Int /\ answer.training <= Long
           /\ answer.training <= Least(Long, LongHalf + total - nextCenter)
           /\ Len(modes) <= Len(answer.modes)
           /\ SubSeq(answer.modes, 1, Len(modes)) = modes
<1>1. /\ BatchInv /\ AnswerInv /\ heard \in Seq(FlagWords) /\ SourceTurn
      /\ queue = QueueOf(heard, quanta)
      /\ \A Q \in SUBSET Nat : BatchCourse(Q)
      /\ total \in Nat /\ quanta \in Nat /\ Reached \in Int
  BY BatchState DEF SourceTurn
<1>2. /\ total = answer.total /\ Reached <= LongHalf + total
      /\ modes \in Seq(Modes) /\ Len(modes) \in Nat
  BY <1>1, LenProperties DEF BatchInv, SessionSound
<1>3. BatchTail \in Nat /\ LongHalf \in Nat
  BY TailAssumption, HalfNat
<1>4. Reached <= LongHalf + answer.total + BatchTail
  BY <1>1, <1>2, <1>3
<1>5. Known1 \in SUBSET Nat /\ Agrees(Known1) /\ Complete(Known1, answer)
  BY <1>1, <1>4, BatchKnown DEF AnswerInv
<1>6. PICK Q \in SUBSET Nat : Q = Known1
  BY <1>5
<1>7. Follows(Q) /\ Complete(Q, answer)
  BY <1>1, <1>5, <1>6 DEF BatchCourse
<1>8. PICK m \in 0 .. Len(answer.modes) :
        TailAt(Q, total, m) /\ answer.training = TrainingAt(Q, total, m)
  BY <1>2, <1>7 DEF Complete, Trained
<1> DEFINE n == Len(modes)
<1>9. n \in Nat /\ m \in Nat /\ answer.modes \in Seq(Modes) /\ Len(answer.modes) \in Nat
  BY <1>2, <1>7, <1>8, LenProperties DEF Complete, Decided
<1>10. n <= m
  <2> SUFFICES ASSUME ~(n <= m) PROVE FALSE
    OBVIOUS
  <2>1. m + 1 \in 1 .. n /\ (m + 1) - 1 = m
    BY <1>9
  <2>2. Course(Q)[m].prev < total /\ Known(Q, Course(Q)[m], Reached)
    BY <1>7, <2>1 DEF Follows
  <2>3. Known(Q, Course(Q)[m], LongHalf + total)
    BY <1>1, <1>2, <1>3, <2>2, KnownGrows
  <2>4. Course(Q)[m].prev \in Int
    <3>1. Course(Q)[m] \in Cursors
      BY <1>9, CourseUnfolds
    <3>2. Course(Q)[m].prev \in Nat \cup {-1}
      BY <3>1, CursorFields
    <3> QED
      BY <3>2
  <2> QED
    BY <1>1, <1>8, <2>2, <2>3, <2>4 DEF TailAt
<1>11. n <= Len(answer.modes)
  BY <1>8, <1>9, <1>10
<1>12. SubSeq(answer.modes, 1, n) = modes
  <2> DEFINE t == SubSeq(answer.modes, 1, n)
  <2>1. \A k \in 1 .. n : modes[k] = Course(Q)[k - 1].mode
    BY <1>7 DEF Follows
  <2>2. \A k \in 1 .. Len(answer.modes) : answer.modes[k] = Course(Q)[k - 1].mode
    BY <1>7 DEF Complete, Decided
  <2> HIDE DEF n
  <2>3. t \in Seq(Modes) /\ Len(t) = n /\ \A k \in 1 .. n : t[k] = answer.modes[k]
    <3>1. \A k \in 1 .. n : k \in 1 .. Len(answer.modes) /\ 1 + k - 1 = k
      BY <1>9, <1>11
    <3>2. \A k \in 1 .. n : answer.modes[k] \in Modes
      BY <1>9, <3>1, ElementOfSeq
    <3>3. t = [k \in 1 .. n |-> answer.modes[k]]
      BY <1>9, <3>1
    <3> HIDE DEF t
    <3>4. t \in [1 .. n -> Modes]
      BY <3>2, <3>3
    <3> QED
      BY <1>9, <3>3, <3>4
  <2>4. Len(modes) = n
    BY DEF n
  <2>5. \A k \in 1 .. n : t[k] = modes[k]
    <3>1. \A k \in 1 .. n : k \in 1 .. Len(answer.modes)
      BY <1>9, <1>11
    <3> QED
      BY <2>1, <2>2, <2>3, <3>1
  <2> HIDE DEF t
  <2>6. t = modes
    BY <1>2, <2>3, <2>4, <2>5, SeqEqual
  <2> QED
    BY <2>6 DEF t
<1>13. /\ answer.training \in Int /\ answer.training <= Long
       /\ answer.training <= Least(Long, LongHalf + total - nextCenter)
  <2>1. Course(Q)[n].next <= Course(Q)[m].next
    BY <1>9, <1>10, CourseGrows
  <2>2. Course(Q)[n].next = nextCenter
    BY <1>7 DEF Follows, At
  <2>3. Course(Q)[m].next \in Nat /\ Course(Q)[n].next \in Nat
    BY <1>9, CourseSteps
  <2>4. Long \in Nat
    BY BlockSizesAssumption
  <2>5. answer.training = Least(Long, LongHalf + total - Course(Q)[m].next)
    BY <1>8 DEF TrainingAt
  <2> HIDE DEF n
  <2> QED
    BY <1>1, <1>3, <2>1, <2>2, <2>3, <2>4, <2>5 DEF Least
<1> QED
  BY <1>11, <1>12, <1>13

-----------------------------------------------------------------------------
(* The steps of encode_pcm. *)

\* What the samples of a queue that was heard whole are worth: the division of
\* the detector stream into hops.
LEMMA WholeQuanta ==
    ASSUME NEW x \in Nat, NEW q \in Nat
    PROVE  /\ q < Greatest(x \div Hop - 4, 0) => q * Hop + 5 * Hop <= x
           /\ q < (x - Window) \div Hop + 1 => q * Hop + 2 * Hop <= x
           /\ ~(q < (x - Window) \div Hop + 1) => x < q * Hop + 2 * Hop
<1>1. Hop \in Nat \ {0} /\ Hop \in Nat /\ 0 < Hop
  BY Bounds
<1>2. ASSUME NEW y \in Int, NEW k \in Int
      PROVE  k <= y \div Hop <=> k * Hop <= y
  <2>1. /\ y \div Hop \in Int /\ y % Hop \in 0 .. Hop - 1
        /\ y = Hop * (y \div Hop) + (y % Hop)
    BY <1>1, DivideInt
  <2>2. PICK d \in Int, r \in 0 .. Hop - 1 : d = y \div Hop /\ y = d * Hop + r
    <3> DEFINE d == y \div Hop
               r == y % Hop
    <3>1. d \in Int /\ r \in 0 .. Hop - 1 /\ y = Hop * d + r
      BY <2>1
    <3> HIDE DEF d, r
    <3>2. Hop * d = d * Hop
      BY <1>1, <3>1
    <3> QED
      BY <3>1, <3>2 DEF d
  <2>3. k <= d => k * Hop <= d * Hop
    BY <1>1, <2>2, TimesMonotone
  <2>4. d + 1 <= k => (d + 1) * Hop <= k * Hop
    BY <1>1, <2>2, TimesMonotone
  <2>5. (d + 1) * Hop = d * Hop + Hop
    BY <1>1, <2>2
  <2> DEFINE a == d * Hop
             b == k * Hop
  <2>6. a \in Int /\ b \in Int
    BY <1>1, <2>2
  <2>7. /\ k <= d => b <= a
        /\ d + 1 <= k => a + Hop <= b
        /\ y = a + r
    BY <2>2, <2>3, <2>4, <2>5
  <2> HIDE DEF a, b
  <2>8. a <= y /\ y < a + Hop
    <3>1. y = a + r /\ r \in 0 .. Hop - 1
      BY <2>2, <2>7
    <3> QED
      BY ONLY <3>1, <1>1, <2>6, y \in Int
  <2>9. k <= d => b <= y
    BY <2>6, <2>7, <2>8
  <2>10. ~(k <= d) => ~(b <= y)
    <3>1. ~(k <= d) => d + 1 <= k
      BY <2>2
    <3> QED
      BY <1>1, <2>6, <2>7, <2>8, <3>1
  <2> QED
    BY <2>2, <2>9, <2>10 DEF b
<1>3. x \div Hop \in Int /\ (x - Window) \in Int /\ (x - Window) \div Hop \in Int
  <2>1. Window \in Int
    BY <1>1 DEF Window
  <2>2. x - Window \in Int /\ x \in Int
    BY <2>1
  <2> QED
    BY <1>1, <2>2, DivideInt
<1> DEFINE u == x \div Hop
           v == (x - Window) \div Hop
           c == q * Hop
<1>4. c \in Int
  BY <1>1
<1>5. (q + 5) * Hop = c + 5 * Hop
  BY <1>1
<1>6. q + 5 <= u <=> (q + 5) * Hop <= x
  BY <1>2
<1>7. q <= v <=> c <= x - Window
  BY <1>2, <1>3
<1> DEFINE e == (q + 5) * Hop
<1>8. e = c + 5 * Hop /\ (q + 5 <= u <=> e <= x)
  BY <1>5, <1>6
<1>9. u \in Int /\ v \in Int
  BY <1>3
<1> HIDE DEF u, v, c, e
<1>10. q < Greatest(u - 4, 0) => c + 5 * Hop <= x
  <2>1. q < Greatest(u - 4, 0) => q + 5 <= u
    BY <1>9 DEF Greatest
  <2> QED
    BY <1>8, <2>1
<1>11. /\ q < v + 1 => c + 2 * Hop <= x
       /\ ~(q < v + 1) => x < c + 2 * Hop
  BY <1>1, <1>4, <1>7, <1>9 DEF Window
<1> QED
  BY <1>10, <1>11 DEF u, v, c

\* The source is handed over.
LEMMA EncodePcmKeeps ==
    ASSUME RepeatInv, turn = "batch", UNCHANGED turnVars, Batch!EncodePcm(answer.total)
    PROVE  RepeatInv'
<1>1. /\ BatchInv /\ AnswerInv
      /\ SourceTurn \/ training = answer.training => queue = QueueOf(heard, quanta)
      /\ answer.total \in Nat /\ MinFrames <= answer.total
      /\ total \in Nat /\ answer' = answer
  BY BatchState DEF turnVars
<1>2. /\ pc = "idle" /\ total' = answer.total
      /\ pc' = IF answer.total < MinFrames THEN "refused" ELSE "ingest"
      /\ UNCHANGED Batch!sessionVars
      /\ UNCHANGED <<training, modes, planner, plans, frames>>
  BY DEF Batch!EncodePcm
<1>3. pc' = "ingest"
  <2>1. MinFrames \in Nat
    BY Bounds
  <2>2. ~(answer.total < MinFrames)
    BY <1>1, <2>1
  <2> QED
    BY <1>2, <2>2
<1>4. UNCHANGED sessionVars
  BY <1>2, BatchSteps
<1>5. total = 0 /\ SourceTurn
  BY <1>1, <1>2 DEF BatchInv, SourceTurn
<1>6. /\ \A Q \in SUBSET Nat : BatchCourse(Q)'
      /\ SessionSound' /\ Reached' = Reached
      /\ quanta' = quanta /\ queue' = queue
  <2>1. UNCHANGED <<sessionVars, modes, plans>>
    BY <1>2, <1>4
  <2>2. total' \in Int /\ total <= total'
    BY <1>1, <1>2, <1>5
  <2>3. ~Settled /\ ~Settled'
    BY <1>2, <1>3 DEF Settled
  <2> QED
    BY <1>2, <1>3, <2>1, <2>2, <2>3, BatchQuiet
<1>7. BatchInv'
  BY <1>1, <1>2, <1>3, <1>5, <1>6 DEF BatchInv, SourceTurn
<1> QED
  BY <1>1, <1>5, <1>6, <1>7, BatchNext

\* What encode_pcm hears before it predicts the tail lies in the source; what it
\* hears after that, in the tail.
LEMMA BatchHears ==
    ASSUME RepeatInv, turn = "batch"
    PROVE  /\ pc = "ingest" /\ quanta < Batch!QuantaWanted =>
                 quanta * Hop + 5 * Hop <= LongHalf + total
           /\ pc = "tailIngest" /\ quanta < Batch!QuantaWanted =>
                 quanta * Hop + 2 * Hop <= LongHalf + total + BatchTail
           /\ pc = "tailIngest" /\ quanta >= Batch!QuantaWanted =>
                 LongHalf + total + BatchTail < quanta * Hop + 2 * Hop
<1>1. total \in Nat /\ quanta \in Nat /\ LongHalf \in Nat /\ BatchTail \in Nat
  BY BatchState, HalfNat, TailAssumption
<1>2. /\ pc = "ingest" => Batch!QuantaWanted = Greatest((LongHalf + total) \div Hop - 4, 0)
      /\ pc = "tailIngest" =>
            Batch!QuantaWanted = (LongHalf + total + BatchTail - Window) \div Hop + 1
  BY BatchScans DEF Batch!QuantaWanted, Batch!PreEosQuanta, Batch!AvailableQuanta,
                    Batch!Greatest, Greatest, Batch!Window, Window
<1> DEFINE x == LongHalf + total
           y == LongHalf + total + BatchTail
<1>3. x \in Nat /\ y \in Nat
  BY <1>1
<1>4. y - Window = LongHalf + total + BatchTail - Window
  <2>1. Window \in Int
    BY Bounds DEF Window
  <2> QED
    BY <1>1, <2>1
<1>5. pc = "ingest" /\ quanta < Batch!QuantaWanted => quanta * Hop + 5 * Hop <= x
  <2>1. pc = "ingest" => Batch!QuantaWanted = Greatest(x \div Hop - 4, 0)
    BY <1>2
  <2> HIDE DEF x
  <2> QED
    BY <1>1, <1>3, <2>1, WholeQuanta
<1>6. /\ pc = "tailIngest" /\ quanta < Batch!QuantaWanted => quanta * Hop + 2 * Hop <= y
      /\ pc = "tailIngest" /\ quanta >= Batch!QuantaWanted => y < quanta * Hop + 2 * Hop
  <2>1. pc = "tailIngest" => Batch!QuantaWanted = (y - Window) \div Hop + 1
    BY <1>2, <1>4
  <2> DEFINE w == (y - Window) \div Hop + 1
  <2>2. w \in Int
    <3>1. Window \in Int /\ Hop \in Nat \ {0}
      BY Bounds DEF Window
    <3>2. y - Window \in Int
      BY <1>3, <3>1
    <3> DEFINE d == y - Window
    <3> HIDE DEF d
    <3>3. d \div Hop \in Int
      BY <3>1, <3>2, DivideInt DEF d
    <3> QED
      BY <3>3 DEF d
  <2> HIDE DEF y
  <2>3. /\ quanta < w => quanta * Hop + 2 * Hop <= y
        /\ ~(quanta < w) => y < quanta * Hop + 2 * Hop
    BY <1>1, <1>3, WholeQuanta
  <2> HIDE DEF w
  <2>4. quanta >= w <=> ~(quanta < w)
    BY <1>1, <2>2
  <2>5. pc = "tailIngest" => Batch!QuantaWanted = w
    BY <2>1 DEF w
  <2> QED
    BY <2>3, <2>4, <2>5
<1> QED
  BY <1>5, <1>6

\* The detector stream is heard as far as it is wanted.
LEMMA QuantaIngestedKeeps ==
    ASSUME RepeatInv, turn = "batch", UNCHANGED turnVars, Batch!QuantaIngested
    PROVE  RepeatInv'
<1>1. /\ BatchInv /\ AnswerInv
      /\ SourceTurn \/ training = answer.training => queue = QueueOf(heard, quanta)
      /\ total \in Nat /\ quanta \in Nat /\ answer' = answer
  BY BatchState DEF turnVars
<1>2. /\ pc \in {"ingest", "tailIngest"} /\ quanta >= Batch!QuantaWanted
      /\ pc' = IF pc = "ingest" THEN "scan" ELSE "tailScan"
      /\ UNCHANGED Batch!sessionVars
      /\ UNCHANGED <<total, training, modes, planner, plans, frames>>
  BY DEF Batch!QuantaIngested
<1>3. UNCHANGED sessionVars
  BY <1>2, BatchSteps
<1>4. /\ \A Q \in SUBSET Nat : BatchCourse(Q)'
      /\ SessionSound' /\ Reached' = Reached
      /\ quanta' = quanta /\ queue' = queue
  <2>1. UNCHANGED <<sessionVars, modes, plans>>
    BY <1>2, <1>3
  <2>2. total' \in Int /\ total <= total'
    BY <1>1, <1>2
  <2>3. ~Settled /\ ~Settled'
    BY <1>2 DEF Settled
  <2> QED
    BY <1>2, <2>1, <2>2, <2>3, BatchQuiet
<1>5. pc = "tailIngest" => LongHalf + total + BatchTail < Reached + Hop
  <2>1. Reached + Hop = quanta * Hop + 2 * Hop
    <3>1. Hop \in Nat
      BY Bounds
    <3>2. quanta * Hop \in Int
      BY <1>1, <3>1
    <3> DEFINE a == quanta * Hop
    <3> HIDE DEF a
    <3>3. (a + Hop) + Hop = a + 2 * Hop
      BY <3>1, <3>2 DEF a
    <3> QED
      BY <3>3 DEF a, Reached
  <2> QED
    BY <1>2, <2>1, BatchHears
<1>6. BatchInv'
  BY <1>1, <1>2, <1>4, <1>5 DEF BatchInv, SourceTurn
<1>7. SourceTurn' => SourceTurn
  BY <1>2 DEF SourceTurn
<1> QED
  BY <1>1, <1>2, <1>4, <1>6, <1>7, BatchNext

\* The source is scanned to its end.
LEMMA SourceScannedKeeps ==
    ASSUME RepeatInv, turn = "batch", UNCHANGED turnVars, Batch!SourceScanned
    PROVE  RepeatInv'
<1>1. /\ BatchInv /\ AnswerInv
      /\ SourceTurn \/ training = answer.training => queue = QueueOf(heard, quanta)
      /\ total \in Nat /\ quanta \in Nat /\ answer' = answer
  BY BatchState DEF turnVars
<1>2. /\ pc \in {"scan", "tailScan"} /\ ~HasSourceFrame(total)
      /\ pc' = IF pc = "scan" THEN "tail" ELSE "finalize"
      /\ UNCHANGED sessionVars
      /\ UNCHANGED <<total, training, modes, planner, plans, frames>>
  BY BatchSteps DEF Batch!SourceScanned
<1>3. /\ \A Q \in SUBSET Nat : BatchCourse(Q)'
      /\ SessionSound' /\ Reached' = Reached
      /\ quanta' = quanta /\ queue' = queue /\ previousCenter' = previousCenter
  <2>1. UNCHANGED <<sessionVars, modes, plans>>
    BY <1>2
  <2>2. total' \in Int /\ total <= total'
    BY <1>1, <1>2
  <2>3. ~Settled /\ ~Settled'
    BY <1>2 DEF Settled
  <2> QED
    BY <1>2, <2>1, <2>2, <2>3, BatchQuiet
<1>4. total <= previousCenter
  <2>1. previousCenter \in Int
    BY <1>1 DEF BatchInv, SessionSound, SessionTypeOK
  <2> QED
    BY <1>1, <1>2, <2>1 DEF HasSourceFrame
<1>5. BatchInv'
  BY <1>1, <1>2, <1>3, <1>4 DEF BatchInv, SourceTurn
<1>6. SourceTurn' => SourceTurn
  BY <1>2 DEF SourceTurn
<1> QED
  BY <1>1, <1>2, <1>3, <1>5, <1>6, BatchNext

\* The predictor of the tail is trained on no less than the stream's.
LEMMA ComputeTailKeeps ==
    ASSUME RepeatInv, turn = "batch", UNCHANGED turnVars, Batch!ComputeTail
    PROVE  RepeatInv'
<1>1. /\ BatchInv /\ AnswerInv
      /\ SourceTurn \/ training = answer.training => queue = QueueOf(heard, quanta)
      /\ total \in Nat /\ quanta \in Nat /\ answer' = answer /\ turn' = turn
  BY BatchState DEF turnVars
<1> DEFINE window == Least(Long, LongHalf + total - nextCenter)
<1>2. /\ pc = "tail" /\ training' = window
      /\ pc' \in {"tailIngest", "failed"}
      /\ UNCHANGED sessionVars
      /\ UNCHANGED <<total, modes, planner, plans, frames>>
  BY BatchSteps, BatchScans DEF Batch!ComputeTail, Batch!Least, Least
<1>3. /\ \A Q \in SUBSET Nat : BatchCourse(Q)'
      /\ SessionSound' /\ Reached' = Reached
      /\ quanta' = quanta /\ queue' = queue
  <2>1. UNCHANGED <<sessionVars, modes, plans>>
    BY <1>2
  <2>2. total' \in Int /\ total <= total'
    BY <1>1, <1>2
  <2>3. ~Settled /\ ~Settled'
    BY <1>2 DEF Settled
  <2> QED
    BY <1>2, <2>1, <2>2, <2>3, BatchQuiet
<1>4. window \in Int
  <2>1. Long \in Int /\ LongHalf \in Int /\ nextCenter \in Int
    BY <1>1, BlockSizesAssumption, HalfNat DEF BatchInv, SessionSound, SessionTypeOK
  <2> QED
    BY <1>1, <2>1 DEF Least
<1>5. StreamDecidesNoLess'
  BY <1>1, <1>2, TailPrefix DEF StreamDecidesNoLess
<1>6. SourceTurn /\ ~SourceTurn'
  BY <1>2 DEF SourceTurn
<1>7. Reached <= LongHalf + total + BatchTail
  <2>1. Reached <= LongHalf + total /\ Reached \in Int
    BY <1>1, <1>2, <1>6, BatchState DEF BatchInv
  <2>2. BatchTail \in Nat /\ LongHalf \in Nat
    BY TailAssumption, HalfNat
  <2> QED
    BY <1>1, <2>1, <2>2
<1> HIDE DEF window
<1>8. BatchInv'
  BY <1>1, <1>2, <1>3, <1>4, <1>5, <1>6, <1>7 DEF BatchInv
<1> QED
  BY <1>1, <1>3, <1>6, <1>8, BatchNext

\* A quantum of encode_pcm's detector.
LEMMA HearBatchKeeps ==
    ASSUME RepeatInv, NEW flags \in FlagWords, HearBatch(flags)
    PROVE  RepeatInv'
<1>1. /\ turn = "batch" /\ UNCHANGED turnVars /\ Answers(flags)
      /\ pc \in {"ingest", "tailIngest"} /\ quanta < Batch!QuantaWanted
      /\ Ingest(flags)
      /\ UNCHANGED <<pc, total, training, modes, planner, plans, frames>>
  BY BatchSteps DEF HearBatch, Batch!IngestQuantum, Batch!batchVars
<1>2. /\ BatchInv /\ AnswerInv
      /\ SourceTurn \/ training = answer.training => queue = QueueOf(heard, quanta)
      /\ \A Q \in SUBSET Nat : BatchCourse(Q)
      /\ total \in Nat /\ quanta \in Nat /\ Reached \in Int
      /\ answer' = answer /\ turn' = turn /\ SessionSound /\ SessionTypeOK
  BY <1>1, BatchState DEF turnVars, BatchInv, SessionSound
<1>3. /\ Hop \in Nat /\ 0 < Hop /\ LongHalf \in Nat /\ BatchTail \in Nat
  BY Bounds, HalfNat, TailAssumption
<1>4. /\ SessionSound' /\ quanta' = quanta + 1 /\ codes' = codes
      /\ Reached' = Reached + Hop
  BY <1>1, <1>2, IngestSound, IngestFollows
<1> DEFINE a == quanta * Hop
<1>5. a \in Int /\ Reached = a + Hop
  BY <1>2, <1>3 DEF Reached
<1>6. /\ pc = "ingest" => a + 5 * Hop <= LongHalf + total
      /\ pc = "tailIngest" => a + 2 * Hop <= LongHalf + total + BatchTail
  BY <1>1, BatchHears
<1>7. SourceTurn <=> pc = "ingest"
  BY <1>1 DEF SourceTurn
<1>8. flags = heard[quanta + 1] \/ (a + 2 * Hop > LongHalf + total /\ training # answer.training)
  BY <1>1 DEF Answers, Window
<1> HIDE DEF a
<1>9. /\ pc = "ingest" => Reached' <= LongHalf + total
      /\ pc = "tailIngest" => Reached' <= LongHalf + total + BatchTail
  BY <1>2, <1>3, <1>4, <1>5, <1>6
<1>10. SourceTurn \/ training = answer.training => flags = heard[quanta + 1]
  <2>1. pc = "ingest" => ~(a + 2 * Hop > LongHalf + total)
    BY <1>2, <1>3, <1>5, <1>6
  <2> QED
    BY <1>7, <1>8, <2>1
<1>11. SourceTurn' \/ training' = answer.training => queue' = QueueOf(heard, quanta')
  <2> SUFFICES ASSUME SourceTurn' \/ training' = answer.training
               PROVE  queue' = QueueOf(heard, quanta')
    OBVIOUS
  <2>1. SourceTurn \/ training = answer.training
    BY <1>1 DEF SourceTurn
  <2>2. heard[quanta + 1] = flags /\ queue = QueueOf(heard, quanta)
    BY <1>2, <1>10, <2>1
  <2> QED
    BY <1>1, <1>2, <2>2, QueueHears
<1>12. ASSUME NEW Q \in SUBSET Nat PROVE BatchCourse(Q)'
  <2>1. (Agrees(Q)' => Agrees(Q)) /\ (Follows(Q) => Follows(Q)')
    BY <1>1, <1>2, IngestFollows
  <2>2. Recorded(Q) => Recorded(Q)'
    BY <1>1, <1>4 DEF Recorded, Settled
  <2>3. PlannerFollows(Q)'
    BY <1>1 DEF PlannerFollows
  <2> QED
    BY <1>2, <2>1, <2>2, <2>3 DEF BatchCourse
<1>13. StreamDecidesNoLess => StreamDecidesNoLess'
  BY <1>1, <1>2 DEF StreamDecidesNoLess
<1>14. BatchInv'
  BY <1>1, <1>2, <1>4, <1>7, <1>9, <1>13 DEF BatchInv, SourceTurn
<1> QED
  BY <1>1, <1>11, <1>12, <1>14, BatchNext

\* A scan of encode_pcm.
LEMMA ScanModeKeeps ==
    ASSUME RepeatInv, turn = "batch", UNCHANGED turnVars, Batch!ScanMode
    PROVE  RepeatInv'
<1>1. /\ pc \in {"scan", "tailScan"} /\ HasSourceFrame(total)
      /\ \/ Decide(pc = "tailScan") /\ modes' = Append(modes, currentMode) /\ pc' = pc
         \/ pc = "scan" /\ Undecided /\ pc' = "tail" /\ modes' = modes
      /\ UNCHANGED <<total, training, planner, plans, frames>>
  <2>1. (pc = "tailScan") \in BOOLEAN
    OBVIOUS
  <2> QED
    BY <2>1, BatchSteps DEF Batch!ScanMode
<1>2. /\ BatchInv /\ AnswerInv
      /\ SourceTurn \/ training = answer.training => queue = QueueOf(heard, quanta)
      /\ \A Q \in SUBSET Nat : BatchCourse(Q)
      /\ total \in Nat /\ quanta \in Nat /\ queue \in SUBSET Nat
      /\ answer' = answer /\ turn' = turn
      /\ answer.total \in Nat /\ MinFrames <= answer.total
  BY BatchState DEF turnVars
<1>3. /\ SessionSound /\ total = answer.total /\ plans = <<>>
      /\ modes \in Seq(Modes) /\ codes \in Seq(0 .. 3) /\ Len(codes) = Len(modes)
      /\ Len(modes) \in Nat /\ previousCenter \in Int
      /\ pc = "tailScan" => LongHalf + total + BatchTail < Reached + Hop
  BY <1>1, <1>2, LenProperties DEF BatchInv, SessionSound, SessionTypeOK
<1>4. previousCenter < total
  BY <1>1, <1>2, <1>3 DEF HasSourceFrame
<1>5. ~Settled /\ ~Settled'
  BY <1>1 DEF Settled
<1>6. CASE Decide(pc = "tailScan") /\ modes' = Append(modes, currentMode) /\ pc' = pc
  <2> DEFINE eos == pc = "tailScan"
  <2>1. eos \in BOOLEAN /\ Decide(eos)
    BY <1>6
  <2>2. Status >= 0
    <3>1. CASE eos
      <4>1. Agrees(queue)
        BY DEF Agrees
      <4>2. Follows(queue)
        BY <1>2, <4>1 DEF BatchCourse
      <4>3. nextCenter = 0 \/ nextCenter <= previousCenter + 2 * Quarter(1)
        BY <1>2, <1>3, <4>2, NextNear
      <4> QED
        BY <1>2, <1>3, <1>4, <3>1, <4>3, TailDecides
    <3>2. CASE ~eos
      BY <2>1, <3>2 DEF Decide
    <3> QED
      BY <3>1, <3>2
  <2> HIDE DEF eos
  <2>3. SessionSound' /\ quanta' = quanta /\ queue' = queue
    BY <1>3, <1>6, <2>1, DecideSound
  <2>4. ASSUME NEW Q \in SUBSET Nat, Agrees(Q)'
        PROVE  Follows(Q)' /\ Recorded(Q)' /\ PlannerFollows(Q)'
    <3>1. Agrees(Q)
      BY <2>3, <2>4 DEF Agrees
    <3>2. Follows(Q) /\ Recorded(Q)
      BY <1>2, <3>1 DEF BatchCourse
    <3>3. Follows(Q)' /\ codes' = Append(codes, CodeAt(Q, At(Q)))
      BY <1>1, <1>2, <1>3, <1>4, <1>6, <2>1, <2>2, <3>1, <3>2, DecisionFollows
    <3>4. /\ Len(codes') = Len(codes) + 1
          /\ \A k \in 1 .. Len(codes) : codes'[k] = codes[k]
          /\ codes'[Len(codes) + 1] = CodeAt(Q, At(Q))
      BY <1>3, <3>3, AppendProperties
    <3>5. ASSUME NEW k \in 1 .. Len(codes')
          PROVE  codes'[k] = CodeOf(Q, k, FALSE)
      <4>1. CASE k = Len(codes) + 1
        <5>1. k - 1 = Len(modes)
          BY <1>3, <4>1
        <5> QED
          BY <3>4, <4>1, <5>1 DEF CodeOf, At
      <4>2. CASE k # Len(codes) + 1
        <5>1. k \in 1 .. Len(codes)
          BY <1>3, <3>4, <4>2
        <5>2. codes[k] = CodeOf(Q, k, FALSE)
          BY <1>1, <1>5, <3>2, <5>1 DEF Recorded
        <5> QED
          BY <3>4, <5>1, <5>2
      <4> QED
        BY <4>1, <4>2
    <3>6. Recorded(Q)'
      <4>1. plans' = <<>> /\ Len(plans') = 0
        BY <1>1, <1>3
      <4>2. \A k \in 1 .. Len(plans') : plans'[k] = PlanOf(Q, k, FALSE)
        BY <4>1
      <4> QED
        BY <1>5, <3>5, <4>2 DEF Recorded
    <3>7. PlannerFollows(Q)'
      BY <1>1, <1>6 DEF PlannerFollows
    <3> QED
      BY <3>3, <3>6, <3>7
  <2>5. \A Q \in SUBSET Nat : BatchCourse(Q)'
    BY <2>4 DEF BatchCourse
  <2>6. Reached' = Reached
    BY <2>3 DEF Reached
  <2>7. BatchInv'
    BY <1>1, <1>2, <1>6, <2>3, <2>6 DEF BatchInv, SourceTurn
  <2>8. SourceTurn' => SourceTurn
    BY <1>6 DEF SourceTurn
  <2> QED
    BY <1>1, <1>2, <2>3, <2>5, <2>7, <2>8, BatchNext
<1>7. CASE pc = "scan" /\ Undecided /\ pc' = "tail" /\ modes' = modes
  <2>1. SessionSound' /\ quanta' = quanta /\ queue' = queue /\ codes' = codes
    BY <1>3, <1>7, UndecidedSound DEF Undecided
  <2>2. ASSUME NEW Q \in SUBSET Nat, Agrees(Q)'
        PROVE  Follows(Q)' /\ Recorded(Q)' /\ PlannerFollows(Q)'
    <3>1. Agrees(Q)
      BY <2>1, <2>2 DEF Agrees
    <3>2. Follows(Q) /\ Recorded(Q)
      BY <1>2, <3>1 DEF BatchCourse
    <3>3. Follows(Q)'
      BY <1>1, <1>3, <1>7, <3>1, <3>2, UndecidedFollows
    <3>4. Recorded(Q)'
      <4>1. \A k \in 1 .. Len(codes) : codes[k] = CodeOf(Q, k, FALSE)
        BY <1>5, <1>7, <3>2 DEF Recorded
      <4>2. codes' = codes /\ plans' = <<>> /\ Len(plans') = 0
        BY <1>1, <1>3, <2>1
      <4>3. \A k \in 1 .. Len(codes') : codes'[k] = CodeOf(Q, k, FALSE)
        BY <4>1, <4>2
      <4>4. \A k \in 1 .. Len(plans') : plans'[k] = PlanOf(Q, k, FALSE)
        BY <4>2
      <4> QED
        BY <1>5, <4>3, <4>4 DEF Recorded
    <3>5. PlannerFollows(Q)'
      BY <1>7 DEF PlannerFollows
    <3> QED
      BY <3>3, <3>4, <3>5
  <2>3. \A Q \in SUBSET Nat : BatchCourse(Q)'
    BY <2>2 DEF BatchCourse
  <2>4. Reached' = Reached
    BY <2>1 DEF Reached
  <2>5. BatchInv'
    BY <1>1, <1>2, <1>7, <2>1, <2>4 DEF BatchInv, SourceTurn
  <2>6. SourceTurn
    BY <1>7 DEF SourceTurn
  <2> QED
    BY <1>1, <1>2, <2>1, <2>3, <2>5, <2>6, BatchNext
<1> QED
  BY <1>1, <1>6, <1>7

\* The planner of encode_pcm is that of a stream.
LEMMA BatchPlans ==
    ASSUME NEW state, NEW following
    PROVE  /\ Batch!FreshPlanner(following) = FreshPlanner(following)
           /\ Batch!AppendSamples(state, following) = AppendSamples(state, following)
           /\ Batch!Rejected(state, following) <=> Rejected(state, following)
           /\ Batch!FramePlan(state, following) = FramePlan(state, following)
           /\ Batch!AfterBlock(state, following) = AfterBlock(state, following)
<1>1. \A mode : Batch!BlockSize(mode) = BlockSize(mode)
  BY DEF Batch!BlockSize, BlockSize
<1>2. Batch!LongHalf = LongHalf
  BY DEF Batch!LongHalf, LongHalf
<1>3. Batch!RequiredSamples(state, following) = RequiredSamples(state, following)
  BY <1>1 DEF Batch!RequiredSamples, RequiredSamples
<1>4. Batch!Advance(state, following) = Advance(state, following)
  BY <1>1, <1>2 DEF Batch!Advance, Advance
<1>5. Batch!SampleStart(state) = SampleStart(state)
  BY <1>1 DEF Batch!SampleStart, SampleStart
<1>6. Batch!FreshPlanner(following) = FreshPlanner(following)
  BY <1>2 DEF Batch!FreshPlanner, FreshPlanner
<1>7. Batch!AppendSamples(state, following) = AppendSamples(state, following)
  BY <1>3 DEF Batch!AppendSamples, AppendSamples, Batch!Greatest, Greatest
<1>8. Batch!Rejected(state, following) <=> Rejected(state, following)
  BY <1>3, <1>4 DEF Batch!Rejected, Rejected
<1>9. Batch!FramePlan(state, following) = FramePlan(state, following)
  BY <1>1, <1>5 DEF Batch!FramePlan, FramePlan
<1>10. Batch!AfterBlock(state, following) = AfterBlock(state, following)
  BY <1>2, <1>4 DEF Batch!AfterBlock, AfterBlock
<1> QED
  BY <1>6, <1>7, <1>8, <1>9, <1>10

\* The feeder's samples are no part of a plan.
LEMMA FedPlan ==
    ASSUME NEW state \in PlannerStates, NEW following
    PROVE  FramePlan(AppendSamples(state, following), following)
             = FramePlan(state, following)
<1> DEFINE fed == AppendSamples(state, following)
<1>1. /\ fed.emitted = state.emitted /\ fed.previous = state.previous
      /\ fed.current = state.current /\ fed.base = state.base
      /\ fed.cursor = state.cursor
  BY DEF AppendSamples, PlannerStates
<1> HIDE DEF fed
<1>2. FramePlan(fed, following) = FramePlan(state, following)
  BY <1>1 DEF FramePlan, SampleStart
<1> QED
  BY <1>2 DEF fed

\* The code of the last block is put right.
LEMMA FinalizeKeeps ==
    ASSUME RepeatInv, turn = "batch", UNCHANGED turnVars, Batch!FinalizeTerminal
    PROVE  RepeatInv'
<1> DEFINE n == Len(modes)
           before == IF n > 1 THEN modes[n - 1] ELSE 0
           final == FinalizedCodes(before, modes[n])
<1>1. /\ pc = "finalize" /\ pc' = "plan" /\ codes' = final
      /\ planner' = FreshPlanner(modes[1])
      /\ UNCHANGED <<selectorVars, cursorVars, total, training, modes, plans, frames>>
  BY BatchSteps, BatchPlans DEF Batch!FinalizeTerminal, Batch!selectorVars,
       selectorVars, Batch!cursorVars, cursorVars
<1>2. /\ BatchInv /\ AnswerInv
      /\ SourceTurn \/ training = answer.training => queue = QueueOf(heard, quanta)
      /\ \A Q \in SUBSET Nat : BatchCourse(Q)
      /\ total \in Nat /\ quanta \in Nat /\ queue \in SUBSET Nat
      /\ answer' = answer /\ turn' = turn
  BY BatchState DEF turnVars
<1>3. /\ SessionSound /\ plans = <<>> /\ total <= previousCenter
      /\ modes \in Seq(Modes) /\ Len(codes) = n /\ n \in Nat
      /\ previousCenter \in Int
  BY <1>1, <1>2, LenProperties DEF BatchInv, SessionSound, SessionTypeOK
<1>4. ~Settled /\ Settled'
  BY <1>1 DEF Settled
<1>5. UNCHANGED <<quanta, queue, selected, scanCursor, nextCenter, previousCenter,
                  previousMode, currentMode, modes, total, plans>>
  BY <1>1 DEF selectorVars, cursorVars
<1>6. ASSUME NEW Q \in SUBSET Nat, Agrees(Q)
      PROVE  /\ Follows(Q) /\ modes # <<>> /\ FinalCodes(Q, final)
  <2>1. Follows(Q) /\ Recorded(Q)
    BY <1>2, <1>6 DEF BatchCourse
  <2>2. modes # <<>>
    <3> SUFFICES ASSUME modes = <<>> PROVE FALSE
      OBVIOUS
    <3>1. At(Q) = Course(Q)[0]
      BY DEF At
    <3>2. previousCenter = -1
      BY <2>1, <3>1, CourseBefore DEF Follows
    <3> QED
      BY <1>2, <1>3, <3>2
  <2>3. CodesFollow(Q)
    BY <1>1, <1>3, <1>4, <2>1 DEF Recorded, CodesFollow, CodeOf
  <2>4. /\ before = IF Len(modes) > 1 THEN modes[Len(modes) - 1] ELSE 0
        /\ final = FinalizedCodes(before, modes[Len(modes)])
    OBVIOUS
  <2> HIDE DEF before, final
  <2>5. FinalCodes(Q, final)
    BY ONLY <1>3, <2>1, <2>2, <2>3, <2>4, Q \in SUBSET Nat, FinalFollows
  <2> QED
    BY <2>1, <2>2, <2>5
<1> HIDE DEF final, before
<1>7. Agrees(queue)
  BY DEF Agrees
<1>8. modes # <<>> /\ FinalCodes(queue, final)
  BY <1>2, <1>6, <1>7
<1>9. final \in Seq(0 .. 3) /\ Len(final) = n
  BY <1>8 DEF FinalCodes
<1>10. SessionSound'
  <2>1. SessionTypeOK'
    BY <1>1, <1>3, <1>5, <1>9 DEF SessionSound, SessionTypeOK
  <2>2. Boundary' = Boundary
    BY <1>5 DEF Boundary, Center
  <2> QED
    BY <1>1, <1>3, <1>5, <1>9, <2>1, <2>2 DEF SessionSound
<1>11. n # 0
  BY <1>3, <1>8, EmptySeq
<1>12. modes[1] \in Modes
  BY <1>3, <1>11, ElementOfSeq
<1>13. /\ planner' \in PlannerStates /\ planner'.cursor = LongHalf
       /\ planner'.emitted = 0 /\ planner'.previous = 0 /\ planner'.base = 0
  <2>1. LongHalf \in Nat
    BY HalfNat
  <2>2. planner' = [previous |-> 0, current |-> modes[1], cursor |-> LongHalf,
                    filled |-> LongHalf, base |-> 0, emitted |-> 0]
    BY <1>1 DEF FreshPlanner
  <2> QED
    BY <1>12, <2>1, <2>2 DEF PlannerStates, Modes
<1>14. plans' = <<>> /\ Len(plans') = 0
  BY <1>3, <1>5
<1>15. ASSUME NEW Q \in SUBSET Nat PROVE BatchCourse(Q)'
  <2> SUFFICES ASSUME Agrees(Q)'
               PROVE  Follows(Q)' /\ Recorded(Q)' /\ PlannerFollows(Q)'
    BY DEF BatchCourse
  <2>1. Agrees(Q)
    BY <1>5 DEF Agrees
  <2>2. Follows(Q) /\ FinalCodes(Q, final)
    BY <1>6, <2>1
  <2>3. Follows(Q)'
    BY <1>5, <2>2 DEF Follows, At, Reached
  <2>4. Recorded(Q)'
    <3>1. \A k \in 1 .. Len(codes') : codes'[k] = CodeOf(Q, k, k = Len(modes'))
      BY <1>1, <1>5, <1>9, <2>2 DEF FinalCodes
    <3>2. \A k \in 1 .. Len(plans') : plans'[k] = PlanOf(Q, k, k = Len(modes'))
      BY <1>14
    <3> QED
      BY <1>4, <3>1, <3>2 DEF Recorded
  <2>5. PlannerFollows(Q)'
    BY <1>13, <1>14, CourseBefore DEF PlannerFollows
  <2> QED
    BY <2>3, <2>4, <2>5
<1>16. Reached' = Reached
  BY <1>5 DEF Reached
<1>17. plans' \in Seq(PlanRecords) /\ Len(plans') <= Len(modes')
  BY <1>3, <1>5, <1>14
<1>18. BatchInv'
  BY <1>1, <1>2, <1>5, <1>10, <1>13, <1>14, <1>16, <1>17 DEF BatchInv, SourceTurn
<1>19. ~SourceTurn'
  BY <1>1 DEF SourceTurn
<1> QED
  BY <1>1, <1>2, <1>5, <1>15, <1>18, <1>19, BatchNext

\* The frames are encoded.
LEMMA EncodeFramesKeeps ==
    ASSUME RepeatInv, turn = "batch", UNCHANGED turnVars, Batch!EncodeFrames
    PROVE  RepeatInv'
<1>1. /\ BatchInv /\ AnswerInv
      /\ SourceTurn \/ training = answer.training => queue = QueueOf(heard, quanta)
      /\ total \in Nat /\ quanta \in Nat /\ answer' = answer
  BY BatchState DEF turnVars
<1>2. /\ pc = "plan" /\ pc' = "done" /\ Len(plans) = Len(modes)
      /\ UNCHANGED sessionVars
      /\ UNCHANGED <<total, training, modes, planner, plans>>
  BY BatchSteps DEF Batch!EncodeFrames
<1>3. /\ \A Q \in SUBSET Nat : BatchCourse(Q)'
      /\ SessionSound' /\ Reached' = Reached
      /\ quanta' = quanta /\ queue' = queue /\ previousCenter' = previousCenter
  <2>1. UNCHANGED <<sessionVars, modes, plans>>
    BY <1>2
  <2>2. total' \in Int /\ total <= total'
    BY <1>1, <1>2
  <2>3. Settled /\ Settled'
    BY <1>2 DEF Settled
  <2> QED
    BY <1>2, <2>1, <2>2, <2>3, BatchQuiet
<1>4. BatchInv'
  BY <1>1, <1>2, <1>3 DEF BatchInv, SourceTurn
<1>5. ~SourceTurn'
  BY <1>2 DEF SourceTurn
<1> QED
  BY <1>1, <1>2, <1>3, <1>4, <1>5, BatchNext

\* The plan of encode_pcm is that of the course.
LEMMA BatchPlanFollows ==
    ASSUME modes \in Seq(Modes), plans \in Seq(PlanRecords), pc = "plan",
           planner \in PlannerStates, planner.cursor = LongHalf,
           planner.emitted = Len(plans),
           NEW Q \in SUBSET Nat, Follows(Q), PlannerFollows(Q),
           NEW k \in 1 .. Len(modes), k = Len(plans) + 1,
           planner.current = modes[k],
           NEW following,
           following = IF k < Len(modes) THEN modes[k + 1] ELSE 1,
           NEW plan, plan = FramePlan(planner, following),
           NEW after, after = AfterBlock(AppendSamples(planner, following), following)
    PROVE  /\ plan = PlanOf(Q, k, k = Len(modes))
           /\ k < Len(modes) => /\ after.previous = Course(Q)[k].before
                                /\ after.base = Course(Q)[k].next
<1> DEFINE n == Len(modes)
           c == Course(Q)[k - 1]
<1>1. n \in Nat /\ k \in Nat /\ k <= n /\ Len(plans) \in Nat /\ Len(plans) = k - 1
      /\ k - 1 \in Nat /\ k # 0
  BY LenProperties
<1>2. modes[k] = c.mode /\ planner.previous = c.before /\ planner.base = c.next
  BY <1>1 DEF Follows, PlannerFollows
<1>3. k < n => modes[k + 1] = Course(Q)[k].mode /\ modes[k + 1] \in Modes
  <2> SUFFICES ASSUME k < n
               PROVE  modes[k + 1] = Course(Q)[k].mode /\ modes[k + 1] \in Modes
    OBVIOUS
  <2>1. k + 1 \in 1 .. n /\ (k + 1) - 1 = k
    BY <1>1
  <2> QED
    BY <2>1, ElementOfSeq DEF Follows
<1>4. /\ Course(Q)[k].before = c.mode /\ Course(Q)[k].mode = FollowingOf(Q, c)
      /\ Course(Q)[k].prev = c.next
  BY <1>1, CourseBefore
<1>5. following \in Modes
  BY <1>3 DEF Modes
<1>6. following = IF k = n THEN 1 ELSE FollowingOf(Q, c)
  BY <1>1, <1>3, <1>4
<1>7. c \in Cursors /\ Course(Q)[k] = NextCursor(Q, c)
  <2>1. (k - 1) + 1 = k
    BY <1>1
  <2> DEFINE j == k - 1
  <2>2. j \in Nat /\ j + 1 = k
    BY <1>1, <2>1
  <2> HIDE DEF j
  <2>3. Course(Q)[j] \in Cursors /\ Course(Q)[j + 1] = NextCursor(Q, Course(Q)[j])
    BY <2>2, CourseUnfolds
  <2> QED
    BY <2>2, <2>3 DEF j
<1> DEFINE state == planner
           fed == AppendSamples(state, following)
<1>8. /\ after = AfterBlock(fed, following) /\ fed = AppendSamples(state, following)
      /\ plan = FramePlan(state, following)
      /\ state \in PlannerStates /\ state.cursor = LongHalf
  OBVIOUS
<1> HIDE DEF fed
<1>9. /\ plan \in PlanRecords
      /\ plan.index = state.emitted /\ plan.previous = state.previous
      /\ plan.current = state.current /\ plan.following = following
      /\ CentreOf(plan) = state.base
      /\ plan.start = CentreOf(plan) + LongHalf - 2 * Quarter(plan.current)
      /\ plan.end = plan.start + BlockSize(plan.current)
      /\ after.previous = state.current
      /\ after.base = state.base + Quarter(state.current) + Quarter(following)
  <2> HIDE DEF state
  <2> QED
    BY ONLY <1>5, <1>8, BlockPlanned
<1> HIDE DEF c
<1>10. /\ c.next \in Nat /\ c.mode \in Modes /\ BlockSize(c.mode) = 4 * Quarter(c.mode)
       /\ Quarter(c.mode) \in Nat /\ LongHalf \in Nat
  BY <1>7, CursorFields, BlockQuarter, HalfNat
<1>11. /\ plan.start = c.next + LongHalf - 2 * Quarter(c.mode)
       /\ plan.end = c.next + LongHalf + 2 * Quarter(c.mode)
  BY <1>2, <1>9, <1>10
<1>12. plan = [index |-> plan.index, previous |-> plan.previous, current |-> plan.current,
               following |-> plan.following, start |-> plan.start, end |-> plan.end]
  BY <1>9 DEF PlanRecords
<1>13. plan = PlanOf(Q, k, k = n)
  <2>1. plan.index = k - 1 /\ plan.previous = c.before /\ plan.current = c.mode
    BY <1>1, <1>2, <1>9
  <2>2. plan.following = IF k = n THEN 1 ELSE FollowingOf(Q, c)
    BY <1>6, <1>9
  <2> QED
    BY <1>11, <1>12, <2>1, <2>2 DEF PlanOf, c
<1>14. ASSUME k < n
       PROVE  after.previous = Course(Q)[k].before /\ after.base = Course(Q)[k].next
  <2>1. following = FollowingOf(Q, c)
    BY <1>1, <1>6, <1>14
  <2>2. Course(Q)[k].next = c.next + Quarter(c.mode) + Quarter(FollowingOf(Q, c))
    BY <1>7 DEF NextCursor
  <2> QED
    BY <1>2, <1>4, <1>9, <2>1, <2>2
<1> QED
  BY <1>13, <1>14

\* A block of encode_pcm is planned.
LEMMA PlanBlockKeeps ==
    ASSUME RepeatInv, turn = "batch", UNCHANGED turnVars, Batch!PlanBlock
    PROVE  RepeatInv'
<1> DEFINE k == Len(plans) + 1
           following == IF k < Len(modes) THEN modes[k + 1] ELSE 1
           fed == AppendSamples(planner, following)
           plan == FramePlan(planner, following)
           after == AfterBlock(fed, following)
<1>1. /\ BatchInv /\ AnswerInv
      /\ SourceTurn \/ training = answer.training => queue = QueueOf(heard, quanta)
      /\ \A Q \in SUBSET Nat : BatchCourse(Q)
      /\ total \in Nat /\ quanta \in Nat /\ queue \in SUBSET Nat
      /\ answer' = answer /\ turn' = turn
  BY BatchState DEF turnVars
<1>2. pc = "plan"
  BY DEF Batch!PlanBlock
<1>3. /\ planner \in PlannerStates /\ planner.cursor = LongHalf
      /\ planner.emitted = Len(plans) /\ plans \in Seq(PlanRecords)
      /\ modes \in Seq(Modes) /\ total \in Int
  BY <1>1, <1>2 DEF BatchInv, SessionSound
<1>4. /\ k <= Len(modes)
      /\ \/ /\ planner.current = modes[k]
            /\ plans' = Append(plans, plan) /\ planner' = after /\ pc' = pc
         \/ pc' = "failed" /\ plans' = plans /\ planner' = planner
      /\ UNCHANGED <<sessionVars, total, training, modes, frames>>
  BY <1>3, BatchSteps, BatchPlans, FedPlan DEF Batch!PlanBlock
<1>5. /\ UNCHANGED <<quanta, queue, selected, scanCursor, nextCenter, previousCenter,
                     previousMode, currentMode, modes, total, codes>>
  BY <1>4 DEF sessionVars, selectorVars, cursorVars
<1>6. Reached' = Reached
  BY <1>5 DEF Reached
<1>7. ASSUME NEW Q \in SUBSET Nat
      PROVE  (Agrees(Q)' => Agrees(Q)) /\ (Follows(Q) => Follows(Q)')
             /\ SessionSound' = SessionSound
  <2>1. UNCHANGED <<sessionVars, modes>> /\ modes \in Seq(Modes)
    BY <1>3, <1>4
  <2>2. total \in Int /\ total' \in Int /\ total <= total'
    BY <1>1, <1>4
  <2> QED
    BY <2>1, <2>2, StillFollows
<1>8. SessionSound'
  BY <1>1, <1>7 DEF BatchInv
<1>9. k \in 1 .. Len(modes) /\ Len(modes) \in Nat /\ k \in Nat /\ Len(plans) \in Nat
  BY <1>3, <1>4, LenProperties
<1>10. ~SourceTurn'
  BY <1>2, <1>4 DEF SourceTurn
<1>11. CASE /\ planner.current = modes[k]
            /\ plans' = Append(plans, plan) /\ planner' = after /\ pc' = pc
  <2>1. following \in Modes
    <3>1. k < Len(modes) => k + 1 \in 1 .. Len(modes)
      BY <1>9
    <3> QED
      BY <1>3, <3>1, ElementOfSeq DEF Modes
  <2>2. /\ plan \in PlanRecords /\ after \in PlannerStates
        /\ after.cursor = LongHalf /\ after.emitted = planner.emitted + 1
    <3>1. /\ plan = FramePlan(planner, following) /\ after = AfterBlock(fed, following)
          /\ fed = AppendSamples(planner, following)
      OBVIOUS
    <3> HIDE DEF plan, after, fed, following
    <3> QED
      BY <1>3, <2>1, <3>1, BlockPlanned
  <2>3. following = IF k < Len(modes) THEN modes[k + 1] ELSE 1
    OBVIOUS
  <2>4. plan = FramePlan(planner, following)
        /\ after = AfterBlock(AppendSamples(planner, following), following)
    OBVIOUS
  <2> HIDE DEF plan, after, following, fed
  <2>5. /\ plans' \in Seq(PlanRecords) /\ Len(plans') = Len(plans) + 1
        /\ \A j \in 1 .. Len(plans) : plans'[j] = plans[j]
        /\ plans'[Len(plans) + 1] = plan
    BY <1>3, <1>11, <2>2, Appended
  <2>6. ASSUME NEW Q \in SUBSET Nat, Agrees(Q)'
        PROVE  Follows(Q)' /\ Recorded(Q)' /\ PlannerFollows(Q)'
    <3>1. Agrees(Q)
      BY <1>7, <2>6
    <3>2. Follows(Q) /\ Recorded(Q) /\ PlannerFollows(Q)
      BY <1>1, <3>1 DEF BatchCourse
    <3>3. k = Len(plans) + 1 /\ planner.current = modes[k]
      BY <1>11
    <3>4. k \in 1 .. Len(modes)
      BY <1>9
    <3> HIDE DEF k
    <3>5. /\ plan = PlanOf(Q, k, k = Len(modes))
          /\ k < Len(modes) => /\ after.previous = Course(Q)[k].before
                               /\ after.base = Course(Q)[k].next
      BY <1>2, <1>3, <2>3, <2>4, <3>2, <3>3, <3>4, BatchPlanFollows
    <3>6. Settled /\ Settled' /\ pc # "failed"
      BY <1>2, <1>11 DEF Settled
    <3>7. \A j \in 1 .. Len(codes') : codes'[j] = CodeOf(Q, j, j = Len(modes'))
      BY <1>5, <3>2, <3>6 DEF Recorded
    <3>8. \A j \in 1 .. Len(plans') : plans'[j] = PlanOf(Q, j, j = Len(modes'))
      <4> SUFFICES ASSUME NEW j \in 1 .. Len(plans')
                   PROVE  plans'[j] = PlanOf(Q, j, j = Len(modes))
        BY <1>5
      <4>1. CASE j = Len(plans) + 1
        BY <2>5, <3>3, <3>5, <4>1
      <4>2. CASE j # Len(plans) + 1
        <5>1. j \in 1 .. Len(plans)
          BY <1>9, <2>5, <4>2
        <5>2. plans[j] = PlanOf(Q, j, j = Len(modes))
          BY <3>2, <3>6, <5>1 DEF Recorded
        <5> QED
          BY <2>5, <5>1, <5>2
      <4> QED
        BY <4>1, <4>2
    <3>9. Recorded(Q)'
      BY <3>6, <3>7, <3>8 DEF Recorded
    <3>10. PlannerFollows(Q)'
      BY <1>5, <1>11, <2>5, <3>3, <3>5 DEF PlannerFollows
    <3> QED
      BY <1>7, <3>2, <3>9, <3>10
  <2>7. \A Q \in SUBSET Nat : BatchCourse(Q)'
    BY <2>6 DEF BatchCourse
  <2>8. Len(plans') <= Len(modes')
    BY <1>4, <1>5, <1>9, <2>5
  <2>9. planner' \in PlannerStates /\ planner'.cursor = LongHalf
        /\ planner'.emitted = Len(plans')
    BY <1>3, <1>11, <2>2, <2>5
  <2>10. BatchInv'
    BY <1>1, <1>2, <1>4, <1>5, <1>6, <1>8, <1>11, <2>5, <2>8, <2>9 DEF BatchInv, SourceTurn
  <2> QED
    BY <1>1, <1>4, <1>5, <1>10, <2>7, <2>10, BatchNext
<1>12. CASE pc' = "failed" /\ plans' = plans /\ planner' = planner
  <2>1. ASSUME NEW Q \in SUBSET Nat PROVE BatchCourse(Q)'
    <3>1. Recorded(Q)' /\ PlannerFollows(Q)'
      BY <1>12 DEF Recorded, PlannerFollows
    <3> QED
      BY <1>1, <1>7, <3>1 DEF BatchCourse
  <2>2. BatchInv'
    BY <1>1, <1>2, <1>4, <1>5, <1>6, <1>8, <1>12 DEF BatchInv, SourceTurn
  <2> QED
    BY <1>1, <1>4, <1>5, <1>10, <2>1, <2>2, BatchNext
<1> QED
  BY <1>4, <1>11, <1>12

\* What encode_pcm decides.
LEMMA BatchAnswers ==
    ASSUME RepeatInv
    PROVE  SameDecisionsOnSameTail /\ StreamDecidesNoLess
<1>1. StreamDecidesNoLess
  <2>1. CASE turn = "batch" /\ pc = "tail"
    <3>1. BatchInv
      BY <2>1, BatchState
    <3>2. training = Long
      BY <2>1, <3>1 DEF BatchInv, SourceTurn
    <3> QED
      BY <2>1, <3>2, TailPrefix DEF StreamDecidesNoLess
  <2>2. CASE turn = "batch" /\ pc = "tailIngest"
    BY <2>2, BatchState DEF BatchInv
  <2> QED
    BY <2>1, <2>2 DEF StreamDecidesNoLess
<1>2. SameDecisionsOnSameTail
  <2> SUFFICES ASSUME turn = "batch", pc = "done", training = answer.training
               PROVE  modes = answer.modes /\ plans = answer.plans /\ codes = answer.codes
    BY DEF SameDecisionsOnSameTail
  <2>1. /\ BatchInv /\ AnswerInv /\ heard \in Seq(FlagWords)
        /\ queue = QueueOf(heard, quanta)
        /\ \A Q \in SUBSET Nat : BatchCourse(Q)
        /\ total \in Nat /\ quanta \in Nat
    BY BatchState
  <2>2. /\ total = answer.total /\ Reached <= LongHalf + answer.total + BatchTail
        /\ total <= previousCenter /\ plans \in Seq(PlanRecords)
        /\ Len(plans) = Len(modes) /\ SessionSound
    BY <2>1 DEF BatchInv
  <2>3. Known1 \in SUBSET Nat /\ Agrees(Known1) /\ Complete(Known1, answer)
    BY <2>1, <2>2, BatchKnown DEF AnswerInv
  <2>4. PICK Q \in SUBSET Nat : Q = Known1
    BY <2>3
  <2>5. /\ Complete(Q, answer) /\ Follows(Q) /\ Recorded(Q)
    BY <2>1, <2>3, <2>4 DEF BatchCourse
  <2> DEFINE n == Len(modes)
  <2>6. /\ modes \in Seq(Modes) /\ codes \in Seq(0 .. 3) /\ Len(codes) = n
    BY <2>2 DEF SessionSound, SessionTypeOK
  <2>7. Settled
    BY DEF Settled
  <2>8. \A k \in 1 .. n : plans[k] = PlanOf(Q, k, k = n) /\ codes[k] = CodeOf(Q, k, k = n)
    BY <2>2, <2>5, <2>6, <2>7 DEF Recorded
  <2>9. total <= Course(Q)[n].prev
    BY <2>2, <2>5 DEF Follows, At
  <2>10. Decided(Q, total, Result)
    BY <2>2, <2>5, <2>6, <2>8, <2>9 DEF Decided, Result, Follows
  <2>11. Decided(Q, total, answer)
    BY <2>2, <2>5 DEF Complete
  <2> DEFINE r == Result
  <2>12. r.modes = modes /\ r.plans = plans /\ r.codes = codes
    BY DEF Result
  <2>13. Decided(Q, total, r)
    BY <2>10
  <2> HIDE DEF r
  <2>14. r.modes = answer.modes /\ r.plans = answer.plans /\ r.codes = answer.codes
    BY <2>1, <2>11, <2>13, DecidedSame
  <2> QED
    BY <2>12, <2>14
<1> QED
  BY <1>1, <1>2

\* A step of encode_pcm.
LEMMA BatchStepKeeps ==
    ASSUME RepeatInv, BatchStep
    PROVE  RepeatInv'
<1>1. /\ turn = "batch" /\ UNCHANGED turnVars
      /\ Batch!EncodePcm(answer.total) \/ Batch!Run
  BY DEF BatchStep
<1>2. CASE Batch!EncodePcm(answer.total)
  BY <1>1, <1>2, EncodePcmKeeps
<1>3. CASE Batch!QuantaIngested
  BY <1>1, <1>3, QuantaIngestedKeeps
<1>4. CASE Batch!ScanMode
  BY <1>1, <1>4, ScanModeKeeps
<1>5. CASE Batch!SourceScanned
  BY <1>1, <1>5, SourceScannedKeeps
<1>6. CASE Batch!ComputeTail
  BY <1>1, <1>6, ComputeTailKeeps
<1>7. CASE Batch!FinalizeTerminal
  BY <1>1, <1>7, FinalizeKeeps
<1>8. CASE Batch!PlanBlock
  BY <1>1, <1>8, PlanBlockKeeps
<1>9. CASE Batch!EncodeFrames
  BY <1>1, <1>9, EncodeFramesKeeps
<1> QED
  BY <1>1, <1>2, <1>3, <1>4, <1>5, <1>6, <1>7, <1>8, <1>9 DEF Batch!Run

\* Between the steps.
LEMMA RepeatStill ==
    ASSUME RepeatInv, UNCHANGED repeatVars
    PROVE  RepeatInv'
<1>1. /\ UNCHANGED vars /\ turn' = turn /\ heard' = heard /\ answer' = answer
  BY DEF repeatVars, turnVars
<1>2. /\ UNCHANGED sessionVars
      /\ quanta' = quanta /\ queue' = queue /\ selected' = selected
      /\ scanCursor' = scanCursor /\ nextCenter' = nextCenter
      /\ previousCenter' = previousCenter /\ previousMode' = previousMode
      /\ currentMode' = currentMode /\ codes' = codes /\ pc' = pc
      /\ total' = total /\ training' = training /\ modes' = modes
      /\ planner' = planner /\ plans' = plans /\ frames' = frames
  BY <1>1 DEF vars, sessionVars, selectorVars, cursorVars, streamVars, feederVars, planVars
<1>3. turn = "batch" => RepeatInv'
  <2> SUFFICES ASSUME turn = "batch" PROVE RepeatInv'
    OBVIOUS
  <2>1. /\ BatchInv /\ total \in Nat
        /\ SourceTurn \/ training = answer.training => queue = QueueOf(heard, quanta)
        /\ \A Q \in SUBSET Nat : BatchCourse(Q)
    BY BatchState
  <2>2. ASSUME NEW Q \in SUBSET Nat
        PROVE  BatchCourse(Q)' /\ SessionSound' = SessionSound
    <3>1. /\ Agrees(Q)' <=> Agrees(Q)
          /\ Follows(Q) => Follows(Q)'
          /\ SessionSound' = SessionSound
      <4>1. modes \in Seq(Modes) /\ total \in Int /\ total' \in Int /\ total <= total'
        BY <1>2, <2>1 DEF BatchInv, SessionSound
      <4> QED
        BY <1>2, <4>1, StillFollows
    <3>2. Recorded(Q) => Recorded(Q)'
      BY <1>2 DEF Recorded, Settled
    <3>3. PlannerFollows(Q) => PlannerFollows(Q)'
      BY <1>2 DEF PlannerFollows
    <3> QED
      BY <2>1, <3>1, <3>2, <3>3 DEF BatchCourse
  <2>3. SourceTurn' = SourceTurn /\ Reached' = Reached
    BY <1>2 DEF SourceTurn, Reached
  <2>4. StreamDecidesNoLess => StreamDecidesNoLess'
    BY <1>1, <1>2 DEF StreamDecidesNoLess
  <2>5. SessionSound'
    BY <2>1, <2>2 DEF BatchInv
  <2>6. BatchInv'
    BY <1>1, <1>2, <2>1, <2>3, <2>4, <2>5 DEF BatchInv
  <2> QED
    BY <1>1, <1>2, <2>1, <2>2, <2>3, <2>6, BatchNext DEF turnVars
<1>4. turn # "batch" => RepeatInv'
  <2> SUFFICES ASSUME turn # "batch" PROVE RepeatInv'
    OBVIOUS
  <2>1. /\ StreamInv /\ FramesFollow /\ turn \in {"stream", "again"}
        /\ heard \in Seq(FlagWords)
        /\ turn = "stream" => FirstInv
        /\ turn = "again" => AgainInv /\ AnswerInv
        /\ \A Q \in SUBSET Nat : StreamCourse(Q)
    BY DEF RepeatInv, IsTurn, CourseInv, StreamCourse
  <2>2. StreamInv'
    BY <1>1, <2>1, StepKeeps
  <2>3. FramesFollow'
    BY <1>2, <2>1 DEF FramesFollow
  <2>4. ASSUME NEW Q \in SUBSET Nat PROVE StreamCourse(Q)'
    <3>1. /\ Agrees(Q)' <=> Agrees(Q)
          /\ Follows(Q) => Follows(Q)'
      <4>1. modes \in Seq(Modes) /\ total \in Int /\ total' \in Int /\ total <= total'
        BY <1>2, <2>1, StreamIsSound DEF SessionSound
      <4> QED
        BY <1>2, <4>1, StillFollows
    <3>2. Recorded(Q) => Recorded(Q)'
      BY <1>2 DEF Recorded, Settled
    <3>3. TailFollows(Q) => TailFollows(Q)'
      BY <1>2 DEF TailFollows
    <3> QED
      BY <2>1, <3>1, <3>2, <3>3 DEF StreamCourse
  <2>5. FirstInv => FirstInv'
    BY <1>1, <1>2 DEF FirstInv
  <2>6. AgainInv => AgainInv'
    BY <1>1, <1>2 DEF AgainInv
  <2>7. AnswerInv => AnswerInv'
    BY <1>1 DEF AnswerInv, Known1
  <2> QED
    BY <1>1, <2>1, <2>2, <2>3, <2>4, <2>5, <2>6, <2>7
       DEF RepeatInv, IsTurn, CourseInv, StreamCourse
<1> QED
  BY <1>3, <1>4

-----------------------------------------------------------------------------
\* The inductive invariant: each conversion follows the course of what is heard,
\* and the answer kept is the course's, whatever the detector hears of a source
\* of any length and however it is pushed (the pushes and finish of stream.rs:341-449,
\* select_modes at session.rs:512-608).
THEOREM RepeatInvHolds == RepeatSpec => []RepeatInv
<1>1. RepeatInit => RepeatInv
  BY RepeatStarts
<1>2. RepeatInv /\ [RepeatNext]_repeatVars => RepeatInv'
  <2> SUFFICES ASSUME RepeatInv, [RepeatNext]_repeatVars PROVE RepeatInv'
    OBVIOUS
  <2>1. ASSUME NEW flags \in FlagWords,
               Hear(flags) \/ HearAgain(flags) \/ HearBatch(flags)
        PROVE  RepeatInv'
    BY <2>1, HearKeeps, HearAgainKeeps, HearBatchKeeps
  <2>2. CASE StreamStep
    BY <2>2, StreamStepFollows
  <2>3. CASE Repeat
    BY <2>3, RepeatKeeps
  <2>4. CASE AgainStep
    BY <2>4, AgainStepKeeps
  <2>5. CASE BatchStep
    BY <2>5, BatchStepKeeps
  <2>6. CASE UNCHANGED repeatVars
    BY <2>6, RepeatStill
  <2> QED
    BY <2>1, <2>2, <2>3, <2>4, <2>5, <2>6 DEF RepeatNext
<1> QED
  BY <1>1, <1>2, PTL DEF RepeatSpec

\* Chunk boundaries never affect the answer: a source the first stream has
\* answered is answered by another one, pushed in any other chunks, with the
\* same frames; it is neither refused nor does it fail (stream.rs:46-48).
THEOREM AnyChunking == RepeatSpec => []ChunkingNeverMatters
<1>1. RepeatInv => ChunkingNeverMatters
  BY AgainAnswers
<1> QED
  BY <1>1, RepeatInvHolds, PTL

\* encode_pcm chooses the modes, plans and codes of the stream for every source
\* whose tail is predicted from the same window (stream.rs:214-235, "the batch
\* select_modes body", session.rs:552-606).
THEOREM DecidedAlike == RepeatSpec => []SameDecisionsOnSameTail
<1>1. RepeatInv => SameDecisionsOnSameTail
  BY BatchAnswers
<1> QED
  BY <1>1, RepeatInvHolds, PTL

\* Where its source decides no more, the stream has decided all encode_pcm has
\* then, and the same; its predictor is trained on no more samples
\* (stream.rs:75-83, session.rs:552-562).
THEOREM StreamAhead == RepeatSpec => []StreamDecidesNoLess
<1>1. RepeatInv => StreamDecidesNoLess
  BY BatchAnswers
<1> QED
  BY <1>1, RepeatInvHolds, PTL

=============================================================================
