------------------------ MODULE StreamEncode_proofs ------------------------
(***************************************************************************)
(* A streaming encode session never answers an internal error, hears every *)
(* quantum, decides whatever it scans, keeps the timelines of selector,    *)
(* planner and decoder together and ends where the source ends: for a      *)
(* source of any length, pushed in any chunks, whatever the detector hears.*)
(*                                                                         *)
(* StreamInv is the inductive invariant.  Lengths are counted in quarters  *)
(* of a block, the unit the centres move by.                               *)
(***************************************************************************)
EXTENDS StreamEncode, NaturalLemmas, SequenceTheorems

\* A quarter of a block of a mode.
Quarter(mode) == BlockSize(mode) \div 4

\* The values of plans, frames and the planner's state.
PlanRecords == [index : Nat, previous : Modes, current : Modes,
                following : Modes, start : Int, end : Int]

FrameRecords == [plan : PlanRecords, past : [trained : Nat, predicted : Int],
                 code : 0 .. 3]

PlannerStates == [previous : Modes, current : Modes, cursor : Nat,
                  filled : Int, base : Nat, emitted : Nat]

\* The types the steps preserve, TypeOK with the records spelled out.
Typed ==
    /\ SessionTypeOK
    /\ pc \in {"idle", "ingest", "pump", "drain", "tail", "tailIngest",
               "tailScan", "flush", "done", "refused"}
    /\ total \in 0 .. MaxFrames /\ retained \in 0 .. total
    /\ extracted \in Nat /\ training \in 0 .. Long
    /\ modes \in Seq(Modes) /\ plans \in Seq(PlanRecords)
    /\ frames \in Seq(FrameRecords)
    /\ planner \in PlannerStates
    /\ pending \in Nat \cup {NoCentre}
    /\ handed \in Nat

\* No plan is made any more.
Planned == pc \in {"flush", "done"}

\* The centre of the block the next plan is of.
Upcoming == IF pending = NoCentre THEN nextCenter ELSE pending

\* What goes with each place in a call.
CallInv ==
    /\ pc \in {"idle", "ingest", "refused"} =>
          pending = NoCentre /\ Len(frames) = Len(plans) /\ handed = Len(frames)
    /\ pc \in {"idle", "refused"} /\ Primed => total < nextCenter + Lookahead
    /\ pc \in {"drain", "tail", "tailIngest", "tailScan", "flush", "done"} => Primed
    /\ IF pc \in {"tailIngest", "tailScan", "flush", "done"}
       THEN training # NoTail ELSE training = NoTail
    /\ pc \notin {"ingest", "tailIngest"} => ~QuantumComplete
    /\ pc = "pump" =>
          /\ pending # NoCentre => Primed /\ pending + Lookahead <= total
          /\ \A k \in Len(frames) + 1 .. Len(plans) :
                Primed /\ CentreOf(plans[k]) + Lookahead <= total
    /\ pc = "done" => Len(frames) = Len(plans)
    /\ handed <= Len(frames) /\ Len(frames) <= Len(plans)

\* The selector hears what the feeder hands out, and scans ahead of the block
\* it decides, on whole hops.
SelectorInv ==
    /\ quanta = extracted
    /\ quanta # 0 => quanta * Hop + Hop <= DetectorStream
    /\ scanCursor % Hop = 0 /\ nextCenter % Hop = 0
    /\ scanCursor < Boundary
    /\ pc \in {"idle", "ingest", "pump", "drain", "tail"} =>
          \/ nextCenter = 0
          \/ nextCenter + 2 * Hop <= total + Long \div 4 + Short \div 4

\* Modes, codes, the pending centre and the two timelines go together.
TimelineInv ==
    /\ Len(codes) = Len(modes)
    /\ Len(modes) = Len(plans) + IF pending = NoCentre THEN 0 ELSE 1
    /\ IF modes = <<>>
       THEN previousCenter = -1 /\ nextCenter = 0 /\ currentMode = 0
       ELSE /\ previousMode = modes[Len(modes)]
            /\ previousCenter >= 0
            /\ nextCenter = previousCenter + Quarter(previousMode)
                                           + Quarter(currentMode)
    /\ pending # NoCentre => pending = previousCenter
    /\ planner.cursor = LongHalf
    /\ plans = <<>> => Upcoming = 0 /\ planner = FreshPlanner(0)
    /\ ~Planned =>
          /\ planner.base = Upcoming /\ planner.emitted = Len(plans)
          /\ plans # <<>> =>
                planner.current = IF pending = NoCentre THEN currentMode
                                  ELSE modes[Len(modes)]
    /\ Planned => pending = NoCentre

\* Plan k follows plan k - 1 in number, mode and centre.
InSequence(k) ==
    /\ plans[k].index = k - 1
    /\ plans[k].start = CentreOf(plans[k]) + LongHalf - 2 * Quarter(plans[k].current)
    /\ plans[k].end = plans[k].start + BlockSize(plans[k].current)
    /\ IF k = 1 THEN CentreOf(plans[k]) = 0
       ELSE /\ plans[k].previous = plans[k - 1].current
            /\ plans[k].current = plans[k - 1].following
            /\ CentreOf(plans[k]) = CentreOf(plans[k - 1])
                  + Quarter(plans[k - 1].current) + Quarter(plans[k].current)

\* The planner goes on from plan k.
GoesOnFrom(k) ==
    /\ planner.previous = plans[k].current
    /\ planner.current = plans[k].following
    /\ planner.base = CentreOf(plans[k]) + Quarter(plans[k].current)
                                         + Quarter(plans[k].following)

\* The plans follow each other, and the frames are those of the first plans.
PlansInv ==
    /\ \A k \in 1 .. Len(plans) : InSequence(k)
    /\ ~Planned /\ plans # <<>> => GoesOnFrom(Len(plans))
    /\ \A k \in 1 .. Len(frames) : frames[k].plan = plans[k]

\* Samples of the source the ring has let go.
Evicted == total - retained

\* The ring holds what quanta and frames to come are built from.
RingInv ==
    /\ retained >= Least(total, RingKeep)
    /\ Evicted <= Greatest(extracted * Hop - LongHalf, 0)
    /\ ~Planned => Evicted <= Greatest(Upcoming - LongHalf, 0)
    /\ \A k \in Len(frames) + 1 .. Len(plans) :
          Evicted <= Greatest(CentreOf(plans[k]) - LongHalf, 0)

\* Only the last plan is centred at or past the end of the source.
EndInv ==
    /\ ~Planned =>
          /\ \A k \in 1 .. Len(plans) : CentreOf(plans[k]) < total
          /\ pending = NoCentre => previousCenter < total
    /\ Planned =>
          /\ plans # <<>>
          /\ \A k \in 1 .. Len(plans) :
                CentreOf(plans[k]) >= total <=> k = Len(plans)

\* Plan k of those that had to wait for finish is centred no further before
\* the end than the look-ahead, less a half of a short block for each before it.
Deferred(centre, k) ==
    total - Lookahead + 1 + (k - handed - 1) * (Short \div 2) <= centre

DeferInv ==
    pc \in {"drain", "tail", "tailIngest", "tailScan", "flush", "done"} =>
        /\ \A k \in handed + 1 .. Len(plans) : Deferred(CentreOf(plans[k]), k)
        /\ ~Planned => Deferred(Upcoming, Len(plans) + 1)

StreamInv ==
    /\ Typed /\ CallInv /\ SelectorInv /\ TimelineInv /\ PlansInv
    /\ RingInv /\ EndInv /\ DeferInv

-----------------------------------------------------------------------------
(* Products and multiples. *)

\* Multiples of a positive number are ordered as their factors.
LEMMA TimesMonotone ==
    ASSUME NEW a \in Int, NEW b \in Int, NEW h \in Nat, 0 < h
    PROVE  a <= b <=> a * h <= b * h
<1>1. ASSUME a <= b PROVE a * h <= b * h
  <2>1. PICK d \in Nat : b = a + d
    BY <1>1
  <2>2. b * h = a * h + d * h /\ 0 <= d * h
    BY <2>1
  <2> QED
    BY <2>2
<1>2. ASSUME b < a PROVE b * h < a * h
  <2>1. PICK d \in Nat : a = b + 1 + d
    BY <1>2
  <2>2. a * h = b * h + h + d * h /\ 0 <= d * h
    BY <2>1
  <2> QED
    BY <2>2
<1>3. a * h \in Int /\ b * h \in Int
  OBVIOUS
<1> QED
  BY <1>1, <1>2, <1>3

\* What leaves no remainder is a multiple.
LEMMA WholeHops ==
    ASSUME NEW x \in Int, NEW h \in Nat, 0 < h
    PROVE  x % h = 0 <=> \E k \in Int : x = k * h
<1>1. ASSUME x % h = 0 PROVE \E k \in Int : x = k * h
  <2>1. x = h * (x \div h) + (x % h) /\ x \div h \in Int
    OBVIOUS
  <2> QED
    BY <1>1, <2>1
<1>2. ASSUME NEW k \in Int, x = k * h PROVE x % h = 0
  <2>1. x = h * (x \div h) + (x % h) /\ x \div h \in Int /\ x % h \in 0 .. h - 1
    OBVIOUS
  <2> DEFINE q == x \div h
  <2>2. x % h = (k - q) * h
    BY <1>2, <2>1
  <2>3. k - q <= 0
    BY <2>1, <2>2
  <2>4. k - q >= 0
    BY <2>1, <2>2
  <2> QED
    BY <2>2, <2>3, <2>4, <2>1
<1> QED
  BY <1>1, <1>2

-----------------------------------------------------------------------------
(* The sizes of blocks and of the stream. *)

\* Both block sizes, and half a long block, in quarters.
LEMMA Sizes ==
    /\ Quarter(0) \in Nat /\ Quarter(1) \in Nat
    /\ 0 < Quarter(0) /\ 2 * Quarter(0) <= Quarter(1)
    /\ Short = 4 * Quarter(0) /\ Long = 4 * Quarter(1)
    /\ LongHalf = 2 * Quarter(1)
    /\ Short \div 4 = Quarter(0) /\ Long \div 4 = Quarter(1)
    /\ Short \div 2 = 2 * Quarter(0)
<1>1. Quarter(0) = Short \div 4 /\ Quarter(1) = Long \div 4
  BY DEF Quarter, BlockSize
<1>2. /\ Short \in Nat /\ Long \in Nat /\ 0 < Short /\ 2 * Short <= Long
      /\ Short = 4 * (Short \div 4) /\ Long = 4 * (Long \div 4)
      /\ Short \div 4 \in Nat /\ Long \div 4 \in Nat
  BY BlockSizesAssumption, GeometryAssumption
<1>3. Short \div 2 = 2 * (Short \div 4) /\ Long \div 2 = 2 * (Long \div 4)
  BY <1>2
<1> QED
  BY <1>1, <1>2, <1>3 DEF LongHalf

\* The size of a block of a mode, in quarters.
LEMMA BlockQuarter ==
    ASSUME NEW mode \in Modes
    PROVE  /\ Quarter(mode) \in Nat
           /\ Quarter(mode) = Quarter(0) \/ Quarter(mode) = Quarter(1)
           /\ Quarter(0) <= Quarter(mode) /\ Quarter(mode) <= Quarter(1)
           /\ BlockSize(mode) = 4 * Quarter(mode)
           /\ BlockSize(mode) \div 4 = Quarter(mode)
           /\ BlockSize(mode) \div 2 = 2 * Quarter(mode)
<1>1. mode = 0 \/ mode = 1
  BY DEF Modes
<1>2. BlockSize(0) = Short /\ BlockSize(1) = Long
  BY DEF BlockSize
<1>3. /\ Quarter(0) \in Nat /\ Quarter(1) \in Nat
      /\ 0 < Quarter(0) /\ 2 * Quarter(0) <= Quarter(1)
      /\ Short = 4 * Quarter(0) /\ Long = 4 * Quarter(1)
  BY Sizes
<1>4. BlockSize(mode) \div 4 = Quarter(mode)
  BY DEF Quarter
<1>5. BlockSize(mode) = 4 * Quarter(mode)
  BY <1>1, <1>2, <1>3
<1>6. Quarter(mode) \in Nat
  BY <1>1, <1>3
<1>7. BlockSize(mode) \div 2 = 2 * Quarter(mode)
  BY <1>5, <1>6
<1> QED
  BY <1>1, <1>3, <1>4, <1>5, <1>6, <1>7

\* The bounds of GeometryAssumption in quarters.
LEMMA Bounds ==
    /\ Hop \in Nat /\ 0 < Hop
    /\ MinFrames \in Nat /\ Lookahead \in Nat /\ RingKeep \in Nat
    /\ StreamTail \in Nat /\ TailContext \in Nat /\ MaxFrames \in Nat
    /\ Long <= MinFrames /\ MinFrames <= RingKeep
    /\ 3 * Quarter(1) + Quarter(0) + 3 * Hop <= Lookahead
    /\ Lookahead + 2 * Quarter(1) <= RingKeep
    /\ TailContext + Quarter(0) < Quarter(1) + 2 * Hop /\ TailContext < Long
    /\ Hop <= 2 * Quarter(1) /\ 0 < Lookahead
<1>1. Hop <= LongHalf
  <2>1. LongHalf \in Nat /\ 0 < LongHalf
    BY Sizes
  <2>2. PICK k \in Int : LongHalf = k * Hop
    BY <2>1, WholeHops, HopAssumption
  <2>3. 1 <= k
    BY <2>1, <2>2, HopAssumption
  <2> QED
    BY <2>2, <2>3, TimesMonotone, HopAssumption
<1>2. /\ 3 * (Long \div 4) + Short \div 4 + 3 * Hop <= Lookahead
      /\ Lookahead + LongHalf <= RingKeep
      /\ TailContext + Short \div 4 < Long \div 4 + 2 * Hop /\ TailContext < Long
  BY GeometryAssumption
<1>3. /\ 3 * Quarter(1) + Quarter(0) + 3 * Hop <= Lookahead
      /\ Lookahead + 2 * Quarter(1) <= RingKeep
      /\ TailContext + Quarter(0) < Quarter(1) + 2 * Hop /\ TailContext < Long
      /\ Hop <= 2 * Quarter(1)
  BY <1>1, <1>2, Sizes
<1>4. 0 < Lookahead
  <2>1. Quarter(0) \in Nat /\ Quarter(1) \in Nat /\ Hop \in Nat /\ 0 < Hop
    BY Sizes, HopAssumption
  <2>2. Lookahead \in Nat
    BY StreamAssumption
  <2> QED
    BY <1>3, <2>1, <2>2
<1> QED
  BY <1>3, <1>4, HopAssumption, StreamAssumption

\* Every block's quarter is a number of whole hops.
LEMMA QuarterHops ==
    ASSUME NEW mode \in Modes
    PROVE  \E k \in Int : Quarter(mode) = k * Hop
<1>1. Quarter(0) % Hop = 0 /\ Quarter(1) % Hop = 0
  BY Sizes, GeometryAssumption
<1>2. Quarter(0) \in Int /\ Quarter(1) \in Int
  BY Sizes
<1>3. \E k \in Int : Quarter(0) = k * Hop
  BY <1>1, <1>2, WholeHops, HopAssumption
<1>4. \E k \in Int : Quarter(1) = k * Hop
  BY <1>1, <1>2, WholeHops, HopAssumption
<1>5. mode = 0 \/ mode = 1
  BY DEF Modes
<1> QED
  BY <1>3, <1>4, <1>5

\* A plan's centre, from where it starts.
LEMMA CentreInteger ==
    ASSUME NEW p \in PlanRecords
    PROVE  /\ CentreOf(p) \in Int /\ p.start \in Int
           /\ Quarter(p.current) \in Nat /\ Quarter(0) <= Quarter(p.current)
           /\ Quarter(p.current) <= Quarter(1)
           /\ CentreOf(p) = p.start - LongHalf + 2 * Quarter(p.current)
<1>1. p.start \in Int /\ p.current \in Modes
  BY DEF PlanRecords
<1>2. /\ BlockSize(p.current) \div 2 = 2 * Quarter(p.current)
      /\ Quarter(p.current) \in Nat /\ Quarter(0) <= Quarter(p.current)
      /\ Quarter(p.current) <= Quarter(1)
  BY <1>1, BlockQuarter
<1>3. LongHalf \in Nat
  BY Sizes
<1>4. CentreOf(p) = p.start - LongHalf + 2 * Quarter(p.current)
  BY <1>2 DEF CentreOf
<1> QED
  BY <1>1, <1>2, <1>3, <1>4

-----------------------------------------------------------------------------
(* The scan of the selector. *)

\* A number of whole hops.
Whole(x) == \E k \in Int : x = k * Hop

\* Sums and differences of whole hops are whole hops.
LEMMA WholeSum ==
    ASSUME NEW x \in Int, NEW y \in Int, Whole(x), Whole(y)
    PROVE  Whole(x + y) /\ Whole(x - y)
<1>1. PICK j \in Int : x = j * Hop
  BY DEF Whole
<1>2. PICK k \in Int : y = k * Hop
  BY DEF Whole
<1>3. x + y = (j + k) * Hop /\ x - y = (j - k) * Hop
  BY <1>1, <1>2, Bounds
<1>4. j + k \in Int /\ j - k \in Int
  OBVIOUS
<1> QED
  BY <1>3, <1>4 DEF Whole

\* Whole hops are what leaves no remainder.
LEMMA WholeRemainder ==
    ASSUME NEW x \in Int
    PROVE  Whole(x) <=> x % Hop = 0
  BY WholeHops, Bounds DEF Whole

\* What the scan compares with, in quarters.
LEMMA BoundaryValue ==
    ASSUME SessionTypeOK
    PROVE  /\ Center = nextCenter + 2 * Quarter(1)
           /\ Boundary = nextCenter + Quarter(currentMode) + 4 * Quarter(1)
                            + Quarter(0)
           /\ Boundary \in Nat
<1>1. currentMode \in Modes /\ nextCenter \in Nat
  BY DEF SessionTypeOK
<1> QED
  BY <1>1, BlockQuarter, Sizes DEF Boundary, Center

\* The boundary of a scan lies on a whole hop.
LEMMA BoundaryWhole ==
    ASSUME SessionTypeOK, nextCenter % Hop = 0
    PROVE  Whole(Boundary)
<1> DEFINE a == Quarter(currentMode)
           b == Quarter(0)
           c == Quarter(1)
<1>1. /\ nextCenter \in Nat /\ a \in Nat /\ b \in Nat /\ c \in Nat
      /\ currentMode \in Modes
  BY Sizes, BlockQuarter DEF SessionTypeOK
<1>2. Whole(nextCenter)
  BY <1>1, WholeRemainder
<1>3. Whole(a) /\ Whole(b) /\ Whole(c)
  BY <1>1, QuarterHops DEF Whole, Modes
<1> HIDE DEF a, b, c
<1>4. Whole(nextCenter + a)
  BY <1>1, <1>2, <1>3, WholeSum
<1>5. Whole((nextCenter + a) + b)
  BY <1>1, <1>3, <1>4, WholeSum
<1>6. Whole(c + c)
  BY <1>1, <1>3, WholeSum
<1>7. Whole((c + c) + (c + c))
  BY <1>1, <1>6, WholeSum
<1>8. Whole(((nextCenter + a) + b) + ((c + c) + (c + c)))
  BY <1>1, <1>5, <1>7, WholeSum
<1>9. Boundary = ((nextCenter + a) + b) + ((c + c) + (c + c))
  BY <1>1, BoundaryValue DEF a, b, c
<1> QED
  BY <1>8, <1>9

\* A scan of a block whose look-ahead has been received decides it: the
\* boundary itself is a position of the scan.
LEMMA LookaheadDecides ==
    ASSUME SessionTypeOK, quanta = extracted, total \in Nat, training \in Nat,
           scanCursor % Hop = 0, nextCenter % Hop = 0, scanCursor < Boundary,
           ~QuantumComplete, ScanSafe(nextCenter)
    PROVE  ~(Status < 0)
<1>1. /\ quanta \in Nat /\ scanCursor \in Nat /\ nextCenter \in Nat
      /\ currentMode \in Modes
  BY DEF SessionTypeOK
<1>2. /\ Quarter(1) \in Nat /\ Quarter(0) \in Nat /\ Quarter(currentMode) \in Nat
      /\ Quarter(currentMode) <= Quarter(1) /\ LongHalf = 2 * Quarter(1)
  BY <1>1, Sizes, BlockQuarter
<1>3. Boundary \in Nat /\ Whole(Boundary) /\ Whole(scanCursor)
  BY <1>1, BoundaryValue, BoundaryWhole, WholeRemainder
<1>4. PICK j \in Int : Boundary = j * Hop
  BY <1>3 DEF Whole
<1>5. DetectorStream >= LongHalf + total /\ DetectorStream \in Nat
  BY <1>2, Bounds DEF DetectorStream, ScanSafe, Primed
<1>6. quanta * Hop + 2 * Hop > LongHalf + total
  BY <1>1, <1>5, <1>2, Bounds DEF QuantumComplete, Window
<1>7. LongHalf + total >= Boundary + 3 * Hop
  BY <1>1, <1>2, BoundaryValue, Bounds DEF ScanSafe
<1>8. (j + 3) * Hop < (quanta + 2) * Hop
  BY <1>1, <1>2, <1>4, <1>6, <1>7, Bounds
<1>9. j + 3 < quanta + 2
  BY <1>1, <1>8, TimesMonotone, Bounds
<1>10. (j + 2) * Hop <= quanta * Hop
  BY <1>1, <1>9, TimesMonotone, Bounds
<1>11. Boundary + 2 * Hop <= Generated
  BY <1>1, <1>4, <1>10, Bounds DEF Generated
<1>12. Boundary \in scanCursor .. Limit - 1
  BY <1>1, <1>3, <1>11, Bounds DEF Limit, Generated
<1>13. (Boundary - scanCursor) % Hop = 0
  BY <1>1, <1>3, WholeSum, WholeRemainder
<1>14. Boundary \in Positions /\ Boundary \notin Visited
  BY <1>12, <1>13, <1>3 DEF Positions, Visited
<1> QED
  BY <1>14 DEF Status

\* Where a scan ends: on a whole hop, before the boundary of the block.
LEMMA ScanEnds ==
    ASSUME SessionTypeOK, scanCursor % Hop = 0, scanCursor < Boundary
    PROVE  /\ ScanEnd \in Nat /\ ScanEnd % Hop = 0 /\ ScanEnd < Boundary
           /\ Found \in Nat
<1>1. scanCursor \in Nat /\ selected \in Nat /\ Boundary \in Nat
  BY BoundaryValue DEF SessionTypeOK
<1>2. ASSUME NEW p \in Visited
      PROVE  p \in Nat /\ p % Hop = 0 /\ p < Boundary
  <2>1. p \in Nat /\ p < Boundary /\ (p - scanCursor) % Hop = 0
    BY <1>1, <1>2 DEF Visited, Positions
  <2>2. Whole(p - scanCursor) /\ Whole(scanCursor)
    BY <1>1, <2>1, WholeRemainder
  <2>3. Whole((p - scanCursor) + scanCursor)
    BY <1>1, <2>1, <2>2, WholeSum
  <2>4. (p - scanCursor) + scanCursor = p
    BY <1>1, <2>1
  <2> QED
    BY <2>1, <2>3, <2>4, WholeRemainder
<1>3. Visited \in SUBSET Nat /\ Hits \subseteq Visited
  BY <1>2 DEF Hits
<1>4. CASE Hits # {}
  <2>1. \E x \in Hits : \A y \in Hits : x <= y
    BY <1>3, <1>4, NatLeast
  <2>2. Min(Hits) \in Hits
    BY <2>1 DEF Min
  <2>3. ScanEnd = Min(Hits) /\ Found = Min(Hits)
    BY <1>4 DEF ScanEnd, Found
  <2> QED
    BY <1>2, <1>3, <2>2, <2>3
<1>5. CASE Hits = {} /\ Visited # {}
  <2>1. \A x \in Visited : x <= Boundary
    BY <1>1, <1>2
  <2>2. \E x \in Visited : \A y \in Visited : y <= x
    BY <1>1, <1>3, <1>5, <2>1, NatGreatest
  <2>3. \E x \in Visited : \A y \in Visited : x >= y
    BY <1>2, <2>2
  <2>4. Max(Visited) \in Visited
    BY <2>3 DEF Max
  <2>5. ScanEnd = Max(Visited) /\ Found = selected
    BY <1>5 DEF ScanEnd, Found
  <2> QED
    BY <1>1, <1>2, <2>4, <2>5
<1>6. CASE Hits = {} /\ Visited = {}
  BY <1>1, <1>6 DEF ScanEnd, Found
<1> QED
  BY <1>4, <1>5, <1>6

\* A scan that knows its answer has seen a slot past the centre, and, to answer
\* that no transient lies ahead, one at the boundary.
LEMMA ScanSees ==
    ASSUME SessionTypeOK, ~(Status < 0),
           NEW heard \in Nat, quanta # 0 => quanta * Hop + Hop <= heard
    PROVE  /\ Status = 0 => Center + 2 * Hop < heard
           /\ Status = 1 => Boundary + 2 * Hop < heard
           /\ Status \in {0, 1}
<1>1. quanta \in Nat /\ scanCursor \in Nat /\ nextCenter \in Nat
  BY DEF SessionTypeOK
<1>2. Center \in Nat /\ Boundary \in Nat
  BY <1>1, BoundaryValue, Sizes
<1>3. ASSUME NEW p \in Positions PROVE p \in Nat /\ p + 2 * Hop < heard
  <2>1. p \in Nat /\ p <= quanta * Hop - Hop - 1
    BY <1>1, <1>3, Bounds DEF Positions, Limit, Generated
  <2>2. quanta # 0
    BY <2>1, Bounds
  <2> QED
    BY <1>1, <2>1, <2>2, Bounds
<1>4. CASE Hits # {}
  <2>1. PICK p \in Positions : p > Center
    BY <1>4 DEF Hits, Visited
  <2>2. Center + 2 * Hop < heard
    BY <1>2, <1>3, <2>1, Bounds
  <2> QED
    BY <1>4, <2>2 DEF Status
<1>5. CASE Hits = {}
  <2>1. Positions # Visited /\ Status = 1
    BY <1>5 DEF Status
  <2>2. PICK p \in Positions : ~(p < Boundary)
    BY <2>1 DEF Visited
  <2>3. Boundary + 2 * Hop < heard
    BY <1>2, <1>3, <2>2, Bounds
  <2> QED
    BY <2>1, <2>3
<1> QED
  BY <1>4, <1>5

\* What a decision leaves of the cursor.
LEMMA DecisionMade ==
    ASSUME SessionTypeOK, scanCursor % Hop = 0, nextCenter % Hop = 0,
           scanCursor < Boundary, NEW eos \in BOOLEAN, Decide(eos)
    PROVE  /\ SessionTypeOK'
           /\ quanta' = quanta /\ queue' = queue
           /\ previousCenter' = nextCenter /\ previousMode' = currentMode
           /\ currentMode' \in Modes
           /\ nextCenter' = nextCenter + Quarter(currentMode) + Quarter(currentMode')
           /\ Len(codes') = Len(codes) + 1
           /\ scanCursor' % Hop = 0 /\ nextCenter' % Hop = 0
           /\ scanCursor' < Boundary'
<1>1. /\ quanta \in Nat /\ scanCursor \in Nat /\ nextCenter \in Nat
      /\ queue \in SUBSET Nat
      /\ currentMode \in Modes /\ previousMode \in Modes /\ codes \in Seq(0 .. 3)
  BY DEF SessionTypeOK
<1>2. PICK following \in Modes :
        /\ currentMode' = following
        /\ nextCenter' = nextCenter + BlockSize(currentMode) \div 4
                                    + BlockSize(following) \div 4
        /\ codes' = Append(codes, TransitionCode(following))
  BY DEF Decide, Modes
<1>3. /\ scanCursor' = ScanEnd /\ selected' = Found /\ previousCenter' = nextCenter
      /\ previousMode' = currentMode /\ quanta' = quanta /\ queue' = queue
  BY DEF Decide
<1>4. /\ ScanEnd \in Nat /\ ScanEnd % Hop = 0 /\ ScanEnd < Boundary
      /\ Found \in Nat
  BY ScanEnds
<1>5. TransitionCode(following) \in 0 .. 3
  BY DEF TransitionCode
<1>6. codes' \in Seq(0 .. 3) /\ Len(codes') = Len(codes) + 1
  BY <1>1, <1>2, <1>5, AppendProperties
<1>7. /\ Quarter(currentMode) \in Nat /\ Quarter(following) \in Nat
      /\ nextCenter' = nextCenter + Quarter(currentMode) + Quarter(following)
  BY <1>1, <1>2, BlockQuarter
<1>8. nextCenter' \in Nat
  BY <1>1, <1>7
<1>9. SessionTypeOK'
  BY <1>1, <1>2, <1>3, <1>4, <1>6, <1>8 DEF SessionTypeOK
<1>10. nextCenter' % Hop = 0
  <2>1. Whole(nextCenter)
    BY <1>1, WholeRemainder
  <2>2. Whole(Quarter(currentMode)) /\ Whole(Quarter(following))
    BY <1>1, QuarterHops DEF Whole
  <2>3. Whole(nextCenter + Quarter(currentMode))
    BY <1>1, <1>7, <2>1, <2>2, WholeSum
  <2>4. Whole((nextCenter + Quarter(currentMode)) + Quarter(following))
    BY <1>1, <1>7, <2>2, <2>3, WholeSum
  <2> QED
    BY <1>7, <1>8, <2>4, WholeRemainder
<1>11. scanCursor' < Boundary'
  <2>1. Boundary' = BlockSize(following) \div 4 + (nextCenter' + LongHalf)
                      + LongHalf + Short \div 4
    BY <1>2 DEF Boundary, Center
  <2>2. Boundary' = nextCenter' + Quarter(following) + 4 * Quarter(1) + Quarter(0)
    <3>1. BlockSize(following) \div 4 = Quarter(following)
      BY BlockQuarter
    <3>2. Quarter(0) \in Nat /\ Quarter(1) \in Nat
      BY Sizes
    <3> QED
      BY <1>7, <1>8, <2>1, <3>1, <3>2, Sizes
  <2>3. /\ Boundary = nextCenter + Quarter(currentMode) + 4 * Quarter(1) + Quarter(0)
        /\ Boundary \in Nat
    BY BoundaryValue
  <2>4. Quarter(0) \in Nat /\ Quarter(1) \in Nat
    BY Sizes
  <2>5. Boundary <= Boundary'
    <3>1. nextCenter \in Nat
      BY <1>1
    <3> QED
      BY <1>7, <2>2, <2>3, <2>4, <3>1
  <2>6. scanCursor' \in Nat /\ scanCursor' < Boundary
    BY <1>3, <1>4
  <2>7. Boundary' \in Nat
    BY <1>7, <1>8, <2>2, <2>4
  <2> QED
    BY <2>3, <2>5, <2>6, <2>7
<1> QED
  BY <1>2, <1>3, <1>4, <1>6, <1>7, <1>9, <1>10, <1>11

\* A decision the source alone made is not far ahead of what was heard.
LEMMA DecidedBehind ==
    ASSUME SessionTypeOK, ~(Status < 0), Decide(FALSE), currentMode' \in Modes,
           nextCenter' = nextCenter + Quarter(currentMode) + Quarter(currentMode'),
           total \in Nat, quanta # 0 => quanta * Hop + Hop <= LongHalf + total
    PROVE  nextCenter' + 2 * Hop <= total + Quarter(1) + Quarter(0)
<1>1. /\ nextCenter \in Nat /\ currentMode \in Modes
      /\ Quarter(0) \in Nat /\ Quarter(1) \in Nat /\ Quarter(currentMode) \in Nat
      /\ Quarter(currentMode) <= Quarter(1) /\ LongHalf = 2 * Quarter(1)
  BY Sizes, BlockQuarter DEF SessionTypeOK
<1>2. LongHalf + total \in Nat
  BY <1>1
<1>3. /\ Status = 0 => Center + 2 * Hop < LongHalf + total
      /\ Status = 1 => Boundary + 2 * Hop < LongHalf + total
      /\ Status \in {0, 1}
  BY <1>2, ScanSees
<1>4. currentMode' = IF Status = 1 THEN 1 ELSE 0
  BY DEF Decide
<1> QED
  BY <1>1, <1>3, <1>4, BoundaryValue, Bounds

-----------------------------------------------------------------------------
(* The planner. *)

\* One block of the planner, from any state at rest: what is planned, that it
\* is not rejected, and the state after it.
LEMMA BlockPlanned ==
    ASSUME NEW state \in PlannerStates, state.cursor = LongHalf,
           NEW following \in Modes,
           NEW plan, plan = FramePlan(state, following),
           NEW fed, fed = AppendSamples(state, following),
           NEW after, after = AfterBlock(fed, following)
    PROVE  /\ plan \in PlanRecords
           /\ plan.index = state.emitted /\ plan.previous = state.previous
           /\ plan.current = state.current /\ plan.following = following
           /\ CentreOf(plan) = state.base
           /\ plan.start = CentreOf(plan) + LongHalf - 2 * Quarter(plan.current)
           /\ plan.end = plan.start + BlockSize(plan.current)
           /\ ~Rejected(fed, following)
           /\ after \in PlannerStates
           /\ after.previous = state.current /\ after.current = following
           /\ after.cursor = LongHalf /\ after.emitted = state.emitted + 1
           /\ after.base = state.base + Quarter(state.current) + Quarter(following)
<1> DEFINE mode == state.current
<1>1. /\ mode \in Modes /\ state.previous \in Modes /\ state.base \in Nat
      /\ state.emitted \in Nat /\ state.filled \in Int
  BY DEF PlannerStates
<1>2. /\ Quarter(mode) \in Nat /\ 0 < Quarter(mode)
      /\ BlockSize(mode) = 4 * Quarter(mode)
      /\ BlockSize(mode) \div 4 = Quarter(mode)
      /\ BlockSize(mode) \div 2 = 2 * Quarter(mode)
  BY <1>1, BlockQuarter, Sizes
<1>3. /\ Quarter(following) \in Nat /\ 0 < Quarter(following)
      /\ BlockSize(following) \div 4 = Quarter(following)
      /\ BlockSize(following) \div 2 = 2 * Quarter(following)
  BY BlockQuarter, Sizes
<1>4. LongHalf \in Nat
  BY Sizes
<1>5. plan = [index |-> state.emitted, previous |-> state.previous,
              current |-> mode, following |-> following,
              start |-> state.base + LongHalf - 2 * Quarter(mode),
              end |-> state.base + LongHalf - 2 * Quarter(mode) + 4 * Quarter(mode)]
  BY <1>1, <1>2, <1>4 DEF FramePlan, SampleStart
<1>6. /\ state.base + LongHalf - 2 * Quarter(mode) \in Int
      /\ state.base + LongHalf - 2 * Quarter(mode) + 4 * Quarter(mode) \in Int
  BY <1>1, <1>2, <1>4
<1>7. plan \in PlanRecords
  BY <1>1, <1>5, <1>6 DEF PlanRecords
<1>8. CentreOf(plan) = state.base
  BY <1>1, <1>2, <1>4, <1>5 DEF CentreOf
<1>9. RequiredSamples(state, following)
        = LongHalf + Quarter(following) + Quarter(mode) + 2 * Quarter(following)
  BY <1>1, <1>2, <1>3, <1>4 DEF RequiredSamples
<1> DEFINE need == LongHalf + Quarter(following) + Quarter(mode) + 2 * Quarter(following)
<1>10. need \in Int
  BY <1>2, <1>3, <1>4
<1>11. /\ fed = [state EXCEPT !.filled = Greatest(state.filled, need)]
       /\ Greatest(state.filled, need) \in Int
       /\ Greatest(state.filled, need) >= need
  BY <1>1, <1>9, <1>10 DEF AppendSamples, Greatest
<1>12. /\ fed.cursor = LongHalf /\ fed.current = mode /\ fed.base = state.base
       /\ fed.emitted = state.emitted /\ fed.filled = Greatest(state.filled, need)
  BY <1>11 DEF PlannerStates
<1>13. RequiredSamples(fed, following) = need
  BY <1>2, <1>3, <1>4, <1>12 DEF RequiredSamples
<1>14. Advance(fed, following) = Quarter(following) + Quarter(mode)
  BY <1>2, <1>3, <1>4, <1>12 DEF Advance
<1>15. ~Rejected(fed, following)
  BY <1>2, <1>3, <1>10, <1>11, <1>12, <1>13, <1>14 DEF Rejected
<1>16. after = [previous |-> mode, current |-> following, cursor |-> LongHalf,
                filled |-> Greatest(state.filled, need)
                              - (Quarter(following) + Quarter(mode)),
                base |-> state.base + (Quarter(following) + Quarter(mode)),
                emitted |-> state.emitted + 1]
  BY <1>12, <1>14 DEF AfterBlock
<1>17. after \in PlannerStates
  BY <1>1, <1>2, <1>3, <1>4, <1>11, <1>16 DEF PlannerStates
<1> QED
  BY <1>1, <1>2, <1>3, <1>4, <1>5, <1>7, <1>8, <1>15, <1>16, <1>17

\* A sequence one element longer.
LEMMA Appended ==
    ASSUME NEW S, NEW s \in Seq(S), NEW e \in S, NEW t, t = Append(s, e)
    PROVE  /\ t \in Seq(S) /\ Len(t) = Len(s) + 1 /\ t # <<>>
           /\ \A k \in 1 .. Len(s) : t[k] = s[k]
           /\ t[Len(s) + 1] = e
  BY AppendProperties

\* The planner's state for the next plan, the first one's included.
LEMMA PlannerReady ==
    ASSUME Typed, TimelineInv, ~Planned, pending # NoCentre
    PROVE  /\ PlannerState \in PlannerStates
           /\ PlannerState.cursor = LongHalf
           /\ PlannerState.base = pending /\ PlannerState.emitted = Len(plans)
           /\ PlannerState.current = modes[Len(plans) + 1]
           /\ modes[Len(plans) + 1] \in Modes /\ Len(modes) = Len(plans) + 1
           /\ plans # <<>> => PlannerState = planner
<1>1. modes \in Seq(Modes) /\ plans \in Seq(PlanRecords) /\ planner \in PlannerStates
  BY DEF Typed
<1>2. Len(modes) = Len(plans) + 1 /\ Len(modes) \in Nat /\ Len(plans) \in Nat
  BY <1>1, LenProperties DEF TimelineInv
<1>3. modes[Len(plans) + 1] \in Modes
  BY <1>1, <1>2, ElementOfSeq
<1>4. CASE plans # <<>>
  BY <1>1, <1>2, <1>3, <1>4 DEF TimelineInv, PlannerState, Upcoming
<1>5. CASE plans = <<>>
  <2>1. Len(plans) = 0
    BY <1>5
  <2>2. PlannerState = FreshPlanner(modes[1])
    BY <1>5 DEF PlannerState
  <2>3. pending = 0
    BY <1>5 DEF TimelineInv, Upcoming
  <2>4. LongHalf \in Nat
    BY Sizes
  <2>5. FreshPlanner(modes[1]) \in PlannerStates
    BY <1>3, <2>1, <2>4 DEF FreshPlanner, PlannerStates, Modes
  <2> QED
    BY <1>2, <1>3, <1>5, <2>1, <2>2, <2>3, <2>5 DEF FreshPlanner
<1> QED
  BY <1>4, <1>5

\* What a plan adds.
PlanAdded(following, p) ==
    /\ plans' = Append(plans, p)
    /\ p.index = Len(plans) /\ p.following = following
    /\ CentreOf(p) = pending
    /\ p.start = CentreOf(p) + LongHalf - 2 * Quarter(p.current)
    /\ p.end = p.start + BlockSize(p.current)
    /\ IF plans = <<>> THEN CentreOf(p) = 0 /\ p.previous = 0
       ELSE /\ p.previous = plans[Len(plans)].current
            /\ p.current = plans[Len(plans)].following
            /\ CentreOf(p) = CentreOf(plans[Len(plans)])
                  + Quarter(plans[Len(plans)].current) + Quarter(p.current)
    /\ p.current = modes[Len(modes)]
    /\ planner' \in PlannerStates
    /\ planner'.previous = p.current /\ planner'.current = following
    /\ planner'.cursor = LongHalf /\ planner'.emitted = Len(plans) + 1
    /\ planner'.base = pending + Quarter(p.current) + Quarter(following)
    /\ pending' = NoCentre /\ modes' = modes

\* A plan is never refused, and follows the ones before it.
LEMMA PlanMade ==
    ASSUME Typed, TimelineInv, PlansInv, ~Planned, pending # NoCentre,
           NEW following \in Modes, NEW next, EmitPlan(following, next)
    PROVE  /\ \E p \in PlanRecords : PlanAdded(following, p)
           /\ pc' = next
<1> DEFINE state == PlannerState
           fed == AppendSamples(state, following)
           p == FramePlan(state, following)
           after == AfterBlock(fed, following)
<1>1. /\ state \in PlannerStates /\ state.cursor = LongHalf
      /\ state.base = pending /\ state.emitted = Len(plans)
      /\ state.current = modes[Len(plans) + 1] /\ Len(modes) = Len(plans) + 1
      /\ plans # <<>> => state = planner
  BY PlannerReady
<1>2. plans \in Seq(PlanRecords) /\ Len(plans) \in Nat
  BY LenProperties DEF Typed
<1>3. /\ p \in PlanRecords
      /\ p.index = state.emitted /\ p.previous = state.previous
      /\ p.current = state.current /\ p.following = following
      /\ CentreOf(p) = state.base
      /\ p.start = CentreOf(p) + LongHalf - 2 * Quarter(p.current)
      /\ p.end = p.start + BlockSize(p.current)
      /\ ~Rejected(fed, following)
      /\ after \in PlannerStates
      /\ after.previous = state.current /\ after.current = following
      /\ after.cursor = LongHalf /\ after.emitted = state.emitted + 1
      /\ after.base = state.base + Quarter(state.current) + Quarter(following)
  BY <1>1, BlockPlanned
<1>4. PlanAccepted(state, following)
  BY <1>1, <1>2, <1>3 DEF PlanAccepted
<1>5. /\ planner' = after /\ plans' = Append(plans, p)
      /\ pending' = NoCentre /\ pc' = next /\ modes' = modes
  BY <1>4 DEF EmitPlan
<1> HIDE DEF state, fed, p, after
<1>6. IF plans = <<>> THEN CentreOf(p) = 0 /\ p.previous = 0
      ELSE /\ p.previous = plans[Len(plans)].current
           /\ p.current = plans[Len(plans)].following
           /\ CentreOf(p) = CentreOf(plans[Len(plans)])
                 + Quarter(plans[Len(plans)].current) + Quarter(p.current)
  <2>1. CASE plans = <<>>
    <3>1. CentreOf(p) = 0
      BY <1>1, <1>3, <2>1 DEF TimelineInv, Upcoming
    <3>2. state.previous = 0
      BY <2>1 DEF state, PlannerState, FreshPlanner
    <3> QED
      BY <1>3, <2>1, <3>1, <3>2
  <2>2. CASE plans # <<>>
    <3>1. GoesOnFrom(Len(plans)) /\ state = planner
      BY <1>1, <2>2 DEF PlansInv
    <3> QED
      BY <1>1, <1>3, <2>2, <3>1 DEF GoesOnFrom
  <2> QED
    BY <2>1, <2>2
<1>7. PlanAdded(following, p)
  BY <1>1, <1>3, <1>5, <1>6 DEF PlanAdded
<1> QED
  BY <1>3, <1>5, <1>7

-----------------------------------------------------------------------------
(* Steps that leave parts of the state alone, and the plans of a call. *)

\* What goes with the feeder when it stands still.
LEMMA FeederStill ==
    ASSUME UNCHANGED feederVars
    PROVE  /\ Primed' = Primed /\ DetectorStream' = DetectorStream
           /\ QuantumComplete' = QuantumComplete /\ Evicted' = Evicted
           /\ total' = total /\ retained' = retained /\ extracted' = extracted
           /\ training' = training
  BY DEF feederVars, Primed, DetectorStream, QuantumComplete, Evicted

\* What goes with the selector and the cursor when they stand still.
LEMMA SessionStill ==
    ASSUME UNCHANGED sessionVars
    PROVE  /\ SessionTypeOK' = SessionTypeOK /\ Boundary' = Boundary
           /\ quanta' = quanta /\ scanCursor' = scanCursor
           /\ nextCenter' = nextCenter /\ previousCenter' = previousCenter
           /\ previousMode' = previousMode /\ currentMode' = currentMode
           /\ codes' = codes
  BY DEF sessionVars, selectorVars, cursorVars, SessionTypeOK, Boundary, Center

\* A plan that had to wait bounds the next one, at least half a short block on.
LEMMA DeferredNext ==
    ASSUME total \in Int, handed \in Int, NEW c \in Int, NEW d \in Int, NEW k \in Int,
           Deferred(c, k), c + 2 * Quarter(0) <= d
    PROVE  Deferred(d, k + 1)
<1>1. /\ Short \div 2 = 2 * Quarter(0) /\ Quarter(0) \in Nat /\ Lookahead \in Nat
  BY Sizes, Bounds
<1> DEFINE half == 2 * Quarter(0)
<1>2. (k + 1 - handed - 1) * half = (k - handed - 1) * half + half
  <2>1. half \in Int
    BY <1>1
  <2> QED
    BY <2>1
<1>3. (k - handed - 1) * half \in Int
  BY <1>1
<1> QED
  BY <1>1, <1>2, <1>3 DEF Deferred

\* Where the sequences and the next centre stand.
LEMMA Shapes ==
    ASSUME Typed, TimelineInv
    PROVE  /\ Len(plans) \in Nat /\ Len(modes) \in Nat /\ Len(frames) \in Nat
           /\ Len(codes) = Len(modes)
           /\ pending # NoCentre <=> ~AllPlanned
           /\ pending # NoCentre =>
                 /\ Len(modes) = Len(plans) + 1 /\ modes[Len(modes)] \in Modes
                 /\ pending \in Nat /\ pending = previousCenter
                 /\ previousMode = modes[Len(modes)]
                 /\ nextCenter = pending + Quarter(modes[Len(modes)]) + Quarter(currentMode)
           /\ pending = NoCentre => Len(modes) = Len(plans)
           /\ nextCenter \in Nat /\ currentMode \in Modes /\ total \in Nat
           /\ Upcoming \in Nat /\ Evicted \in Int
<1>1. /\ modes \in Seq(Modes) /\ plans \in Seq(PlanRecords)
      /\ frames \in Seq(FrameRecords) /\ pending \in Nat \cup {NoCentre}
      /\ nextCenter \in Nat /\ currentMode \in Modes /\ total \in Nat
      /\ retained \in Nat
  BY Bounds DEF Typed, SessionTypeOK
<1>2. Len(plans) \in Nat /\ Len(modes) \in Nat /\ Len(frames) \in Nat
  BY <1>1, LenProperties
<1>3. pending # NoCentre <=> ~AllPlanned
  BY <1>2 DEF TimelineInv, AllPlanned
<1>4. Upcoming \in Nat /\ Evicted \in Int
  BY <1>1 DEF Upcoming, Evicted
<1>5. ASSUME pending # NoCentre
      PROVE  /\ Len(modes) = Len(plans) + 1 /\ modes[Len(modes)] \in Modes
             /\ pending \in Nat /\ pending = previousCenter
             /\ previousMode = modes[Len(modes)]
             /\ nextCenter = pending + Quarter(modes[Len(modes)]) + Quarter(currentMode)
  <2>1. Len(modes) = Len(plans) + 1
    BY <1>5 DEF TimelineInv
  <2>2. modes[Len(modes)] \in Modes /\ modes # <<>>
    BY <1>1, <1>2, <2>1, ElementOfSeq
  <2> QED
    BY <1>1, <1>5, <2>1, <2>2 DEF TimelineInv
<1> QED
  BY <1>1, <1>2, <1>3, <1>4, <1>5 DEF TimelineInv

\* A block centred in the source is planned.
LEMMA PlanKeeps ==
    ASSUME StreamInv, pc \in {"pump", "drain", "tailScan"}, pending # NoCentre,
           CentredInSource, EmitPlan(PendingFollowing, pc),
           UNCHANGED <<sessionVars, feederVars, frames, handed>>
    PROVE  StreamInv'
<1> USE DEF StreamInv
<1>1. /\ Len(plans) \in Nat /\ Len(modes) = Len(plans) + 1 /\ Len(frames) \in Nat
      /\ pending \in Nat /\ pending = previousCenter /\ modes[Len(modes)] \in Modes
      /\ nextCenter = pending + Quarter(modes[Len(modes)]) + Quarter(currentMode)
      /\ nextCenter \in Nat /\ currentMode \in Modes /\ total \in Nat
      /\ Evicted \in Int
  BY Shapes
<1>2. ~Planned /\ PendingFollowing = currentMode
  BY DEF Planned, PendingFollowing
<1>3. PICK p \in PlanRecords : PlanAdded(currentMode, p)
  BY <1>1, <1>2, PlanMade
<1>4. pc' = pc
  BY <1>1, <1>2, PlanMade
<1>5. /\ Primed' = Primed /\ DetectorStream' = DetectorStream
      /\ QuantumComplete' = QuantumComplete /\ Evicted' = Evicted
      /\ total' = total /\ retained' = retained /\ extracted' = extracted
      /\ training' = training
  BY FeederStill
<1>6. /\ SessionTypeOK' = SessionTypeOK /\ Boundary' = Boundary
      /\ quanta' = quanta /\ scanCursor' = scanCursor
      /\ nextCenter' = nextCenter /\ previousCenter' = previousCenter
      /\ previousMode' = previousMode /\ currentMode' = currentMode
      /\ codes' = codes
  BY SessionStill
<1>7. frames' = frames /\ handed' = handed /\ modes' = modes /\ pending' = NoCentre
  BY <1>3 DEF PlanAdded
<1>8. plans \in Seq(PlanRecords) /\ modes \in Seq(Modes)
  BY DEF Typed
<1>9. /\ plans' \in Seq(PlanRecords) /\ Len(plans') = Len(plans) + 1 /\ plans' # <<>>
      /\ \A k \in 1 .. Len(plans) : plans'[k] = plans[k]
      /\ plans'[Len(plans) + 1] = p
  BY <1>3, <1>8, Appended DEF PlanAdded
<1>10. Upcoming = pending /\ Upcoming' = nextCenter /\ Planned' = Planned
  BY <1>1, <1>4, <1>6, <1>7 DEF Upcoming, NoCentre, Planned
<1>11. /\ Quarter(0) \in Nat /\ 0 < Quarter(0)
       /\ pending + 2 * Quarter(0) <= nextCenter
  <2>1. /\ Quarter(modes[Len(modes)]) \in Nat
        /\ Quarter(0) <= Quarter(modes[Len(modes)])
    BY <1>1, BlockQuarter
  <2>2. Quarter(currentMode) \in Nat /\ Quarter(0) <= Quarter(currentMode)
    BY <1>1, BlockQuarter
  <2>3. Quarter(0) \in Nat /\ 0 < Quarter(0)
    BY Sizes
  <2>4. /\ pending \in Nat
        /\ nextCenter = pending + Quarter(modes[Len(modes)]) + Quarter(currentMode)
    BY <1>1
  <2> QED
    BY <2>1, <2>2, <2>3, <2>4
<1>12. Typed'
  BY <1>3, <1>4, <1>5, <1>6, <1>7, <1>8, <1>9 DEF Typed, PlanAdded
<1>13. CallInv'
  <2>1. ASSUME pc' = "pump", NEW k \in Len(frames') + 1 .. Len(plans')
        PROVE  Primed' /\ CentreOf(plans'[k]) + Lookahead <= total'
    <3>1. CASE k = Len(plans) + 1
      BY <1>3, <1>4, <1>5, <1>9, <2>1, <3>1 DEF CallInv, PlanAdded
    <3>2. CASE k # Len(plans) + 1
      <4>1. k \in Len(frames) + 1 .. Len(plans) /\ k \in 1 .. Len(plans)
        BY <1>1, <1>7, <1>9, <2>1, <3>2
      <4> QED
        BY <1>4, <1>5, <1>9, <2>1, <4>1 DEF CallInv
    <3> QED
      BY <3>1, <3>2
  <2> QED
    BY <1>1, <1>4, <1>5, <1>7, <1>9, <2>1 DEF CallInv
<1>14. SelectorInv'
  BY <1>4, <1>5, <1>6 DEF SelectorInv
<1>15. TimelineInv'
  BY <1>1, <1>2, <1>3, <1>6, <1>7, <1>9, <1>10 DEF TimelineInv, PlanAdded
<1>16. PlansInv'
  <2>1. ASSUME NEW k \in 1 .. Len(plans') PROVE InSequence(k)'
    <3>1. CASE k \in 1 .. Len(plans)
      <4>1. plans'[k] = plans[k] /\ (k # 1 => plans'[k - 1] = plans[k - 1])
        BY <1>1, <1>9, <3>1
      <4> QED
        BY <3>1, <4>1 DEF InSequence, PlansInv
    <3>2. CASE k = Len(plans) + 1
      <4>1. plans'[k] = p /\ p.index = k - 1
        BY <1>1, <1>3, <1>9, <3>2 DEF PlanAdded
      <4>2. k = 1 <=> plans = <<>>
        BY <1>1, <1>8, <3>2, EmptySeq, LenProperties
      <4>3. k # 1 => k - 1 = Len(plans) /\ plans'[k - 1] = plans[Len(plans)]
        BY <1>1, <1>9, <3>2
      <4> QED
        BY <1>3, <4>1, <4>2, <4>3 DEF InSequence, PlanAdded
    <3> QED
      BY <1>1, <1>9, <2>1, <3>1, <3>2
  <2>2. GoesOnFrom(Len(plans))'
    <3>1. Len(plans)' = Len(plans') /\ plans'[Len(plans)'] = p
      BY <1>9
    <3> QED
      BY <1>3, <3>1 DEF GoesOnFrom, PlanAdded
  <2>3. ASSUME NEW k \in 1 .. Len(frames') PROVE frames'[k].plan = plans'[k]
    <3>1. k \in 1 .. Len(frames) /\ k \in 1 .. Len(plans)
      BY <1>1, <1>7, <2>3 DEF CallInv
    <3> QED
      BY <1>7, <1>9, <3>1 DEF PlansInv
  <2> QED
    BY <2>1, <2>2, <2>3 DEF PlansInv
<1>17. RingInv'
  <2>1. ASSUME NEW k \in Len(frames') + 1 .. Len(plans')
        PROVE  Evicted' <= Greatest(CentreOf(plans'[k]) - LongHalf, 0)
    <3>1. CASE k = Len(plans) + 1
      BY <1>2, <1>3, <1>5, <1>9, <1>10, <3>1 DEF RingInv, PlanAdded
    <3>2. CASE k # Len(plans) + 1
      <4>1. k \in Len(frames) + 1 .. Len(plans) /\ k \in 1 .. Len(plans)
        BY <1>1, <1>7, <1>9, <2>1, <3>2
      <4> QED
        BY <1>5, <1>9, <4>1 DEF RingInv
    <3> QED
      BY <3>1, <3>2
  <2>2. Evicted' <= Greatest(Upcoming' - LongHalf, 0)
    <3>1. Evicted <= Greatest(pending - LongHalf, 0) /\ LongHalf \in Nat
      BY <1>2, <1>10, Sizes DEF RingInv
    <3>2. Greatest(pending - LongHalf, 0) <= Greatest(nextCenter - LongHalf, 0)
      BY <1>1, <1>11, <3>1 DEF Greatest
    <3>3. /\ Greatest(pending - LongHalf, 0) \in Int
          /\ Greatest(nextCenter - LongHalf, 0) \in Int
      BY <1>1, <3>1 DEF Greatest
    <3> QED
      BY <1>1, <1>5, <1>10, <3>1, <3>2, <3>3
  <2> QED
    BY <1>5, <2>1, <2>2 DEF RingInv
<1>18. EndInv'
  <2>1. ASSUME NEW k \in 1 .. Len(plans') PROVE CentreOf(plans'[k]) < total'
    <3>1. CASE k = Len(plans) + 1
      BY <1>3, <1>5, <1>9, <3>1 DEF PlanAdded, CentredInSource
    <3>2. CASE k # Len(plans) + 1
      <4>1. k \in 1 .. Len(plans)
        BY <1>1, <1>9, <2>1, <3>2
      <4> QED
        BY <1>2, <1>5, <1>9, <4>1 DEF EndInv
    <3> QED
      BY <3>1, <3>2
  <2>2. previousCenter' < total'
    BY <1>1, <1>5, <1>6 DEF CentredInSource
  <2> QED
    BY <1>2, <1>10, <2>1, <2>2 DEF EndInv
<1>19. DeferInv'
  <2> SUFFICES ASSUME pc \in {"drain", "tailScan"} PROVE DeferInv'
    BY <1>4 DEF DeferInv
  <2>1. \A c, k : Deferred(c, k)' <=> Deferred(c, k)
    BY <1>5, <1>7 DEF Deferred
  <2>2. handed \in Nat
    BY DEF Typed
  <2>3. Deferred(pending, Len(plans) + 1)
    BY <1>2, <1>10 DEF DeferInv
  <2>4. ASSUME NEW k \in handed' + 1 .. Len(plans') PROVE Deferred(CentreOf(plans'[k]), k)
    <3>1. CASE k = Len(plans) + 1
      BY <1>3, <1>9, <2>3, <3>1 DEF PlanAdded
    <3>2. CASE k # Len(plans) + 1
      <4>1. k \in handed + 1 .. Len(plans) /\ k \in 1 .. Len(plans)
        BY <1>1, <1>7, <1>9, <2>2, <2>4, <3>2
      <4> QED
        BY <1>9, <4>1 DEF DeferInv
    <3> QED
      BY <3>1, <3>2
  <2>5. Deferred(nextCenter, Len(plans) + 1 + 1)
    BY <1>1, <1>11, <2>2, <2>3, DeferredNext
  <2> QED
    BY <1>9, <1>10, <2>1, <2>4, <2>5 DEF DeferInv
<1> QED
  BY <1>12, <1>13, <1>14, <1>15, <1>16, <1>17, <1>18, <1>19

\* The rest of the state when only the place in the call, the frames and the
\* count of packets handed out change.
LEMMA PlansStill ==
    ASSUME UNCHANGED <<sessionVars, feederVars, planVars>>
    PROVE  /\ Primed' = Primed /\ DetectorStream' = DetectorStream
           /\ QuantumComplete' = QuantumComplete /\ Evicted' = Evicted
           /\ total' = total /\ retained' = retained /\ extracted' = extracted
           /\ training' = training
           /\ SessionTypeOK' = SessionTypeOK /\ Boundary' = Boundary
           /\ quanta' = quanta /\ scanCursor' = scanCursor
           /\ nextCenter' = nextCenter /\ previousCenter' = previousCenter
           /\ previousMode' = previousMode /\ currentMode' = currentMode
           /\ codes' = codes
           /\ modes' = modes /\ planner' = planner /\ plans' = plans
           /\ pending' = pending
           /\ Upcoming' = Upcoming
           /\ \A k : InSequence(k)' <=> InSequence(k)
           /\ \A k : GoesOnFrom(k)' <=> GoesOnFrom(k)
<1>1. /\ nextCenter' = nextCenter /\ pending' = pending /\ plans' = plans
      /\ planner' = planner
  BY DEF planVars, sessionVars, cursorVars
<1>2. Upcoming' = Upcoming
  BY <1>1 DEF Upcoming
<1>3. \A k : InSequence(k)' <=> InSequence(k)
  BY <1>1 DEF InSequence
<1>4. \A k : GoesOnFrom(k)' <=> GoesOnFrom(k)
  BY <1>1 DEF GoesOnFrom
<1> QED
  BY <1>1, <1>2, <1>3, <1>4, FeederStill, SessionStill DEF planVars

\* A place in the call that no part of the state moves with.
LEMMA MovesOn ==
    ASSUME StreamInv, UNCHANGED <<sessionVars, feederVars, planVars, frames, handed>>,
           \/ pc \in {"ingest"} /\ pc' = "pump" /\ ~QuantumComplete
           \/ pc = "tailIngest" /\ pc' = "tailScan" /\ ~QuantumComplete
           \/ pc = "idle" /\ pc' = "refused"
           \/ pc = "drain" /\ pc' = "tail"
           \/ pc = "flush" /\ AllEmitted /\ pc' = "done"
           \/ pc' = pc
    PROVE  StreamInv'
<1> USE DEF StreamInv
<1>1. /\ Primed' = Primed /\ DetectorStream' = DetectorStream
      /\ QuantumComplete' = QuantumComplete /\ Evicted' = Evicted
      /\ total' = total /\ retained' = retained /\ extracted' = extracted
      /\ training' = training
      /\ SessionTypeOK' = SessionTypeOK /\ Boundary' = Boundary
      /\ quanta' = quanta /\ scanCursor' = scanCursor
      /\ nextCenter' = nextCenter /\ previousCenter' = previousCenter
      /\ previousMode' = previousMode /\ currentMode' = currentMode
      /\ codes' = codes
      /\ modes' = modes /\ planner' = planner /\ plans' = plans
      /\ pending' = pending
      /\ Upcoming' = Upcoming
  BY PlansStill
<1>2. frames' = frames /\ handed' = handed /\ Planned' = Planned
  BY DEF Planned
<1>3. Typed'
  BY <1>1, <1>2 DEF Typed
<1>4. CallInv'
  <2>1. /\ handed \in Nat /\ Len(frames) \in Nat /\ Len(plans) \in Nat
    BY Shapes DEF Typed
  <2>2. ASSUME pc' = "pump", NEW k \in Len(frames) + 1 .. Len(plans)
        PROVE  Primed /\ CentreOf(plans[k]) + Lookahead <= total
    <3>1. pc = "pump" \/ Len(frames) = Len(plans)
      BY <2>2 DEF CallInv
    <3> QED
      BY <2>1, <2>2, <3>1 DEF CallInv
  <2> QED
    BY <1>1, <1>2, <2>2 DEF CallInv, AllEmitted
<1>5. SelectorInv'
  BY <1>1 DEF SelectorInv
<1>6. TimelineInv'
  BY <1>1, <1>2 DEF TimelineInv
<1>7. PlansInv'
  BY <1>1, <1>2, PlansStill DEF PlansInv
<1>8. RingInv'
  BY <1>1, <1>2 DEF RingInv
<1>9. EndInv'
  BY <1>1, <1>2 DEF EndInv
<1>10. DeferInv'
  BY <1>1, <1>2 DEF DeferInv, Deferred
<1> QED
  BY <1>3, <1>4, <1>5, <1>6, <1>7, <1>8, <1>9, <1>10

\* A block is decided: the selector moves on by it, and it is pending.
LEMMA DecideKeeps ==
    ASSUME StreamInv, pc \in {"pump", "drain", "tailScan"}, AllPlanned,
           NEW eos \in BOOLEAN, eos => pc = "tailScan", Decide(eos),
           pc = "pump" => ScanSafe(nextCenter),
           modes' = Append(modes, currentMode), pending' = nextCenter,
           UNCHANGED <<pc, planner, plans, feederVars, frames, handed>>
    PROVE  StreamInv'
<1> USE DEF StreamInv
<1>1. /\ Len(plans) \in Nat /\ Len(modes) = Len(plans) /\ pending = NoCentre
      /\ nextCenter \in Nat /\ currentMode \in Modes /\ total \in Nat
      /\ ~Planned /\ ~Planned'
  <2>1. pending = NoCentre
    BY Shapes
  <2> QED
    BY <2>1, Shapes DEF Planned
<1>2. /\ SessionTypeOK'
      /\ quanta' = quanta /\ queue' = queue
      /\ previousCenter' = nextCenter /\ previousMode' = currentMode
      /\ currentMode' \in Modes
      /\ nextCenter' = nextCenter + Quarter(currentMode) + Quarter(currentMode')
      /\ Len(codes') = Len(codes) + 1
      /\ scanCursor' % Hop = 0 /\ nextCenter' % Hop = 0
      /\ scanCursor' < Boundary'
  <2>1. SessionTypeOK /\ scanCursor % Hop = 0 /\ nextCenter % Hop = 0
        /\ scanCursor < Boundary
    BY DEF Typed, SelectorInv
  <2> QED
    BY <2>1, DecisionMade
<1>3. /\ Primed' = Primed /\ DetectorStream' = DetectorStream
      /\ QuantumComplete' = QuantumComplete /\ Evicted' = Evicted
      /\ total' = total /\ retained' = retained /\ extracted' = extracted
      /\ training' = training
  BY FeederStill
<1>4. modes \in Seq(Modes)
  BY DEF Typed
<1>5. /\ modes' \in Seq(Modes) /\ Len(modes') = Len(modes) + 1 /\ modes' # <<>>
      /\ modes'[Len(modes')] = currentMode
  BY <1>1, <1>4, Appended
<1>6. /\ pending' # NoCentre /\ Upcoming = nextCenter /\ Upcoming' = nextCenter
      /\ pending' \in Nat
  BY <1>1 DEF Upcoming, NoCentre
<1>7. Typed'
  BY <1>2, <1>3, <1>5, <1>6 DEF Typed
<1>8. CallInv'
  BY <1>1, <1>3 DEF CallInv, ScanSafe
<1>9. SelectorInv'
  <2>1. ASSUME pc \in {"pump", "drain"}
        PROVE  nextCenter' + 2 * Hop <= total + Quarter(1) + Quarter(0)
    <3>1. training = NoTail /\ ~eos
      BY <2>1 DEF CallInv
    <3>2. ~(Status < 0)
      <4>1. Status \in Int
        BY DEF Status
      <4> QED
        BY <3>1, <4>1 DEF Decide
    <3>3. LongHalf + total \in Nat /\ DetectorStream \in Nat
          /\ DetectorStream <= LongHalf + total
      <4>1. LongHalf \in Nat
        BY Sizes
      <4>2. DetectorStream = 0 \/ DetectorStream = LongHalf + total
        BY <1>1, <3>1, <4>1 DEF DetectorStream
      <4> QED
        BY <1>1, <4>1, <4>2
    <3>4. quanta # 0 => quanta * Hop + Hop <= LongHalf + total
      <4>1. quanta \in Nat /\ Hop \in Nat
        BY Bounds DEF Typed, SessionTypeOK
      <4>2. quanta * Hop + Hop \in Nat
        BY <4>1
      <4> QED
        BY <3>3, <4>2 DEF SelectorInv
    <3> QED
      BY <1>1, <1>2, <3>1, <3>2, <3>4, DecidedBehind DEF Typed
  <2>2. /\ Quarter(1) = Long \div 4 /\ Quarter(0) = Short \div 4
    BY Sizes
  <2>3. quanta' = extracted' /\ DetectorStream' = DetectorStream
    BY <1>2, <1>3 DEF SelectorInv
  <2>4. quanta # 0 => quanta * Hop + Hop <= DetectorStream
    BY DEF SelectorInv
  <2>5. pc' \in {"idle", "ingest", "pump", "drain", "tail"} =>
           nextCenter' + 2 * Hop <= total' + Long \div 4 + Short \div 4
    BY <1>3, <2>1, <2>2
  <2> QED
    BY <1>2, <2>3, <2>4, <2>5 DEF SelectorInv
<1>10. TimelineInv'
  <2>1. Len(codes') = Len(modes') /\ Len(modes') = Len(plans') + 1
    BY <1>1, <1>2, <1>5 DEF TimelineInv
  <2>2. /\ planner.cursor = LongHalf
        /\ plans = <<>> => nextCenter = 0 /\ planner = FreshPlanner(0)
        /\ planner.base = nextCenter /\ planner.emitted = Len(plans)
        /\ plans # <<>> => planner.current = currentMode
    BY <1>1, <1>6 DEF TimelineInv
  <2>3. previousCenter' >= 0
    BY <1>1, <1>2
  <2> QED
    BY <1>1, <1>2, <1>5, <1>6, <2>1, <2>2, <2>3 DEF TimelineInv
<1>11. PlansInv'
  <2>1. \A k : InSequence(k)' <=> InSequence(k)
    BY DEF InSequence
  <2>2. \A k : GoesOnFrom(k)' <=> GoesOnFrom(k)
    BY DEF GoesOnFrom
  <2> QED
    BY <1>1, <2>1, <2>2 DEF PlansInv
<1>12. RingInv'
  BY <1>1, <1>3, <1>6 DEF RingInv
<1>13. EndInv'
  BY <1>1, <1>3, <1>6 DEF EndInv
<1>14. DeferInv'
  BY <1>1, <1>3, <1>6 DEF DeferInv, Deferred
<1> QED
  BY <1>7, <1>8, <1>9, <1>10, <1>11, <1>12, <1>13, <1>14

\* The source decides no further block: only the scan's cursor has moved.
LEMMA UndecidedKeeps ==
    ASSUME StreamInv, pc = "drain", pc' = "tail", Undecided,
           UNCHANGED <<planVars, feederVars, frames, handed>>
    PROVE  StreamInv'
<1> USE DEF StreamInv
<1>1. /\ Primed' = Primed /\ DetectorStream' = DetectorStream
      /\ QuantumComplete' = QuantumComplete /\ Evicted' = Evicted
      /\ total' = total /\ retained' = retained /\ extracted' = extracted
      /\ training' = training
  BY FeederStill
<1>2. /\ quanta' = quanta /\ queue' = queue /\ selected' = selected
      /\ nextCenter' = nextCenter /\ previousCenter' = previousCenter
      /\ previousMode' = previousMode /\ currentMode' = currentMode
      /\ codes' = codes /\ scanCursor' = ScanEnd
  BY DEF Undecided, cursorVars
<1>3. ScanEnd \in Nat /\ ScanEnd % Hop = 0 /\ ScanEnd < Boundary
  <2>1. SessionTypeOK /\ scanCursor % Hop = 0 /\ scanCursor < Boundary
    BY DEF Typed, SelectorInv
  <2> QED
    BY <2>1, ScanEnds
<1>4. Boundary' = Boundary
  BY <1>2 DEF Boundary, Center
<1>5. /\ modes' = modes /\ planner' = planner /\ plans' = plans /\ pending' = pending
      /\ frames' = frames /\ handed' = handed
  BY DEF planVars
<1>6. Upcoming' = Upcoming /\ ~Planned /\ ~Planned'
  BY <1>2, <1>5 DEF Upcoming, Planned
<1>7. Typed'
  BY <1>1, <1>2, <1>3, <1>5 DEF Typed, SessionTypeOK
<1>8. CallInv'
  BY <1>1, <1>5 DEF CallInv
<1>9. SelectorInv'
  BY <1>1, <1>2, <1>3, <1>4 DEF SelectorInv
<1>10. TimelineInv'
  BY <1>2, <1>5, <1>6 DEF TimelineInv
<1>11. PlansInv'
  <2>1. \A k : InSequence(k)' <=> InSequence(k)
    BY <1>5 DEF InSequence
  <2>2. \A k : GoesOnFrom(k)' <=> GoesOnFrom(k)
    BY <1>5 DEF GoesOnFrom
  <2> QED
    BY <1>5, <1>6, <2>1, <2>2 DEF PlansInv
<1>12. RingInv'
  BY <1>1, <1>5, <1>6 DEF RingInv
<1>13. EndInv'
  BY <1>1, <1>2, <1>5, <1>6 DEF EndInv
<1>14. DeferInv'
  BY <1>1, <1>5, <1>6 DEF DeferInv, Deferred
<1> QED
  BY <1>7, <1>8, <1>9, <1>10, <1>11, <1>12, <1>13, <1>14

-----------------------------------------------------------------------------
\* The steps that change the feeder.

\* A chunk is pushed.
LEMMA PushKeeps ==
    ASSUME StreamInv, NEW n \in Nat, PushChunk(n)
    PROVE  StreamInv'
<1> USE DEF StreamInv
<1>1. /\ pc = "idle" /\ total + n <= MaxFrames /\ total' = total + n
      /\ retained' = retained + n /\ pc' = "ingest"
      /\ UNCHANGED <<sessionVars, extracted, training, planVars, frames, handed>>
  BY DEF PushChunk
<1>2. /\ total \in Nat /\ retained \in Nat /\ retained <= total
      /\ MaxFrames \in Nat /\ total' \in 0 .. MaxFrames /\ retained' \in 0 .. total'
      /\ extracted \in Nat
  BY <1>1, Bounds DEF Typed
<1>3. /\ extracted' = extracted /\ training' = training /\ training = NoTail
      /\ modes' = modes /\ planner' = planner /\ plans' = plans /\ pending' = pending
      /\ frames' = frames /\ handed' = handed /\ Evicted' = Evicted
      /\ Len(frames) = Len(plans) /\ handed = Len(frames) /\ pending = NoCentre
      /\ ~Planned /\ ~Planned'
  BY <1>1, <1>2 DEF planVars, Evicted, CallInv, Planned
<1>4. /\ SessionTypeOK' = SessionTypeOK /\ Boundary' = Boundary
      /\ quanta' = quanta /\ scanCursor' = scanCursor
      /\ nextCenter' = nextCenter /\ previousCenter' = previousCenter
      /\ previousMode' = previousMode /\ currentMode' = currentMode
      /\ codes' = codes
  BY <1>1, SessionStill
<1>5. Upcoming' = Upcoming /\ Upcoming = nextCenter /\ nextCenter \in Nat
  BY <1>3, <1>4, Shapes DEF Upcoming
<1>6. Typed'
  BY <1>1, <1>2, <1>3, <1>4 DEF Typed
<1>7. CallInv'
  BY <1>1, <1>3 DEF CallInv
<1>8. SelectorInv'
  <2>1. DetectorStream \in Int /\ DetectorStream' \in Int
        /\ DetectorStream <= DetectorStream'
    <3>1. LongHalf \in Nat /\ MinFrames \in Nat
      BY Sizes, Bounds
    <3> QED
      BY <1>1, <1>2, <1>3, <3>1 DEF DetectorStream, Primed
  <2>2. quanta' # 0 => quanta' * Hop + Hop <= DetectorStream'
    <3>1. quanta * Hop + Hop \in Int
      <4>1. quanta \in Nat /\ Hop \in Nat
        BY Bounds DEF Typed, SessionTypeOK
      <4> QED
        BY <4>1
    <3> QED
      BY <1>4, <2>1, <3>1 DEF SelectorInv
  <2>3. nextCenter = 0 \/ nextCenter + 2 * Hop <= total' + Long \div 4 + Short \div 4
    <3>1. /\ Hop \in Nat /\ Long \div 4 \in Nat /\ Short \div 4 \in Nat
      BY Bounds, Sizes
    <3>2. nextCenter = 0 \/ nextCenter + 2 * Hop <= total + Long \div 4 + Short \div 4
      BY <1>1 DEF SelectorInv
    <3> QED
      BY <1>1, <1>2, <1>5, <3>1, <3>2
  <2> QED
    BY <1>3, <1>4, <2>2, <2>3 DEF SelectorInv
<1>9. TimelineInv'
  BY <1>3, <1>4, <1>5 DEF TimelineInv
<1>10. PlansInv'
  <2>1. \A k : InSequence(k)' <=> InSequence(k)
    BY <1>3 DEF InSequence
  <2>2. \A k : GoesOnFrom(k)' <=> GoesOnFrom(k)
    BY <1>3 DEF GoesOnFrom
  <2> QED
    BY <1>3, <2>1, <2>2 DEF PlansInv
<1>11. RingInv'
  <2>1. retained' >= Least(total', RingKeep)
    <3>1. retained >= Least(total, RingKeep) /\ RingKeep \in Nat
      BY Bounds DEF RingInv
    <3> QED
      BY <1>1, <1>2, <3>1 DEF Least
  <2> QED
    BY <1>3, <1>5, <2>1 DEF RingInv
<1>12. EndInv'
  <2>1. \A k \in 1 .. Len(plans') : CentreOf(plans'[k]) < total'
    <3>1. ASSUME NEW k \in 1 .. Len(plans) PROVE CentreOf(plans[k]) < total'
      <4>1. CentreOf(plans[k]) < total
        BY <1>3 DEF EndInv
      <4>2. CentreOf(plans[k]) \in Int
        <5>1. plans[k] \in PlanRecords
          BY DEF Typed
        <5> QED
          BY <5>1, CentreInteger
      <4> QED
        BY <1>1, <1>2, <4>1, <4>2
    <3> QED
      BY <1>3, <3>1
  <2>2. previousCenter' < total'
    <3>1. previousCenter < total /\ previousCenter \in Int
      BY <1>3 DEF EndInv, Typed, SessionTypeOK
    <3> QED
      BY <1>1, <1>2, <1>4, <3>1
  <2> QED
    BY <1>3, <2>1, <2>2 DEF EndInv
<1>13. DeferInv'
  BY <1>1 DEF DeferInv
<1> QED
  BY <1>6, <1>7, <1>8, <1>9, <1>10, <1>11, <1>12, <1>13

\* A push is over: the ring is cut to what it keeps.
LEMMA RestKeeps ==
    ASSUME StreamInv, pc = "pump", AllEmitted,
           IF AllPlanned THEN ~ScanSafe(nextCenter) ELSE ~CentredInSource,
           Settle, handed' = Len(frames), pc' = "idle",
           UNCHANGED <<sessionVars, total, extracted, training, planVars, frames>>
    PROVE  StreamInv'
<1> USE DEF StreamInv
<1>1. /\ total \in Nat /\ retained \in Nat /\ retained <= total /\ RingKeep \in Nat
      /\ retained' = Least(retained, RingKeep) /\ extracted \in Nat
      /\ nextCenter \in Nat /\ Lookahead \in Nat
  BY Bounds, Shapes DEF Typed, Settle
<1>2. /\ retained' \in 0 .. total /\ retained' >= Least(total, RingKeep)
      /\ retained' = retained \/ retained' = RingKeep
  BY <1>1 DEF RingInv, Least
<1>3. /\ total' = total /\ extracted' = extracted /\ training' = training
      /\ modes' = modes /\ planner' = planner /\ plans' = plans /\ pending' = pending
      /\ frames' = frames /\ ~Planned /\ ~Planned'
      /\ training = NoTail /\ Len(frames) = Len(plans) /\ ~QuantumComplete
      /\ handed' = Len(frames') /\ Len(frames) \in Nat
  BY Shapes DEF planVars, Planned, CallInv, AllEmitted
<1>4. /\ SessionTypeOK' = SessionTypeOK /\ Boundary' = Boundary
      /\ quanta' = quanta /\ scanCursor' = scanCursor
      /\ nextCenter' = nextCenter /\ previousCenter' = previousCenter
      /\ previousMode' = previousMode /\ currentMode' = currentMode
      /\ codes' = codes
  BY SessionStill
<1>5. /\ DetectorStream' = DetectorStream /\ QuantumComplete' = QuantumComplete
      /\ Primed' = Primed
  BY <1>3 DEF DetectorStream, QuantumComplete, Primed
<1>6. pending = NoCentre /\ ~ScanSafe(nextCenter)
  <2>1. ASSUME pending # NoCentre PROVE FALSE
    <3>1. pending + Lookahead <= total
      BY <2>1 DEF CallInv
    <3>2. pending \in Nat /\ ~AllPlanned
      BY <2>1, Shapes
    <3>3. ~(pending < total)
      BY <3>2 DEF CentredInSource
    <3>4. 0 < Lookahead
      BY Bounds
    <3> QED
      BY <1>1, <3>1, <3>2, <3>3, <3>4
  <2> QED
    BY <2>1, Shapes
<1>7. Upcoming' = Upcoming /\ Upcoming = nextCenter
  BY <1>3, <1>4, <1>6 DEF Upcoming
<1>8. Primed => total < nextCenter + Lookahead
  BY <1>1, <1>6 DEF ScanSafe
<1>9. Typed'
  BY <1>2, <1>3, <1>4 DEF Typed
<1>10. CallInv'
  BY <1>3, <1>4, <1>5, <1>6, <1>8 DEF CallInv
<1>11. SelectorInv'
  BY <1>3, <1>4, <1>5 DEF SelectorInv
<1>12. TimelineInv'
  BY <1>3, <1>4, <1>7 DEF TimelineInv
<1>13. PlansInv'
  <2>1. \A k : InSequence(k)' <=> InSequence(k)
    BY <1>3 DEF InSequence
  <2>2. \A k : GoesOnFrom(k)' <=> GoesOnFrom(k)
    BY <1>3 DEF GoesOnFrom
  <2> QED
    BY <1>3, <2>1, <2>2 DEF PlansInv
<1>14. RingInv'
  <2>1. CASE retained' = retained
    BY <1>2, <1>3, <1>7, <2>1 DEF RingInv, Evicted
  <2>2. CASE retained' = RingKeep
    <3>1. Evicted' = total - RingKeep
      BY <1>3, <2>2 DEF Evicted
    <3>2. Quarter(1) \in Nat /\ LongHalf = 2 * Quarter(1)
          /\ Lookahead + 2 * Quarter(1) <= RingKeep /\ MinFrames \in Nat
          /\ MinFrames <= RingKeep /\ Hop \in Nat /\ Hop <= 2 * Quarter(1)
          /\ 3 * Hop <= Lookahead /\ extracted * Hop \in Nat
      <4>1. Quarter(0) \in Nat /\ Quarter(1) \in Nat
        BY Sizes
      <4>2. LongHalf = 2 * Quarter(1)
        BY Sizes
      <4>3. /\ Lookahead + 2 * Quarter(1) <= RingKeep /\ MinFrames \in Nat
            /\ MinFrames <= RingKeep /\ Hop \in Nat /\ Hop <= 2 * Quarter(1)
            /\ 3 * Quarter(1) + Quarter(0) + 3 * Hop <= Lookahead
        BY Bounds
      <4>4. extracted * Hop \in Nat
        BY <1>1, <4>3
      <4>5. 3 * Hop <= Lookahead
        BY <1>1, <4>1, <4>3
      <4> QED
        BY <4>1, <4>2, <4>3, <4>4, <4>5
    <3>3. CASE Primed
      <4>1. total - RingKeep <= Greatest(nextCenter - LongHalf, 0)
        BY <1>1, <1>8, <3>2, <3>3 DEF Greatest
      <4>2. total - RingKeep <= Greatest(extracted * Hop - LongHalf, 0)
        <5>1. extracted * Hop + 2 * Hop > LongHalf + total
          BY <1>1, <1>3, <3>2, <3>3 DEF QuantumComplete, DetectorStream, Window
        <5> QED
          BY <1>1, <3>2, <5>1 DEF Greatest
      <4>3. \A k \in Len(frames') + 1 .. Len(plans') : FALSE
        BY <1>3
      <4> QED
        BY <1>2, <1>3, <1>7, <3>1, <4>1, <4>2, <4>3 DEF RingInv
    <3>4. CASE ~Primed
      <4>1. total - RingKeep <= 0
        BY <1>1, <3>2, <3>4 DEF Primed
      <4>2. total - RingKeep <= Greatest(nextCenter - LongHalf, 0)
        BY <1>1, <3>2, <4>1 DEF Greatest
      <4>3. total - RingKeep <= Greatest(extracted * Hop - LongHalf, 0)
        BY <1>1, <3>2, <4>1 DEF Greatest
      <4>4. \A k \in Len(frames') + 1 .. Len(plans') : FALSE
        BY <1>3
      <4> QED
        BY <1>2, <1>3, <1>7, <3>1, <4>2, <4>3, <4>4 DEF RingInv
    <3> QED
      BY <3>3, <3>4
  <2> QED
    BY <1>2, <2>1, <2>2
<1>15. EndInv'
  BY <1>3, <1>4, <1>6 DEF EndInv
<1>16. DeferInv'
  BY DEF DeferInv
<1> QED
  BY <1>9, <1>10, <1>11, <1>12, <1>13, <1>14, <1>15, <1>16

\* The quanta to come are in the ring.
LEMMA QuantumHeld ==
    ASSUME RingInv, total \in Nat, retained \in 0 .. total, extracted \in Nat
    PROVE  QuantumAtHand
<1> DEFINE from == extracted * Hop - LongHalf
<1>1. LongHalf \in Nat /\ Hop \in Nat
  BY Sizes, Bounds
<1>2. extracted * Hop \in Nat
  BY <1>1
<1>3. from \in Int
  BY <1>1, <1>2
<1>4. total - retained <= Greatest(from, 0)
  BY DEF RingInv, Evicted
<1> HIDE DEF from
<1>5. ASSUME NEW i \in Greatest(from, 0) .. Least(from + Window, total) - 1
      PROVE  i >= total - retained
  <2>1. Greatest(from, 0) \in Int
    BY <1>3 DEF Greatest
  <2>2. i \in Int /\ Greatest(from, 0) <= i
    BY <1>5, <2>1
  <2> QED
    BY <1>4, <2>1, <2>2
<1>6. Retained(from, from + Window)
  BY <1>5 DEF Retained
<1> QED
  BY <1>6 DEF QuantumAtHand, from

\* A quantum of the detector is heard.
LEMMA QuantumKeeps ==
    ASSUME StreamInv, NEW flags \in FlagWords, IngestQuantum(flags)
    PROVE  StreamInv'
<1> USE DEF StreamInv
<1>1. /\ pc \in {"ingest", "tailIngest"} /\ QuantumComplete
      /\ extracted' = extracted + 1 /\ Ingest(flags)
      /\ UNCHANGED <<pc, total, retained, training, planVars, frames, handed>>
  BY QuantumHeld, Bounds DEF IngestQuantum, Typed
<1>2. /\ total \in Nat /\ retained \in Nat /\ retained <= total
      /\ extracted \in Nat /\ quanta \in Nat /\ Hop \in Nat /\ LongHalf \in Nat
  <2>1. MaxFrames \in Nat /\ Hop \in Nat
    BY Bounds
  <2>2. LongHalf \in Nat
    BY Sizes
  <2>3. total \in 0 .. MaxFrames /\ retained \in 0 .. total
        /\ extracted \in Nat /\ quanta \in Nat
    BY DEF Typed, SessionTypeOK
  <2> QED
    BY <2>1, <2>2, <2>3
<1>3. /\ total' = total /\ retained' = retained /\ training' = training
      /\ modes' = modes /\ planner' = planner /\ plans' = plans /\ pending' = pending
      /\ frames' = frames /\ handed' = handed /\ pc' = pc
      /\ Evicted' = Evicted /\ Primed' = Primed /\ DetectorStream' = DetectorStream
      /\ Planned' = Planned
  BY <1>1 DEF planVars, Evicted, Primed, DetectorStream, Planned
<1>4. /\ selected' = selected /\ scanCursor' = scanCursor
      /\ nextCenter' = nextCenter /\ previousCenter' = previousCenter
      /\ previousMode' = previousMode /\ currentMode' = currentMode
      /\ codes' = codes
      /\ quanta' = quanta + 1
      /\ queue' = (queue \ {quanta + 2}) \cup Slots(quanta, flags)
  BY <1>1 DEF Ingest, cursorVars
<1>5. Boundary' = Boundary /\ Upcoming' = Upcoming
  BY <1>3, <1>4 DEF Boundary, Center, Upcoming
<1>6. queue' \in SUBSET Nat
  <2>1. queue \in SUBSET Nat
    BY DEF Typed, SessionTypeOK
  <2>2. Slots(quanta, flags) \in SUBSET Nat
    <3>1. {quanta, quanta + 1} \in SUBSET Nat
      BY <1>2
    <3>2. {s \in {quanta - 1} : 0 <= s} \in SUBSET Nat
      BY <1>2
    <3> QED
      BY <1>2, <3>1, <3>2 DEF Slots
  <2> QED
    BY <1>4, <2>1, <2>2
<1>7. SessionTypeOK'
  BY <1>2, <1>4, <1>6 DEF SessionTypeOK, Typed
<1>8. Typed'
  BY <1>1, <1>2, <1>3, <1>7 DEF Typed
<1>9. CallInv'
  BY <1>1, <1>3, <1>4 DEF CallInv
<1>10. SelectorInv'
  <2>1. quanta = extracted /\ quanta' = extracted'
    BY <1>1, <1>4 DEF SelectorInv
  <2>2. extracted * Hop + 2 * Hop <= DetectorStream
    BY <1>1 DEF QuantumComplete, Window
  <2>3. quanta' * Hop + Hop <= DetectorStream'
    <3>1. quanta' * Hop + Hop = extracted * Hop + 2 * Hop
      BY <1>1, <1>2, <2>1
    <3> QED
      BY <1>3, <2>2, <3>1
  <2> QED
    BY <1>3, <1>4, <1>5, <2>1, <2>3 DEF SelectorInv
<1>11. TimelineInv'
  BY <1>3, <1>4, <1>5 DEF TimelineInv
<1>12. PlansInv'
  <2>1. \A k : InSequence(k)' <=> InSequence(k)
    BY <1>3 DEF InSequence
  <2>2. \A k : GoesOnFrom(k)' <=> GoesOnFrom(k)
    BY <1>3 DEF GoesOnFrom
  <2> QED
    BY <1>3, <2>1, <2>2 DEF PlansInv
<1>13. RingInv'
  <2>1. Evicted' <= Greatest(extracted' * Hop - LongHalf, 0)
    <3>1. extracted' * Hop = extracted * Hop + Hop /\ extracted * Hop \in Nat
      BY <1>1, <1>2
    <3>2. Evicted <= Greatest(extracted * Hop - LongHalf, 0) /\ Evicted \in Int
      BY <1>2 DEF RingInv, Evicted
    <3> QED
      BY <1>2, <1>3, <3>1, <3>2 DEF Greatest
  <2> QED
    BY <1>3, <1>5, <2>1 DEF RingInv
<1>14. EndInv'
  BY <1>3, <1>4 DEF EndInv
<1>15. DeferInv'
  BY <1>3, <1>5 DEF DeferInv, Deferred
<1> QED
  BY <1>8, <1>9, <1>10, <1>11, <1>12, <1>13, <1>14, <1>15

\* finish starts.
LEMMA FinishKeeps ==
    ASSUME StreamInv, Finish
    PROVE  StreamInv'
<1> USE DEF StreamInv
<1>1. /\ pc = "idle"
      /\ UNCHANGED <<sessionVars, feederVars, planVars, frames, handed>>
  BY DEF Finish
<1>2. CASE total < MinFrames
  BY <1>1, <1>2, MovesOn DEF Finish
<1>3. CASE ~(total < MinFrames)
  <2>1. /\ Primed' = Primed /\ DetectorStream' = DetectorStream
        /\ QuantumComplete' = QuantumComplete /\ Evicted' = Evicted
        /\ total' = total /\ retained' = retained /\ extracted' = extracted
        /\ training' = training
        /\ SessionTypeOK' = SessionTypeOK /\ Boundary' = Boundary
        /\ quanta' = quanta /\ scanCursor' = scanCursor
        /\ nextCenter' = nextCenter /\ previousCenter' = previousCenter
        /\ previousMode' = previousMode /\ currentMode' = currentMode
        /\ codes' = codes
        /\ modes' = modes /\ planner' = planner /\ plans' = plans
        /\ pending' = pending
        /\ Upcoming' = Upcoming
        /\ \A k : InSequence(k)' <=> InSequence(k)
        /\ \A k : GoesOnFrom(k)' <=> GoesOnFrom(k)
    BY <1>1, PlansStill
  <2>2. /\ pc' = "drain" /\ frames' = frames /\ handed' = handed
        /\ ~Planned /\ ~Planned'
    BY <1>1, <1>3 DEF Finish, Planned
  <2>3. /\ total \in Nat /\ nextCenter \in Nat /\ Lookahead \in Nat
        /\ MinFrames \in Nat /\ Len(plans) \in Nat
        /\ pending = NoCentre /\ Len(frames) = Len(plans) /\ handed = Len(frames)
        /\ Upcoming = nextCenter
    BY <1>1, Shapes, Bounds DEF CallInv, Upcoming
  <2>4. Primed /\ total < nextCenter + Lookahead
    BY <1>1, <1>3, <2>3 DEF Primed, CallInv
  <2>5. Typed'
    BY <2>1, <2>2 DEF Typed
  <2>6. CallInv'
    BY <1>1, <2>1, <2>2, <2>4 DEF CallInv
  <2>7. SelectorInv'
    BY <1>1, <2>1, <2>2 DEF SelectorInv
  <2>8. TimelineInv'
    BY <2>1, <2>2 DEF TimelineInv
  <2>9. PlansInv'
    BY <2>1, <2>2 DEF PlansInv
  <2>10. RingInv'
    BY <2>1, <2>2 DEF RingInv
  <2>11. EndInv'
    BY <2>1, <2>2 DEF EndInv
  <2>12. DeferInv'
    <3>1. Deferred(nextCenter, Len(plans) + 1)
      <4>1. (Len(plans) + 1 - handed - 1) * (Short \div 2) = 0
        <5>1. Len(plans) + 1 - handed - 1 = 0
          BY <2>3
        <5>2. Short \div 2 \in Int
          BY Sizes
        <5> QED
          BY <5>1, <5>2
      <4> QED
        BY <2>3, <2>4, <4>1 DEF Deferred
    <3>2. \A c, k : Deferred(c, k)' <=> Deferred(c, k)
      BY <2>1, <2>2 DEF Deferred
    <3>3. \A k \in handed' + 1 .. Len(plans') : FALSE
      BY <2>1, <2>2, <2>3
    <3> QED
      BY <2>1, <2>3, <3>1, <3>2, <3>3 DEF DeferInv
  <2> QED
    BY <2>5, <2>6, <2>7, <2>8, <2>9, <2>10, <2>11, <2>12
<1> QED
  BY <1>2, <1>3

\* The training window of the tail is at hand.
LEMMA TailKeeps ==
    ASSUME StreamInv, ComputeTail
    PROVE  StreamInv'
<1> USE DEF StreamInv
<1> DEFINE window == Least(Long, LongHalf + total - nextCenter)
<1>1. /\ pc = "tail"
      /\ UNCHANGED <<sessionVars, total, retained, extracted, planVars,
                     frames, handed>>
  BY DEF ComputeTail
<1>2. /\ total \in Nat /\ retained \in Nat /\ retained <= total /\ extracted \in Nat
      /\ nextCenter \in Nat /\ ~Planned /\ Primed /\ training = NoTail
  BY <1>1, Shapes DEF Typed, CallInv, Planned
<1>3. /\ Quarter(0) \in Nat /\ Quarter(1) \in Nat /\ 0 < Quarter(0)
      /\ 2 * Quarter(0) <= Quarter(1) /\ Long = 4 * Quarter(1)
      /\ LongHalf = 2 * Quarter(1)
  BY Sizes
<1>4. /\ Hop \in Nat /\ 0 < Hop /\ TailContext \in Nat /\ MinFrames \in Nat
      /\ RingKeep \in Nat /\ StreamTail \in Nat
      /\ Long <= MinFrames /\ MinFrames <= RingKeep
      /\ TailContext + Quarter(0) < Quarter(1) + 2 * Hop /\ TailContext < Long
      /\ Lookahead + 2 * Quarter(1) <= RingKeep
      /\ 3 * Quarter(1) + Quarter(0) + 3 * Hop <= Lookahead /\ Lookahead \in Nat
  BY Bounds
<1>5. nextCenter = 0 \/ nextCenter + 2 * Hop <= total + Quarter(1) + Quarter(0)
  <2>1. nextCenter = 0 \/ nextCenter + 2 * Hop <= total + Long \div 4 + Short \div 4
    BY <1>1 DEF SelectorInv
  <2> QED
    BY <2>1, Sizes
<1>6. total >= Long /\ total >= MinFrames /\ retained >= Long
  <2>1. total >= MinFrames
    BY <1>2 DEF Primed
  <2>2. retained >= Least(total, RingKeep)
    BY DEF RingInv
  <2> QED
    BY <1>2, <1>3, <1>4, <2>1, <2>2 DEF Least
<1>7. window \in 1 .. Long /\ TailContext < window
  <2>2. CASE nextCenter = 0
    BY <1>2, <1>3, <1>4, <1>6, <2>2 DEF Least
  <2>3. CASE nextCenter + 2 * Hop <= total + Quarter(1) + Quarter(0)
    <3>1. LongHalf + total - nextCenter >= 2 * Hop + Quarter(1) - Quarter(0)
      BY <1>2, <1>3, <1>4, <2>3
    <3> QED
      BY <1>2, <1>3, <1>4, <3>1 DEF Least
  <2> QED
    BY <1>5, <2>2, <2>3
<1>8. training' = window /\ pc' = "tailIngest"
  <2>1. window <= total /\ window <= retained
    BY <1>2, <1>3, <1>6, <1>7
  <2> QED
    BY <1>7, <2>1 DEF ComputeTail
<1>9. training' \in 0 .. Long /\ training' # NoTail
  BY <1>7, <1>8 DEF NoTail
<1> HIDE DEF window
<1>10. /\ total' = total /\ retained' = retained /\ extracted' = extracted
       /\ modes' = modes /\ planner' = planner /\ plans' = plans /\ pending' = pending
       /\ frames' = frames /\ handed' = handed
       /\ Evicted' = Evicted /\ Primed' = Primed /\ ~Planned'
  BY <1>1, <1>8 DEF planVars, Evicted, Primed, Planned
<1>11. /\ SessionTypeOK' = SessionTypeOK /\ Boundary' = Boundary
       /\ quanta' = quanta /\ scanCursor' = scanCursor
       /\ nextCenter' = nextCenter /\ previousCenter' = previousCenter
       /\ previousMode' = previousMode /\ currentMode' = currentMode
       /\ codes' = codes
  BY <1>1, SessionStill
<1>12. Upcoming' = Upcoming
  BY <1>10, <1>11 DEF Upcoming
<1>13. Typed'
  BY <1>8, <1>9, <1>10, <1>11 DEF Typed
<1>14. CallInv'
  BY <1>1, <1>8, <1>9, <1>10 DEF CallInv
<1>15. SelectorInv'
  <2>1. quanta * Hop + Hop \in Int
    <3>1. quanta \in Nat
      BY DEF Typed, SessionTypeOK
    <3> QED
      BY <1>4, <3>1
  <2>2. DetectorStream \in Int /\ DetectorStream' \in Int
        /\ DetectorStream <= DetectorStream'
    BY <1>2, <1>3, <1>4, <1>9, <1>10 DEF DetectorStream
  <2> QED
    BY <1>8, <1>10, <1>11, <2>1, <2>2 DEF SelectorInv
<1>16. TimelineInv'
  BY <1>2, <1>10, <1>11, <1>12 DEF TimelineInv
<1>17. PlansInv'
  <2>1. \A k : InSequence(k)' <=> InSequence(k)
    BY <1>10 DEF InSequence
  <2>2. \A k : GoesOnFrom(k)' <=> GoesOnFrom(k)
    BY <1>10 DEF GoesOnFrom
  <2> QED
    BY <1>2, <1>10, <2>1, <2>2 DEF PlansInv
<1>18. RingInv'
  BY <1>2, <1>10, <1>12 DEF RingInv
<1>19. EndInv'
  BY <1>2, <1>10, <1>11 DEF EndInv
<1>20. DeferInv'
  BY <1>1, <1>2, <1>10, <1>12 DEF DeferInv, Deferred
<1> QED
  BY <1>13, <1>14, <1>15, <1>16, <1>17, <1>18, <1>19, <1>20

-----------------------------------------------------------------------------
\* The frames, and the last plan.

\* The samples of a planned frame are at hand when its turn comes.
LEMMA FrameHeld ==
    ASSUME StreamInv, pc \in {"pump", "flush"}, ~AllEmitted,
           NEW plan, plan = plans[Len(frames) + 1]
    PROVE  /\ FrameAtHand(plan) /\ InOrder(plan)
           /\ plan \in PlanRecords /\ Len(frames) + 1 \in 1 .. Len(plans)
           /\ Len(frames) \in Nat
<1> USE DEF StreamInv
<1> DEFINE n == Len(frames) + 1
<1>1. /\ Len(frames) \in Nat /\ Len(plans) \in Nat /\ n \in 1 .. Len(plans)
      /\ n \in Len(frames) + 1 .. Len(plans) /\ plans \in Seq(PlanRecords)
  <2>1. Len(frames) \in Nat /\ Len(plans) \in Nat
    BY Shapes
  <2>2. Len(frames) <= Len(plans) /\ Len(frames) # Len(plans)
    BY DEF CallInv, AllEmitted
  <2> QED
    BY <2>1, <2>2 DEF Typed
<1>2. plan \in PlanRecords
  BY <1>1
<1>3. /\ CentreOf(plan) \in Int /\ plan.start \in Int
      /\ Quarter(plan.current) \in Nat /\ Quarter(plan.current) <= Quarter(1)
      /\ CentreOf(plan) = plan.start - LongHalf + 2 * Quarter(plan.current)
      /\ plan.end = plan.start + 4 * Quarter(plan.current)
  <2>1. plan.current \in Modes
    BY <1>2 DEF PlanRecords
  <2>2. BlockSize(plan.current) = 4 * Quarter(plan.current)
    BY <2>1, BlockQuarter
  <2>3. plan.end = plan.start + BlockSize(plan.current)
    BY <1>1 DEF PlansInv, InSequence
  <2> QED
    BY <1>2, <2>2, <2>3, CentreInteger
<1>4. /\ Quarter(1) \in Nat /\ LongHalf = 2 * Quarter(1) /\ LongHalf \in Nat
  BY Sizes
<1>5. /\ total \in Nat /\ retained \in 0 .. total /\ Lookahead \in Nat
      /\ 2 * Quarter(1) <= Lookahead
  <2>1. /\ 3 * Quarter(1) + Quarter(0) + 3 * Hop <= Lookahead
        /\ Lookahead \in Nat /\ Hop \in Nat
    BY Bounds
  <2>2. Quarter(0) \in Nat
    BY Sizes
  <2>3. 2 * Quarter(1) <= Lookahead
    BY <1>4, <2>1, <2>2
  <2> QED
    BY <2>1, <2>3, Shapes DEF Typed
<1> DEFINE from == plan.start - LongHalf
           to == plan.end - LongHalf
<1>6. /\ from \in Int /\ to \in Int
      /\ from = CentreOf(plan) - 2 * Quarter(plan.current)
      /\ to = CentreOf(plan) + 2 * Quarter(plan.current)
  <2> DEFINE q == Quarter(plan.current)
             c == CentreOf(plan)
             a == plan.start
             b == plan.end
             h == LongHalf
  <2>1. q \in Int /\ c \in Int /\ a \in Int /\ h \in Int
    BY <1>3, <1>4
  <2>2. c = a - h + 2 * q /\ b = a + 4 * q
    BY <1>3
  <2> HIDE DEF q, c, a, b, h
  <2>3. /\ a - h \in Int /\ b - h \in Int
        /\ a - h = c - 2 * q /\ b - h = c + 2 * q
    BY <2>1, <2>2
  <2> QED
    BY <2>3 DEF q, c, a, b, h
<1> HIDE DEF from, to
<1>7. total - retained <= Greatest(CentreOf(plan) - LongHalf, 0)
  BY <1>1 DEF RingInv, Evicted
<1>8. Greatest(CentreOf(plan) - LongHalf, 0) <= Greatest(from, 0)
  <2>1. CentreOf(plan) - LongHalf <= from
    BY <1>3, <1>4, <1>6
  <2>2. CentreOf(plan) - LongHalf \in Int
    BY <1>3, <1>4
  <2> QED
    BY <1>6, <2>1, <2>2 DEF Greatest
<1>9. Retained(from, to)
  <2> SUFFICES ASSUME NEW i \in Greatest(from, 0) .. Least(to, total) - 1
               PROVE  i >= total - retained
    BY DEF Retained
  <2>1. /\ Greatest(from, 0) \in Int /\ Greatest(CentreOf(plan) - LongHalf, 0) \in Int
    BY <1>3, <1>4, <1>6 DEF Greatest
  <2>2. i \in Int /\ Greatest(from, 0) <= i
    BY <2>1
  <2> QED
    BY <1>5, <1>7, <1>8, <2>1, <2>2
<1>10. Primed /\ (to <= total \/ training # NoTail)
  <2>1. CASE pc = "flush"
    BY <2>1 DEF CallInv
  <2>2. CASE pc = "pump"
    <3>1. Primed /\ CentreOf(plan) + Lookahead <= total
      BY <1>1, <2>2 DEF CallInv
    <3> QED
      BY <1>3, <1>4, <1>5, <1>6, <3>1
  <2> QED
    BY <2>1, <2>2
<1>11. FrameAtHand(plan)
  BY <1>9, <1>10 DEF FrameAtHand, from, to
<1>12. InOrder(plan)
  <2>1. InSequence(n) /\ plan.index = Len(frames)
    <3>1. InSequence(n)
      BY <1>1 DEF PlansInv
    <3> QED
      BY <1>1, <3>1 DEF InSequence
  <2>2. ASSUME frames # <<>>
        PROVE  /\ plan.previous = frames[Len(frames)].plan.current
               /\ plan.current = frames[Len(frames)].plan.following
    <3>1. Len(frames) # 0
      BY <1>1, <2>2, EmptySeq, LenProperties DEF Typed
    <3>2. Len(frames) \in 1 .. Len(frames) /\ n # 1 /\ n - 1 = Len(frames)
      BY <1>1, <3>1
    <3>3. frames[Len(frames)].plan = plans[Len(frames)]
      BY <3>2 DEF PlansInv
    <3> QED
      BY <2>1, <3>2, <3>3 DEF InSequence
  <2> QED
    BY <2>1, <2>2 DEF InOrder
<1> QED
  BY <1>1, <1>2, <1>11, <1>12

\* A frame is emitted.
LEMMA EmitKeeps ==
    ASSUME StreamInv, EmitFrame
    PROVE  StreamInv'
<1> USE DEF StreamInv
<1> DEFINE plan == plans[Len(frames) + 1]
           frame == [plan |-> plan, past |-> Past(plan), code |-> codes[Len(frames) + 1]]
<1>1. /\ pc \in {"pump", "flush"} /\ ~AllEmitted
      /\ UNCHANGED <<sessionVars, feederVars, planVars, handed>>
  BY DEF EmitFrame
<1>2. /\ FrameAtHand(plan) /\ InOrder(plan)
      /\ plan \in PlanRecords /\ Len(frames) + 1 \in 1 .. Len(plans)
      /\ Len(frames) \in Nat
  BY <1>1, FrameHeld
<1>3. frames' = Append(frames, frame) /\ pc' = pc
  BY <1>2 DEF EmitFrame
<1>4. /\ frames \in Seq(FrameRecords) /\ codes \in Seq(0 .. 3) /\ training \in 0 .. Long
      /\ total \in Nat /\ Len(plans) \in Nat /\ Len(codes) = Len(modes)
      /\ Len(modes) \in Nat /\ handed \in Nat
  BY Shapes DEF Typed, SessionTypeOK
<1>5. codes[Len(frames) + 1] \in 0 .. 3
  <2>1. Len(plans) <= Len(modes)
    BY <1>4, Shapes DEF TimelineInv
  <2> QED
    BY <1>2, <1>4, <2>1, ElementOfSeq
<1>6. Past(plan) \in [trained : Nat, predicted : Int]
  <2>1. plan.start \in Int /\ plan.current \in Modes /\ plan.following \in Modes
    BY <1>2 DEF PlanRecords
  <2>2. /\ BlockSize(plan.current) \in Nat /\ BlockSize(plan.following) \in Nat
        /\ Short \in Nat /\ LongHalf \in Nat /\ Long \in Nat
    <3>1. Quarter(plan.current) \in Nat /\ BlockSize(plan.current) = 4 * Quarter(plan.current)
      BY <2>1, BlockQuarter
    <3>2. /\ Quarter(plan.following) \in Nat
          /\ BlockSize(plan.following) = 4 * Quarter(plan.following)
      BY <2>1, BlockQuarter
    <3>3. LongHalf \in Nat
      BY Sizes
    <3> QED
      BY <3>1, <3>2, <3>3, BlockSizesAssumption
  <2>3. WindowEnd(plan) \in Int
    BY <2>1, <2>2 DEF WindowEnd
  <2>4. training \in Nat
    BY <1>4, <2>2
  <2> QED
    BY <1>4, <2>2, <2>3, <2>4 DEF Past, Least
<1>7. frame \in FrameRecords
  BY <1>2, <1>5, <1>6 DEF FrameRecords
<1>8. frame.plan = plan
  OBVIOUS
<1> HIDE DEF frame
<1>9. /\ frames' \in Seq(FrameRecords) /\ Len(frames') = Len(frames) + 1
      /\ \A k \in 1 .. Len(frames) : frames'[k] = frames[k]
      /\ frames'[Len(frames) + 1] = frame
  BY <1>3, <1>4, <1>7, Appended
<1>10. /\ Primed' = Primed /\ DetectorStream' = DetectorStream
       /\ QuantumComplete' = QuantumComplete /\ Evicted' = Evicted
       /\ total' = total /\ retained' = retained /\ extracted' = extracted
       /\ training' = training
       /\ SessionTypeOK' = SessionTypeOK /\ Boundary' = Boundary
       /\ quanta' = quanta /\ scanCursor' = scanCursor
       /\ nextCenter' = nextCenter /\ previousCenter' = previousCenter
       /\ previousMode' = previousMode /\ currentMode' = currentMode
       /\ codes' = codes
       /\ modes' = modes /\ planner' = planner /\ plans' = plans
       /\ pending' = pending
       /\ Upcoming' = Upcoming
       /\ \A k : InSequence(k)' <=> InSequence(k)
       /\ \A k : GoesOnFrom(k)' <=> GoesOnFrom(k)
  BY <1>1, PlansStill
<1>11. handed' = handed /\ Planned' = Planned
  BY <1>1, <1>3 DEF Planned
<1>12. Typed'
  BY <1>3, <1>9, <1>10, <1>11 DEF Typed
<1>13. \A k \in Len(frames') + 1 .. Len(plans') : k \in Len(frames) + 1 .. Len(plans)
  BY <1>2, <1>4, <1>9, <1>10
<1>14. CallInv'
  <2>1. handed' <= Len(frames') /\ Len(frames') <= Len(plans')
    <3>1. handed <= Len(frames)
      BY DEF CallInv
    <3> QED
      BY <1>2, <1>4, <1>9, <1>10, <1>11, <3>1
  <2>2. pc' = "pump" =>
           \A k \in Len(frames') + 1 .. Len(plans') :
                Primed /\ CentreOf(plans[k]) + Lookahead <= total
    BY <1>3, <1>13 DEF CallInv
  <2> QED
    BY <1>1, <1>3, <1>10, <2>1, <2>2 DEF CallInv
<1>15. SelectorInv'
  BY <1>3, <1>10 DEF SelectorInv
<1>16. TimelineInv'
  BY <1>10, <1>11 DEF TimelineInv
<1>17. PlansInv'
  <2>1. ASSUME NEW k \in 1 .. Len(frames') PROVE frames'[k].plan = plans[k]
    <3>1. CASE k \in 1 .. Len(frames)
      BY <1>9, <3>1 DEF PlansInv
    <3>2. CASE k = Len(frames) + 1
      BY <1>8, <1>9, <3>2
    <3> QED
      BY <1>2, <1>9, <3>1, <3>2
  <2> QED
    BY <1>10, <1>11, <2>1 DEF PlansInv
<1>18. RingInv'
  BY <1>10, <1>11, <1>13 DEF RingInv
<1>19. EndInv'
  BY <1>10, <1>11 DEF EndInv
<1>20. DeferInv'
  BY <1>3, <1>10, <1>11 DEF DeferInv, Deferred
<1> QED
  BY <1>12, <1>14, <1>15, <1>16, <1>17, <1>18, <1>19, <1>20

\* The block centred at or past the end of the source is planned last.
LEMMA TerminalKeeps ==
    ASSUME StreamInv, TailTerminal
    PROVE  StreamInv'
<1> USE DEF StreamInv
<1>1. /\ pc = "tailScan" /\ ~AllPlanned /\ ~CentredInSource
      /\ EmitPlan(1, "flush")
      /\ UNCHANGED <<selectorVars, cursorVars, feederVars, frames, handed>>
  BY DEF TailTerminal
<1>2. /\ pending # NoCentre /\ Len(plans) \in Nat /\ Len(modes) = Len(plans) + 1
      /\ pending \in Nat /\ total \in Nat /\ Len(codes) = Len(modes)
      /\ Len(frames) \in Nat
  BY <1>1, Shapes
<1>3. ~Planned /\ 1 \in Modes
  BY <1>1 DEF Planned, Modes
<1>4. PICK p \in PlanRecords : PlanAdded(1, p)
  BY <1>1, <1>2, <1>3, PlanMade
<1>5. pc' = "flush" /\ Planned'
  BY <1>1, <1>2, <1>3, PlanMade DEF Planned
<1>6. /\ Primed' = Primed /\ DetectorStream' = DetectorStream
      /\ QuantumComplete' = QuantumComplete /\ Evicted' = Evicted
      /\ total' = total /\ retained' = retained /\ extracted' = extracted
      /\ training' = training
  BY <1>1, FeederStill
<1>7. /\ quanta' = quanta /\ queue' = queue /\ selected' = selected
      /\ scanCursor' = scanCursor
      /\ nextCenter' = nextCenter /\ previousCenter' = previousCenter
      /\ previousMode' = previousMode /\ currentMode' = currentMode
      /\ Boundary' = Boundary
  BY <1>1 DEF selectorVars, cursorVars, Boundary, Center
<1>8. codes' \in Seq(0 .. 3) /\ Len(codes') = Len(codes)
  <2>1. PICK before, current : codes' = FinalizedCodes(before, current)
    BY DEF TailTerminal
  <2>2. codes \in Seq(0 .. 3) /\ Len(codes) \in 1 .. Len(codes)
    BY <1>2 DEF Typed, SessionTypeOK
  <2>3. CASE current = 1
    <3> DEFINE e == IF before # 0 THEN 3 ELSE 2
    <3>1. e \in 0 .. 3
      OBVIOUS
    <3>2. codes' = [codes EXCEPT ![Len(codes)] = e]
      BY <2>1, <2>3 DEF FinalizedCodes
    <3> HIDE DEF e
    <3> QED
      BY <2>2, <3>1, <3>2, ExceptSeq
  <2>4. CASE current # 1
    BY <2>1, <2>2, <2>4 DEF FinalizedCodes
  <2> QED
    BY <2>3, <2>4
<1>9. frames' = frames /\ handed' = handed /\ modes' = modes /\ pending' = NoCentre
  BY <1>1, <1>4 DEF PlanAdded
<1>10. plans \in Seq(PlanRecords) /\ modes \in Seq(Modes)
  BY DEF Typed
<1>11. /\ plans' \in Seq(PlanRecords) /\ Len(plans') = Len(plans) + 1 /\ plans' # <<>>
       /\ \A k \in 1 .. Len(plans) : plans'[k] = plans[k]
       /\ plans'[Len(plans) + 1] = p
  BY <1>4, <1>10, Appended DEF PlanAdded
<1>12. Upcoming = pending
  BY <1>2 DEF Upcoming
<1>13. SessionTypeOK'
  BY <1>7, <1>8 DEF SessionTypeOK, Typed
<1>14. Typed'
  BY <1>4, <1>5, <1>6, <1>9, <1>11, <1>13 DEF Typed, PlanAdded
<1>15. CallInv'
  <2>1. handed' <= Len(frames') /\ Len(frames') <= Len(plans')
    <3>1. handed <= Len(frames) /\ Len(frames) <= Len(plans)
      BY DEF CallInv
    <3> QED
      BY <1>2, <1>9, <1>11, <3>1
  <2> QED
    BY <1>1, <1>5, <1>6, <2>1 DEF CallInv
<1>16. SelectorInv'
  BY <1>5, <1>6, <1>7 DEF SelectorInv
<1>17. TimelineInv'
  <2>1. Len(codes') = Len(modes') /\ Len(modes') = Len(plans')
    BY <1>2, <1>8, <1>9, <1>11
  <2>2. planner'.cursor = LongHalf
    BY <1>4 DEF PlanAdded
  <2> QED
    BY <1>2, <1>5, <1>7, <1>9, <1>11, <2>1, <2>2 DEF TimelineInv
<1>18. PlansInv'
  <2>1. ASSUME NEW k \in 1 .. Len(plans') PROVE InSequence(k)'
    <3>1. CASE k \in 1 .. Len(plans)
      <4>1. plans'[k] = plans[k] /\ (k # 1 => plans'[k - 1] = plans[k - 1])
        BY <1>2, <1>11, <3>1
      <4> QED
        BY <3>1, <4>1 DEF InSequence, PlansInv
    <3>2. CASE k = Len(plans) + 1
      <4>1. plans'[k] = p /\ p.index = k - 1
        BY <1>2, <1>4, <1>11, <3>2 DEF PlanAdded
      <4>2. k = 1 <=> plans = <<>>
        BY <1>2, <1>10, <3>2, EmptySeq, LenProperties
      <4>3. k # 1 => k - 1 = Len(plans) /\ plans'[k - 1] = plans[Len(plans)]
        BY <1>2, <1>11, <3>2
      <4> QED
        BY <1>4, <4>1, <4>2, <4>3 DEF InSequence, PlanAdded
    <3> QED
      BY <1>2, <1>11, <2>1, <3>1, <3>2
  <2>2. ASSUME NEW k \in 1 .. Len(frames') PROVE frames'[k].plan = plans'[k]
    <3>1. k \in 1 .. Len(frames) /\ k \in 1 .. Len(plans)
      BY <1>2, <1>9, <2>2 DEF CallInv
    <3> QED
      BY <1>9, <1>11, <3>1 DEF PlansInv
  <2> QED
    BY <1>5, <2>1, <2>2 DEF PlansInv
<1>19. RingInv'
  <2>1. ASSUME NEW k \in Len(frames') + 1 .. Len(plans')
        PROVE  Evicted' <= Greatest(CentreOf(plans'[k]) - LongHalf, 0)
    <3>1. CASE k = Len(plans) + 1
      BY <1>3, <1>4, <1>6, <1>11, <1>12, <3>1 DEF RingInv, PlanAdded
    <3>2. CASE k # Len(plans) + 1
      <4>1. k \in Len(frames) + 1 .. Len(plans) /\ k \in 1 .. Len(plans)
        BY <1>2, <1>9, <1>11, <2>1, <3>2
      <4> QED
        BY <1>6, <1>11, <4>1 DEF RingInv
    <3> QED
      BY <3>1, <3>2
  <2> QED
    BY <1>5, <1>6, <2>1 DEF RingInv
<1>20. EndInv'
  <2>1. ASSUME NEW k \in 1 .. Len(plans')
        PROVE  CentreOf(plans'[k]) >= total' <=> k = Len(plans')
    <3>1. CASE k = Len(plans) + 1
      <4>1. CentreOf(plans'[k]) = pending
        BY <1>4, <1>11, <3>1 DEF PlanAdded
      <4> QED
        BY <1>1, <1>2, <1>6, <1>11, <3>1, <4>1 DEF CentredInSource
    <3>2. CASE k # Len(plans) + 1
      <4>1. k \in 1 .. Len(plans)
        BY <1>2, <1>11, <2>1, <3>2
      <4>2. CentreOf(plans[k]) < total /\ CentreOf(plans[k]) \in Int
        BY <1>3, <1>10, <4>1, CentreInteger DEF EndInv
      <4> QED
        BY <1>2, <1>6, <1>11, <3>2, <4>1, <4>2
    <3> QED
      BY <3>1, <3>2
  <2> QED
    BY <1>5, <1>11, <2>1 DEF EndInv
<1>21. DeferInv'
  <2>1. \A c, k : Deferred(c, k)' <=> Deferred(c, k)
    BY <1>6, <1>9 DEF Deferred
  <2>2. handed \in Nat
    BY DEF Typed
  <2>3. Deferred(pending, Len(plans) + 1)
    BY <1>1, <1>3, <1>12 DEF DeferInv
  <2>4. ASSUME NEW k \in handed' + 1 .. Len(plans') PROVE Deferred(CentreOf(plans'[k]), k)
    <3>1. CASE k = Len(plans) + 1
      BY <1>4, <1>11, <2>3, <3>1 DEF PlanAdded
    <3>2. CASE k # Len(plans) + 1
      <4>1. k \in handed + 1 .. Len(plans) /\ k \in 1 .. Len(plans)
        BY <1>2, <1>9, <1>11, <2>2, <2>4, <3>2
      <4> QED
        BY <1>1, <1>11, <4>1 DEF DeferInv
    <3> QED
      BY <3>1, <3>2
  <2> QED
    BY <1>5, <1>11, <2>1, <2>4 DEF DeferInv
<1> QED
  BY <1>14, <1>15, <1>16, <1>17, <1>18, <1>19, <1>20, <1>21

-----------------------------------------------------------------------------
\* The initial state, and every step.

\* Every session starts in the invariant.
LEMMA InitHolds == ASSUME Init PROVE StreamInv
<1>1. /\ quanta = 0 /\ queue = {} /\ selected = 0 /\ scanCursor = LongHalf
      /\ nextCenter = 0 /\ previousCenter = -1
      /\ previousMode = 0 /\ currentMode = 0 /\ codes = <<>>
      /\ pc = "idle"
      /\ total = 0 /\ retained = 0 /\ extracted = 0 /\ training = NoTail
      /\ modes = <<>> /\ plans = <<>> /\ pending = NoCentre
      /\ planner = FreshPlanner(0)
      /\ frames = <<>> /\ handed = 0
  BY DEF Init, SessionInit
<1>2. /\ Quarter(0) \in Nat /\ Quarter(1) \in Nat /\ 0 < Quarter(0)
      /\ 2 * Quarter(0) <= Quarter(1) /\ LongHalf = 2 * Quarter(1)
      /\ LongHalf \in Nat
  BY Sizes
<1>3. /\ Hop \in Nat /\ 0 < Hop /\ MinFrames \in Nat /\ MaxFrames \in Nat
      /\ RingKeep \in Nat /\ Long \in Nat /\ 0 < MinFrames
  <2>1. /\ Hop \in Nat /\ 0 < Hop /\ MinFrames \in Nat /\ MaxFrames \in Nat
        /\ RingKeep \in Nat /\ Long <= MinFrames
    BY Bounds
  <2> QED
    BY <2>1, BlockSizesAssumption
<1>4. SessionTypeOK
  BY <1>1, <1>2 DEF SessionTypeOK, Modes
<1>5. ~Primed /\ ~QuantumComplete /\ ~Planned /\ Upcoming = 0
  BY <1>1, <1>3 DEF Primed, QuantumComplete, DetectorStream, Window, Planned, Upcoming
<1>6. Typed
  <2>1. planner \in PlannerStates
    BY <1>1, <1>2 DEF FreshPlanner, PlannerStates, Modes
  <2>2. /\ total \in 0 .. MaxFrames /\ retained \in 0 .. total /\ training \in 0 .. Long
    BY <1>1, <1>3 DEF NoTail
  <2> QED
    BY <1>1, <1>4, <2>1, <2>2 DEF Typed
<1>7. CallInv
  BY <1>1, <1>5 DEF CallInv
<1>8. SelectorInv
  <2>1. scanCursor < Boundary
    <3>1. Boundary = 0 + Quarter(0) + 4 * Quarter(1) + Quarter(0)
      BY <1>1, <1>4, BoundaryValue
    <3> QED
      BY <1>1, <1>2, <3>1
  <2>2. scanCursor % Hop = 0
    BY <1>1, HopAssumption
  <2>3. nextCenter % Hop = 0
    BY <1>1, <1>3
  <2> QED
    BY <1>1, <2>1, <2>2, <2>3 DEF SelectorInv
<1>9. TimelineInv
  BY <1>1, <1>5 DEF TimelineInv, FreshPlanner
<1>10. PlansInv
  BY <1>1 DEF PlansInv
<1>11. RingInv
  BY <1>1, <1>2, <1>3 DEF RingInv, Evicted, Least, Greatest, Upcoming
<1>12. EndInv
  BY <1>1, <1>5 DEF EndInv
<1>13. DeferInv
  BY <1>1 DEF DeferInv
<1> QED
  BY <1>6, <1>7, <1>8, <1>9, <1>10, <1>11, <1>12, <1>13 DEF StreamInv

\* A call that runs keeps the invariant, and no scan of a push rests undecided.
LEMMA RunKeeps ==
    ASSUME StreamInv, Run
    PROVE  StreamInv'
<1> USE DEF StreamInv
<1>1. /\ pending # NoCentre <=> ~AllPlanned
      /\ total \in Nat /\ nextCenter \in Nat
  BY Shapes
<1>2. CASE QuantaIngested
  BY <1>2, MovesOn DEF QuantaIngested
<1>3. CASE EmitFrame
  BY <1>3, EmitKeeps
<1>4. CASE PumpPlan
  BY <1>1, <1>4, PlanKeeps DEF PumpPlan
<1>5. CASE PumpScan
  <2>1. /\ pc = "pump" /\ AllPlanned /\ ScanSafe(nextCenter)
        /\ pending = NoCentre
        /\ UNCHANGED <<feederVars, frames, handed>>
    BY <1>1, <1>5 DEF PumpScan
  <2>2. CASE /\ Decide(FALSE) /\ modes' = Append(modes, currentMode)
             /\ pending' = nextCenter /\ UNCHANGED <<pc, planner, plans>>
    BY <2>1, <2>2, DecideKeeps
  <2>3. CASE Undecided
    <3>1. /\ SessionTypeOK /\ quanta = extracted /\ training \in Nat
          /\ scanCursor % Hop = 0 /\ nextCenter % Hop = 0 /\ scanCursor < Boundary
          /\ ~QuantumComplete
      <4>1. Long \in Nat
        BY BlockSizesAssumption
      <4>2. training \in Nat
        BY <4>1 DEF Typed
      <4> QED
        BY <2>1, <4>2 DEF Typed, SelectorInv, CallInv
    <3>2. ~(Status < 0)
      BY <1>1, <2>1, <3>1, LookaheadDecides
    <3> QED
      BY <2>3, <3>2 DEF Undecided
  <2> QED
    BY <1>5, <2>1, <2>2, <2>3 DEF PumpScan, ModeIteration
<1>6. CASE PumpRests
  <2>1. pc # "settle"
    BY DEF Typed
  <2> QED
    BY <1>6, <2>1, RestKeeps DEF PumpRests
<1>7. CASE DrainPlan
  <2>1. CASE CentredInSource
    BY <1>1, <1>7, <2>1, PlanKeeps DEF DrainPlan
  <2>2. CASE ~CentredInSource
    BY <1>7, <2>2, MovesOn DEF DrainPlan
  <2> QED
    BY <2>1, <2>2
<1>8. CASE DrainScan
  <2>1. CASE HasSourceFrame(total)
    <3>1. /\ pc = "drain" /\ AllPlanned /\ pending = NoCentre
          /\ ModeIteration(FALSE, "tail")
          /\ UNCHANGED <<feederVars, frames, handed>>
      BY <1>1, <1>8, <2>1 DEF DrainScan
    <3>2. CASE /\ Decide(FALSE) /\ modes' = Append(modes, currentMode)
               /\ pending' = nextCenter /\ UNCHANGED <<pc, planner, plans>>
      BY <3>1, <3>2, DecideKeeps
    <3>3. CASE Undecided /\ pc' = "tail" /\ UNCHANGED planVars
      BY <3>1, <3>3, UndecidedKeeps
    <3> QED
      BY <3>1, <3>2, <3>3 DEF ModeIteration
  <2>2. CASE ~HasSourceFrame(total)
    BY <1>8, <2>2, MovesOn DEF DrainScan
  <2> QED
    BY <2>1, <2>2
<1>9. CASE ComputeTail
  BY <1>9, TailKeeps
<1>10. CASE TailPlan
  BY <1>1, <1>10, PlanKeeps DEF TailPlan
<1>11. CASE TailTerminal
  BY <1>11, TerminalKeeps
<1>12. CASE TailScan
  <2>1. pc = "tailScan" /\ AllPlanned /\ pending = NoCentre
        /\ UNCHANGED <<feederVars, frames, handed>>
    BY <1>1, <1>12 DEF TailScan
  <2>2. HasSourceFrame(total)
    BY <2>1 DEF HasSourceFrame, EndInv, Planned
  <2>3. /\ Decide(TRUE) /\ modes' = Append(modes, currentMode)
        /\ pending' = nextCenter /\ UNCHANGED <<pc, planner, plans>>
    BY <1>12, <2>1, <2>2 DEF TailScan, ModeIteration
  <2> QED
    BY <2>1, <2>3, DecideKeeps
<1>13. CASE Answer
  <2>1. Len(modes) = Len(plans)
    BY <1>13 DEF Answer, TimelineInv, Planned
  <2>2. pc' = "done"
    BY <1>13, <2>1 DEF Answer, AllEmitted
  <2> QED
    BY <1>13, <2>2, MovesOn DEF Answer
<1> QED
  BY <1>2, <1>3, <1>4, <1>5, <1>6, <1>7, <1>8, <1>9, <1>10, <1>11, <1>12, <1>13 DEF Run

\* Every step keeps the invariant.
LEMMA StepKeeps ==
    ASSUME StreamInv, [Next]_vars
    PROVE  StreamInv'
<1>1. CASE Next
  <2>1. ASSUME NEW n \in Chunks, PushChunk(n) PROVE StreamInv'
    BY <2>1, PushKeeps, StreamAssumption
  <2>2. CASE Finish
    BY <2>2, FinishKeeps
  <2>3. ASSUME NEW flags \in FlagWords, IngestQuantum(flags) PROVE StreamInv'
    BY <2>3, QuantumKeeps
  <2>4. CASE Run
    BY <2>4, RunKeeps
  <2> QED
    BY <1>1, <2>1, <2>2, <2>3, <2>4 DEF Next
<1>2. CASE UNCHANGED vars
  BY <1>2, MovesOn DEF vars, streamVars
<1> QED
  BY <1>1, <1>2

\* The inductive invariant holds of every session, over a source of any length
\* pushed in any chunks, whatever the detector hears.
THEOREM StreamInvHolds == Spec => []StreamInv
<1>1. Init => StreamInv
  BY InitHolds
<1>2. StreamInv /\ [Next]_vars => StreamInv'
  BY StepKeeps
<1> QED
  BY <1>1, <1>2, PTL DEF Spec

-----------------------------------------------------------------------------
\* What follows from the invariant.

\* A number of parts of one size fits into what they add up to.
LEMMA DividedBound ==
    ASSUME NEW d \in Nat, NEW h \in Nat, 0 < h, NEW x \in Nat, d * h <= x
    PROVE  d <= x \div h
<1>1. x = h * (x \div h) + (x % h) /\ x \div h \in Nat /\ x % h \in 0 .. h - 1
  OBVIOUS
<1> DEFINE q == x \div h
<1>2. d * h < (q + 1) * h
  <2>1. (q + 1) * h = h * q + h
    BY <1>1
  <2> QED
    BY <1>1, <2>1
<1> HIDE DEF q
<1>3. q \in Nat
  BY <1>1 DEF q
<1>4. ~(q + 1 <= d)
  BY <1>2, <1>3, TimesMonotone
<1> QED
  BY <1>3, <1>4 DEF q

\* Packets wait for finish only if their block was not decided by a push.
LEMMA DeferredCount ==
    ASSUME StreamInv, pc = "done"
    PROVE  DeferredTailBounded
<1> USE DEF StreamInv
<1> DEFINE n == Len(frames)
           half == Short \div 2
           d == n - handed
<1>1. /\ n \in Nat /\ handed \in Nat /\ n = Len(plans) /\ total \in Nat
      /\ d \in Nat /\ Lookahead \in Nat /\ plans \in Seq(PlanRecords)
  <2>1. handed <= n /\ n = Len(plans)
    BY DEF CallInv
  <2> QED
    BY <2>1, Shapes, Bounds DEF Typed
<1>2. /\ half \in Nat /\ 0 < half /\ LongHalf \in Nat
      /\ 2 * half <= LongHalf /\ half <= Lookahead
  <2>1. /\ Quarter(0) \in Nat /\ Quarter(1) \in Nat /\ 0 < Quarter(0)
        /\ 2 * Quarter(0) <= Quarter(1) /\ LongHalf = 2 * Quarter(1)
        /\ half = 2 * Quarter(0)
    BY Sizes
  <2>2. 3 * Quarter(1) + Quarter(0) + 3 * Hop <= Lookahead /\ Hop \in Nat
    BY Bounds
  <2> QED
    BY <1>1, <2>1, <2>2
<1> HIDE DEF half
<1>3. d * half <= Lookahead + LongHalf
  <2>1. CASE d = 0
    <3>1. d * half = 0
      BY <1>2, <2>1
    <3> QED
      BY <1>1, <1>2, <3>1
  <2>2. CASE d = 1
    <3>1. d * half = half
      BY <1>2, <2>2
    <3> QED
      BY <1>1, <1>2, <3>1
  <2>3. CASE 2 <= d
    <3>1. n - 1 \in handed + 1 .. Len(plans) /\ n - 1 \in 1 .. Len(plans)
          /\ n - 1 # Len(plans)
      BY <1>1, <2>3
    <3>2. Deferred(CentreOf(plans[n - 1]), n - 1)
      BY <3>1 DEF DeferInv
    <3>3. CentreOf(plans[n - 1]) < total /\ CentreOf(plans[n - 1]) \in Int
      <4>1. CentreOf(plans[n - 1]) \in Int
        BY <1>1, <3>1, CentreInteger
      <4>2. ~(CentreOf(plans[n - 1]) >= total)
        BY <3>1 DEF EndInv, Planned
      <4> QED
        BY <1>1, <4>1, <4>2
    <3>4. (n - 1 - handed - 1) * half = d * half - 2 * half /\ d * half \in Int
      <4>1. n - 1 - handed - 1 = d - 2
        BY <1>1
      <4>2. (d - 2) * half = d * half - 2 * half /\ d * half \in Int
        BY <1>1, <1>2
      <4> QED
        BY <4>1, <4>2
    <3>5. total - Lookahead + 1 + (n - 1 - handed - 1) * half <= CentreOf(plans[n - 1])
      BY <3>2 DEF Deferred, half
    <3> QED
      BY <1>1, <1>2, <3>3, <3>4, <3>5
  <2> QED
    BY <1>1, <2>1, <2>2, <2>3
<1>4. d <= (Lookahead + LongHalf) \div half
  <2>1. Lookahead + LongHalf \in Nat
    BY <1>1, <1>2
  <2> QED
    BY <1>1, <1>2, <1>3, <2>1, DividedBound
<1> QED
  BY <1>4 DEF DeferredTailBounded, half

\* What a decoder renders up to the last frame is where that frame is centred.
LEMMA RenderedIsCentre ==
    ASSUME StreamInv, frames # <<>>
    PROVE  RenderedFrames = CentreOf(frames[Len(frames)].plan)
<1> USE DEF StreamInv
<1> DEFINE centre(k) == CentreOf(frames[k].plan)
           rest(k) == (BlockSize(frames[k - 1].plan.current)
                       + BlockSize(frames[k].plan.current)) \div 4
           unfolds(g) == g = [k \in DOMAIN frames |->
                                IF k = 1 THEN 0 ELSE g[k - 1] + rest(k)]
           n == Len(frames)
<1>1. /\ n \in Nat /\ n # 0 /\ DOMAIN frames = 1 .. n /\ frames \in Seq(FrameRecords)
  BY EmptySeq, LenProperties DEF Typed
<1>2. ASSUME NEW k \in 1 .. n
      PROVE  /\ centre(k) \in Int
             /\ k = 1 => centre(k) = 0
             /\ k # 1 => centre(k) = centre(k - 1) + rest(k)
  <2>1. /\ k \in 1 .. Len(plans) /\ Len(plans) \in Nat /\ plans \in Seq(PlanRecords)
    <3>1. Len(plans) \in Nat /\ Len(frames) <= Len(plans)
      BY Shapes DEF CallInv
    <3> QED
      BY <1>1, <3>1 DEF Typed
  <2>2. frames[k].plan = plans[k] /\ plans[k] \in PlanRecords /\ InSequence(k)
    BY <2>1 DEF PlansInv
  <2>3. CASE k = 1
    BY <2>2, <2>3, CentreInteger DEF InSequence
  <2>4. CASE k # 1
    <3>1. k - 1 \in 1 .. n /\ k - 1 \in 1 .. Len(plans)
      BY <1>1, <2>1, <2>4
    <3>2. frames[k - 1].plan = plans[k - 1] /\ plans[k - 1] \in PlanRecords
      BY <2>1, <3>1 DEF PlansInv
    <3> DEFINE a == plans[k - 1].current
               b == plans[k].current
    <3>3. a \in Modes /\ b \in Modes
      BY <2>2, <3>2 DEF PlanRecords
    <3>4. /\ Quarter(a) \in Nat /\ Quarter(b) \in Nat
          /\ BlockSize(a) = 4 * Quarter(a) /\ BlockSize(b) = 4 * Quarter(b)
      BY <3>3, BlockQuarter
    <3>5. rest(k) = Quarter(a) + Quarter(b)
      <4>1. rest(k) = (4 * Quarter(a) + 4 * Quarter(b)) \div 4
        BY <2>2, <3>2, <3>4
      <4> QED
        BY <3>4, <4>1
    <3>6. centre(k) = centre(k - 1) + Quarter(a) + Quarter(b)
      BY <2>2, <2>4, <3>2 DEF InSequence
    <3>7. centre(k - 1) \in Int /\ centre(k) \in Int
      BY <2>2, <3>2, CentreInteger
    <3> HIDE DEF a, b, rest, centre
    <3> QED
      BY <2>4, <3>4, <3>5, <3>6, <3>7
  <2> QED
    BY <2>3, <2>4
<1> HIDE DEF centre, rest
<1>3. \E g : unfolds(g)
  <2> DEFINE g == [k \in DOMAIN frames |-> centre(k)]
  <2>1. ASSUME NEW k \in DOMAIN frames
        PROVE  g[k] = IF k = 1 THEN 0 ELSE g[k - 1] + rest(k)
    <3>1. k # 1 => k - 1 \in DOMAIN frames
      BY <1>1
    <3> QED
      BY <1>1, <1>2, <3>1
  <2>2. unfolds(g)
    BY <2>1
  <2> QED
    BY <2>2
<1>4. ASSUME NEW g, unfolds(g)
      PROVE  g[n] = centre(n)
  <2> DEFINE agrees == {m \in Nat : m \in 1 .. n => g[m] = centre(m)}
  <2>1. 0 \in agrees
    BY <1>1
  <2>2. ASSUME NEW m \in agrees PROVE m + 1 \in agrees
    <3> SUFFICES ASSUME m + 1 \in 1 .. n PROVE g[m + 1] = centre(m + 1)
      OBVIOUS
    <3>1. m \in Nat /\ m + 1 \in DOMAIN frames /\ (m + 1) - 1 = m
      BY <1>1
    <3>2. g[m + 1] = IF m + 1 = 1 THEN 0 ELSE g[m] + rest(m + 1)
      BY <1>4, <3>1
    <3>3. CASE m = 0
      BY <1>2, <3>2, <3>3
    <3>4. CASE m # 0
      <4>1. m \in 1 .. n /\ m + 1 # 1
        BY <1>1, <3>1, <3>4
      <4>2. g[m] = centre(m)
        BY <4>1
      <4> QED
        BY <1>2, <3>1, <3>2, <4>1, <4>2
    <3> QED
      BY <3>3, <3>4
  <2> HIDE DEF agrees
  <2>3. agrees \in SUBSET Nat
    BY DEF agrees
  <2>4. n \in agrees
    BY <1>1, <2>1, <2>2, <2>3, NatInduct
  <2> QED
    BY <1>1, <2>4 DEF agrees
<1>5. RenderedFrames = (CHOOSE g : unfolds(g))[n]
  BY DEF RenderedFrames, rest
<1> QED
  BY <1>3, <1>4, <1>5 DEF centre

-----------------------------------------------------------------------------
\* The properties of the runs.

\* Every variable keeps its kind.
THEOREM StreamTypeCorrect == Spec => []TypeOK
<1>1. ASSUME StreamInv PROVE TypeOK
  <2>1. /\ Typed /\ handed <= Len(frames) /\ Len(frames) <= Len(plans)
        /\ Len(plans) \in Nat /\ Len(modes) \in Nat /\ Len(frames) \in Nat
    BY <1>1, Shapes DEF StreamInv, CallInv
  <2>2. Len(plans) <= Len(modes)
    BY <1>1, <2>1 DEF StreamInv, TimelineInv
  <2>3. planner.current \in Modes /\ planner.previous \in Modes
    BY <2>1 DEF Typed, PlannerStates
  <2> QED
    BY <2>1, <2>2, <2>3 DEF Typed, TypeOK
<1> QED
  BY <1>1, StreamInvHolds, PTL

\* None of the internal errors of the session is ever answered
\* (stream.rs:219, 246, 260, 268 and 632, streaming.rs:329 and 454).
THEOREM NoInternalErrorEver == Spec => []NoInternalError
<1>1. StreamInv => NoInternalError
  BY DEF StreamInv, Typed, NoInternalError
<1> QED
  BY <1>1, StreamInvHolds, PTL

\* The detector hears every quantum of the stream (streaming.rs:240).
THEOREM EveryQuantumIsHeard == Spec => []QuantaNeverSkipped
<1>1. StreamInv => QuantaNeverSkipped
  BY DEF StreamInv, SelectorInv, QuantaNeverSkipped
<1> QED
  BY <1>1, StreamInvHolds, PTL

\* A scan a push runs decides its block: the look-ahead is long enough for
\* every mode of the block and every place the scan had got to
\* (stream.rs:75-83).
THEOREM LookaheadIsEnough == Spec => []LookaheadSuffices
<1>1. StreamInv => LookaheadSuffices
  BY DEF StreamInv, Typed, LookaheadSuffices
<1> QED
  BY <1>1, StreamInvHolds, PTL

\* Planner and selector centre the pending block on the same sample
\* (planner.rs:121, 142 and session.rs:453).
THEOREM TimelinesAgree == Spec => []PlannerInStep
<1>1. ASSUME StreamInv, pending # NoCentre
      PROVE  CentreOf(FramePlan(PlannerState, PendingFollowing)) = pending
  <2>1. ~Planned /\ Typed /\ TimelineInv
    BY <1>1 DEF StreamInv, TimelineInv
  <2>2. /\ PlannerState \in PlannerStates /\ PlannerState.cursor = LongHalf
        /\ PlannerState.base = pending
    BY <1>1, <2>1, PlannerReady
  <2>3. currentMode \in Modes
    BY <2>1 DEF Typed, SessionTypeOK
  <2> DEFINE state == PlannerState
             plan == FramePlan(state, currentMode)
             fed == AppendSamples(state, currentMode)
             after == AfterBlock(fed, currentMode)
  <2>4. state \in PlannerStates /\ state.cursor = LongHalf /\ state.base = pending
    BY <2>2
  <2> HIDE DEF state
  <2>5. CentreOf(plan) = state.base
    BY <2>3, <2>4, BlockPlanned
  <2> QED
    BY <2>4, <2>5 DEF PendingFollowing, state
<1> QED
  BY <1>1, StreamInvHolds, PTL DEF PlannerInStep

\* The packets that wait for finish are those of the look-ahead, however the
\* source was cut into chunks (stream.rs:39-43).
THEOREM DeferralIsBounded == Spec => []DeferredTailBounded
<1>1. StreamInv => DeferredTailBounded
  BY DeferredCount DEF DeferredTailBounded
<1> QED
  BY <1>1, StreamInvHolds, PTL

\* The last frame, and no other, is centred at or past the end of the source
\* (stream.rs:359 and 413).
THEOREM AnswerEndsAtSource == Spec => []EndsAtSource
<1>1. ASSUME StreamInv, pc = "done"
      PROVE  \A k \in DOMAIN frames :
                CentreOf(frames[k].plan) >= total <=> k = Len(frames)
  <2>1. /\ Len(frames) = Len(plans) /\ DOMAIN frames = 1 .. Len(frames)
    BY <1>1 DEF StreamInv, CallInv, Typed
  <2> QED
    BY <1>1, <2>1 DEF StreamInv, EndInv, PlansInv, Planned
<1> QED
  BY <1>1, StreamInvHolds, PTL DEF EndsAtSource

\* What the packets render reaches the end of the source, by less than half a
\* long block: the sum of the overlaps is the centre of the last frame
\* (packets.rs:177-197).
THEOREM RenderingCoversSource == Spec => []RenderedCoversSource
<1>1. ASSUME StreamInv, pc = "done"
      PROVE  total <= RenderedFrames /\ RenderedFrames - total < LongHalf
  <2> USE DEF StreamInv
  <2> DEFINE n == Len(frames)
  <2>1. /\ n = Len(plans) /\ n \in Nat /\ plans # <<>> /\ total \in Nat
        /\ plans \in Seq(PlanRecords) /\ frames \in Seq(FrameRecords)
        /\ Primed
    BY <1>1, Shapes DEF CallInv, EndInv, Planned, Typed
  <2>2. n \in 1 .. n /\ frames # <<>>
    BY <2>1, EmptySeq, LenProperties
  <2>3. RenderedFrames = CentreOf(plans[n]) /\ CentreOf(plans[n]) \in Int
    <3>1. frames[n].plan = plans[n] /\ plans[n] \in PlanRecords
      BY <1>1, <2>1, <2>2 DEF PlansInv
    <3> QED
      BY <1>1, <2>2, <3>1, RenderedIsCentre, CentreInteger
  <2>4. total <= CentreOf(plans[n])
    BY <1>1, <2>1, <2>2, <2>3 DEF EndInv, Planned
  <2>5. 0 < total
    <3>1. MinFrames \in Nat /\ Long <= MinFrames
      BY Bounds
    <3> QED
      BY <2>1, <3>1, BlockSizesAssumption DEF Primed
  <2>6. CASE n = 1
    <3>1. InSequence(1)
      BY <1>1, <2>1, <2>6 DEF PlansInv
    <3> QED
      BY <2>1, <2>4, <2>5, <2>6, <3>1 DEF InSequence
  <2>7. CASE n # 1
    <3>1. /\ n - 1 \in 1 .. Len(plans) /\ n - 1 # Len(plans)
          /\ plans[n - 1] \in PlanRecords /\ plans[n] \in PlanRecords
      BY <2>1, <2>2, <2>7
    <3>2. /\ CentreOf(plans[n - 1]) \in Int
          /\ Quarter(plans[n - 1].current) \in Nat
          /\ Quarter(plans[n - 1].current) <= Quarter(1)
      BY <3>1, CentreInteger
    <3>3. Quarter(plans[n].current) \in Nat /\ Quarter(plans[n].current) <= Quarter(1)
      BY <3>1, CentreInteger
    <3>4. CentreOf(plans[n - 1]) < total
      BY <1>1, <2>1, <3>1, <3>2 DEF EndInv, Planned
    <3>5. CentreOf(plans[n]) = CentreOf(plans[n - 1])
             + Quarter(plans[n - 1].current) + Quarter(plans[n].current)
      BY <1>1, <2>1, <2>2, <2>7 DEF PlansInv, InSequence
    <3>6. Quarter(1) \in Nat /\ LongHalf = 2 * Quarter(1)
      BY Sizes
    <3> QED
      BY <2>1, <2>3, <2>4, <3>2, <3>3, <3>4, <3>5, <3>6
  <2> QED
    BY <2>6, <2>7
<1> QED
  BY <1>1, StreamInvHolds, PTL DEF RenderedCoversSource

\* A slot of the queue the scan may have read keeps its value in every step
\* (selector.rs:128-146 and 160).
THEOREM ScannedSlotsKeep == Spec => ScannedSlotsFinal
<1> DEFINE Kept == \A slot \in 0 .. quanta :
                      slot * Hop < Limit => (slot \in queue <=> slot \in queue')
<1>1. ASSUME StreamInv, [Next]_vars PROVE [Kept]_vars
  <2>1. ASSUME queue' = queue PROVE Kept
    BY <2>1
  <2>2. ASSUME NEW flags \in FlagWords, Ingest(flags) PROVE Kept
    <3> SUFFICES ASSUME NEW slot \in 0 .. quanta, slot * Hop < Limit
                 PROVE  slot \in queue <=> slot \in queue'
      OBVIOUS
    <3>1. /\ quanta \in Nat /\ Hop \in Nat /\ 0 < Hop
      BY <1>1, Bounds DEF StreamInv, Typed, SessionTypeOK
    <3>2. slot * Hop < (quanta - 1) * Hop
      <4>1. (quanta - 1) * Hop = quanta * Hop - Hop
        BY <3>1
      <4> QED
        BY <3>1, <4>1 DEF Limit, Generated
    <3>3. slot < quanta - 1
      <4>1. ~(quanta - 1 <= slot)
        BY <3>1, <3>2, TimesMonotone
      <4> QED
        BY <3>1, <4>1
    <3>4. slot # quanta + 2 /\ slot \notin Slots(quanta, flags)
      BY <3>1, <3>3 DEF Slots
    <3> QED
      BY <2>2, <3>4 DEF Ingest
  <2>3. queue' = queue \/ \E flags \in FlagWords : Ingest(flags)
    <3>1. UNCHANGED sessionVars => queue' = queue
      BY DEF sessionVars, selectorVars
    <3>2. UNCHANGED selectorVars => queue' = queue
      BY DEF selectorVars
    <3>3. \A eos \in BOOLEAN : Decide(eos) => queue' = queue
      BY DEF Decide
    <3>4. Undecided => queue' = queue
      BY DEF Undecided
    <3>5. \A eos \in BOOLEAN : \A rest :
             ModeIteration(eos, rest) => queue' = queue
      BY <3>1, <3>3, <3>4 DEF ModeIteration
    <3>6. ASSUME NEW flags \in FlagWords, IngestQuantum(flags)
          PROVE  queue' = queue \/ Ingest(flags)
      BY <3>1, <3>6 DEF IngestQuantum
    <3>7. ASSUME NEW n \in Chunks, PushChunk(n) PROVE queue' = queue
      BY <3>1, <3>7 DEF PushChunk
    <3>8. Finish => queue' = queue
      BY <3>1 DEF Finish
    <3>9. ASSUME Run PROVE queue' = queue
      <4>1. QuantaIngested \/ EmitFrame => UNCHANGED sessionVars
        BY DEF QuantaIngested, EmitFrame
      <4>2. PumpPlan \/ PumpRests \/ DrainPlan \/ ComputeTail \/ TailPlan \/ Answer
               => UNCHANGED sessionVars
        BY DEF PumpPlan, PumpRests, DrainPlan, ComputeTail, TailPlan, Answer
      <4>3. PumpScan => queue' = queue
        BY <3>5 DEF PumpScan
      <4>4. DrainScan => queue' = queue
        BY <3>1, <3>5 DEF DrainScan
      <4>5. TailScan => queue' = queue
        BY <3>1, <3>5 DEF TailScan
      <4>6. TailTerminal => queue' = queue
        BY <3>2 DEF TailTerminal
      <4> QED
        BY <3>1, <3>9, <4>1, <4>2, <4>3, <4>4, <4>5, <4>6 DEF Run
    <3>10. UNCHANGED vars => queue' = queue
      BY <3>1 DEF vars
    <3> QED
      BY <1>1, <3>6, <3>7, <3>8, <3>9, <3>10 DEF Next
  <2> QED
    BY <2>1, <2>2, <2>3
<1>2. StreamInv /\ [Next]_vars => [Kept]_vars
  BY <1>1
<1> QED
  BY <1>2, StreamInvHolds, PTL DEF Spec, ScannedSlotsFinal

=============================================================================
