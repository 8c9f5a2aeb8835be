--------------------------- MODULE Analysis_proofs --------------------------
(***************************************************************************)
(* The analysis on a pool is the sequential one, and a block reads only    *)
(* what the block before it wrote: for any number of channels and workers, *)
(* and for every sequence of blocks. The fit of a floor keeps track of the *)
(* neighbours of its posts, and what it answers can be coded, read back,   *)
(* and is the line itself where the spectrum is one: for every spectrum    *)
(* and every list of posts. The rings of the transient detector remember   *)
(* the recent past, whatever their lengths and wherever their cursors are: *)
(* every flag word is that of the whole history, and the floor is averaged *)
(* over the energies of the last quanta.                                   *)
(***************************************************************************)
EXTENDS ParallelAnalysis, FloorFit, TransientDetector, NaturalLemmas,
        SequenceTheorems, FiniteSetTheorems, TLAPS

(* The pool. *)

\* What the job of a channel yields in the wave at hand.
Job(c) == IF phase = "transform" THEN TransformJob(c) ELSE ShapeJob(c)

PoolIdle ==
    /\ spawned = 0 /\ waiting = {}
    /\ running = [w \in Workers |-> 0]

\* A job that was spawned waits, runs, or has published its result in the slot
\* of its channel.
PoolInv ==
    /\ spawned \in 0 .. Channels
    /\ waiting \subseteq 1 .. spawned
    /\ running \in [Workers -> 0 .. spawned]
    /\ slots = [c \in Lines |-> slots[c]]
    /\ ~InWave => PoolIdle
    /\ \A c \in 1 .. spawned :
          c \in waiting \/ (\E w \in Workers : running[w] = c) \/ slots[c] = Job(c)

LEMMA IdlePool ==
    ASSUME PoolIdle, slots = [c \in Lines |-> slots[c]]
    PROVE  PoolInv
<1>1. spawned \in 0 .. Channels /\ waiting \subseteq 1 .. spawned
  BY AnalysisAssumption DEF PoolIdle
<1>2. running \in [Workers -> 0 .. spawned]
  BY DEF PoolIdle
<1>3. 1 .. spawned = {}
  BY DEF PoolIdle
<1> QED
  BY <1>1, <1>2, <1>3 DEF PoolInv

LEMMA IdlePoolAfter ==
    ASSUME PoolIdle', slots' = [c \in Lines |-> slots'[c]]
    PROVE  PoolInv'
<1>1. spawned' \in 0 .. Channels /\ waiting' \subseteq 1 .. spawned'
  BY AnalysisAssumption DEF PoolIdle
<1>2. running' \in [Workers' -> 0 .. spawned']
  BY DEF PoolIdle
<1>3. 1 .. spawned' = {}
  BY DEF PoolIdle
<1> QED
  BY <1>1, <1>2, <1>3 DEF PoolInv

LEMMA ReleaseIdles ==
    ASSUME Release
    PROVE  PoolIdle' /\ slots' = [c \in Lines |-> slots'[c]]
  BY DEF Release, PoolIdle, Workers

LEMMA InitPool == ParallelInit => PoolInv
<1> SUFFICES ASSUME ParallelInit PROVE PoolInv
  OBVIOUS
<1>1. PoolIdle /\ slots = [c \in Lines |-> slots[c]]
  BY DEF ParallelInit, PoolInit, PoolIdle
<1> QED
  BY <1>1, IdlePool

\* Nothing but a join leaves a wave.
LEMMA SpawnKeeps ==
    ASSUME PoolInv, Spawn
    PROVE  PoolInv'
<1>1. /\ spawned \in Nat /\ Channels \in Nat /\ spawned < Channels
      /\ spawned' = spawned + 1
      /\ waiting' = waiting \cup {spawned + 1}
      /\ running' = running /\ slots' = slots /\ Workers' = Workers
  BY AnalysisAssumption DEF PoolInv, Spawn, Workers
<1>2. InWave' /\ \A c : Job(c)' = Job(c)
  BY DEF Spawn, InWave, analysisVars, Job, TransformJob, ShapeJob, FailsFrom
<1>3. spawned' \in 0 .. Channels /\ 0 .. spawned \subseteq 0 .. spawned'
  BY <1>1
<1>4. waiting' \subseteq 1 .. spawned'
  BY <1>1 DEF PoolInv
<1>5. running' \in [Workers' -> 0 .. spawned']
  BY <1>1, <1>3 DEF PoolInv
<1>6. ASSUME NEW c \in 1 .. spawned'
      PROVE  c \in waiting' \/ (\E w \in Workers' : running'[w] = c) \/ slots'[c] = Job(c)'
  <2>1. c = spawned + 1 \/ c \in 1 .. spawned
    BY <1>1
  <2> QED
    BY <1>1, <1>2, <2>1 DEF PoolInv
<1> QED
  BY <1>1, <1>2, <1>3, <1>4, <1>5, <1>6 DEF PoolInv

LEMMA TakeKeeps ==
    ASSUME PoolInv, NEW w \in Workers, Take(w)
    PROVE  PoolInv'
<1>1. /\ spawned' = spawned /\ slots' = slots /\ Workers' = Workers
      /\ InWave' = InWave /\ \A c : Job(c)' = Job(c)
  BY DEF Take, InWave, analysisVars, Job, TransformJob, ShapeJob, FailsFrom, Workers
<1>2. PICK d \in waiting : /\ running' = [running EXCEPT ![w] = d]
                           /\ waiting' = waiting \ {d}
  BY DEF Take
<1>3. d \in 1 .. spawned /\ d \in 0 .. spawned /\ spawned \in Nat
  BY <1>2 DEF PoolInv
<1>4. running[w] = 0 /\ InWave
  BY <1>2 DEF Take, PoolInv, PoolIdle
<1>5. running' \in [Workers -> 0 .. spawned]
  BY <1>2, <1>3 DEF PoolInv
<1>6. ASSUME NEW c \in 1 .. spawned
      PROVE  c \in waiting' \/ (\E v \in Workers : running'[v] = c) \/ slots[c] = Job(c)
  <2>1. CASE c = d
    BY <1>2, <2>1 DEF PoolInv
  <2>2. CASE c # d /\ c \in waiting
    BY <1>2, <2>2
  <2>3. CASE \E v \in Workers : running[v] = c
    <3>1. PICK v \in Workers : running[v] = c
      BY <2>3
    <3>2. v # w
      BY <3>1, <1>3, <1>4
    <3> QED
      BY <1>2, <3>1, <3>2 DEF PoolInv
  <2>4. CASE slots[c] = Job(c)
    BY <2>4
  <2> QED
    BY <2>1, <2>2, <2>3, <2>4 DEF PoolInv
<1> QED
  BY <1>1, <1>2, <1>4, <1>5, <1>6 DEF PoolInv

LEMMA PublishKeeps ==
    ASSUME PoolInv, NEW w \in Workers, Publish(w)
    PROVE  PoolInv'
<1> DEFINE d == running[w]
<1>1. /\ spawned' = spawned /\ waiting' = waiting /\ Workers' = Workers
      /\ InWave' = InWave /\ \A c : Job(c)' = Job(c)
  BY DEF Publish, InWave, analysisVars, Job, TransformJob, ShapeJob, FailsFrom, Workers
<1>2. d \in 1 .. spawned /\ spawned \in Nat /\ Channels \in Nat /\ spawned <= Channels
  BY AnalysisAssumption DEF PoolInv, Publish
<1>3. d \in Lines
  BY <1>2 DEF Lines
<1>4. InWave
  BY <1>2 DEF PoolInv, PoolIdle
<1>5. slots' = [slots EXCEPT ![d] = Job(d)]
  BY <1>4 DEF Publish, SlotOf, Job
<1>6. running' = [running EXCEPT ![w] = 0]
  BY DEF Publish
<1>7. running' \in [Workers -> 0 .. spawned]
  BY <1>2, <1>6 DEF PoolInv
<1>8. slots' = [c \in Lines |-> slots'[c]]
  BY <1>5 DEF PoolInv
<1>9. ASSUME NEW c \in 1 .. spawned
      PROVE  c \in waiting \/ (\E v \in Workers : running'[v] = c) \/ slots'[c] = Job(c)
  <2>1. CASE c = d
    BY <1>3, <1>5, <2>1 DEF PoolInv
  <2>2. CASE c # d /\ \E v \in Workers : running[v] = c
    BY <1>6, <2>2 DEF PoolInv
  <2>3. CASE c # d /\ slots[c] = Job(c)
    BY <1>5, <2>3 DEF PoolInv
  <2> QED
    BY <2>1, <2>2, <2>3 DEF PoolInv
<1> QED
  BY <1>1, <1>2, <1>4, <1>7, <1>8, <1>9 DEF PoolInv

LEMMA StepPool == PoolInv /\ [ParallelNext]_parallelVars => PoolInv'
<1> SUFFICES ASSUME PoolInv, [ParallelNext]_parallelVars PROVE PoolInv'
  OBVIOUS
<1>1. CASE UNCHANGED parallelVars
  BY <1>1 DEF PoolInv, parallelVars, poolVars, analysisVars, InWave, PoolIdle, Workers, Job,
              TransformJob, ShapeJob, FailsFrom
<1>2. CASE UNCHANGED poolVars /\ ~InWave
  <2>1. PoolIdle' /\ slots' = [c \in Lines |-> slots'[c]]
    BY <1>2 DEF PoolInv, PoolIdle, poolVars, Workers
  <2> QED
    BY <2>1, IdlePoolAfter
<1>3. CASE BeginBlock /\ UNCHANGED poolVars
  <2>1. ~InWave
    BY <1>3 DEF BeginBlock, InWave
  <2> QED
    BY <1>2, <1>3, <2>1
<1>4. CASE ShortBlock
  <2>1. ~InWave
    BY <1>4 DEF ShortBlock, InWave
  <2> QED
    BY <1>2, <1>4, <2>1 DEF ShortBlock
<1>5. CASE \E w \in Workers : Take(w) \/ Publish(w)
  BY <1>5, TakeKeeps, PublishKeeps
<1>6. CASE JoinTransforms \/ JoinShapes
  BY <1>6, ReleaseIdles, IdlePoolAfter DEF JoinTransforms, JoinShapes
<1> QED
  BY <1>1, <1>3, <1>4, <1>5, <1>6, SpawnKeeps DEF ParallelNext

\* What a wave that has joined collected, in channel order.
LEMMA JoinedSlots ==
    ASSUME PoolInv, Joined
    PROVE  /\ phase = "transform" => slots = [c \in Lines |-> TransformJob(c)]
           /\ phase = "shape" => slots = [c \in Lines |-> ShapeJob(c)]
<1>1. waiting = {} /\ 1 .. spawned = Lines
  BY DEF Joined, Lines
<1>2. \A w \in Workers, c \in Lines : running[w] # c
  BY AnalysisAssumption DEF Joined, Lines
<1>3. \A c \in Lines : slots[c] = Job(c)
  BY <1>1, <1>2 DEF PoolInv
<1>4. slots = [c \in Lines |-> slots[c]]
  BY DEF PoolInv
<1> QED
  BY <1>3, <1>4 DEF Job

\* Every step of the pool is a step of the sequential analysis, or none.
LEMMA StepSequential ==
    PoolInv /\ [ParallelNext]_parallelVars => [AnalysisNext]_analysisVars
<1> SUFFICES ASSUME PoolInv, [ParallelNext]_parallelVars PROVE [AnalysisNext]_analysisVars
  OBVIOUS
<1>1. CASE UNCHANGED parallelVars
  BY <1>1 DEF parallelVars
<1>2. CASE BeginBlock \/ ShortBlock
  BY <1>2 DEF ShortBlock, AnalysisNext
<1>3. CASE Spawn \/ \E w \in Workers : Take(w) \/ Publish(w)
  BY <1>3 DEF Spawn, Take, Publish
<1>4. CASE JoinTransforms
  BY <1>4, JoinedSlots DEF JoinTransforms, AnalysisNext, TransformBlock
<1>5. CASE JoinShapes
  BY <1>5, JoinedSlots DEF JoinShapes, AnalysisNext, ShapeLongBlock, InWave
<1> QED
  BY <1>1, <1>2, <1>3, <1>4, <1>5 DEF ParallelNext

\* Whatever the size of the pool and the order in which jobs are taken and
\* finish, the analysis is the sequential one (pool.rs:192-198).
THEOREM PoolIsSequential == ParallelSpec => SameAsSequential
<1>1. ParallelInit => AnalysisInit
  BY DEF ParallelInit
<1> QED
  BY <1>1, InitPool, StepPool, StepSequential, PTL
  DEF ParallelSpec, SameAsSequential, AnalysisSpec

-----------------------------------------------------------------------------
(* What a block reads. *)

\* The curves are those of block b: for a long block, for a short one.
LongReady(b) ==
    \A c \in Lines : /\ state[c].near.block = b /\ state[c].far.block = b
                     /\ state[c].near.scale \in LongScale
                     /\ state[c].far.scale \in LongScale

ShortReady(b) ==
    \A c \in Lines : state[c].near.block = b /\ state[c].near.scale \in ShortScale

\* In a run of steady short blocks the history is that of the last one.
HistoryReady(b) ==
    temporal.previous = 0 => \A c \in Lines : state[c].history = b

Scales == LongScale \cup ShortScale
Curves == [block : Nat, scale : Scales]
ChannelStates == [near : Curves, far : Curves, history : Nat]
Temporals == [previous : 0 .. 3, run : Nat, tail : 0 .. TailLimit]

CurvesTypeOK ==
    /\ block \in Nat
    /\ input.mode \in {0, 1} /\ input.variant \in {0, 1} /\ input.following \in {0, 1}
    /\ phase \in {"idle", "transform", "shape", "failed"}
    /\ state \in [Lines -> ChannelStates]
    /\ temporal \in Temporals
    /\ temporal.previous # 0 => temporal.run > 0
    /\ phase # "idle" => block > 0

\* A block that comes next finds what it needs, as the block at hand does.
CurvesInv ==
    /\ CurvesTypeOK
    /\ phase = "idle" =>
          /\ HistoryReady(block)
          /\ block = 0 \/ input.following = 1 => LongReady(block)
          /\ block = 0 \/ input.following = 0 => ShortReady(block)
    /\ phase \in {"transform", "shape"} =>
          /\ HistoryReady(block - 1)
          /\ input.mode = 1 => LongReady(block - 1)
          /\ input.mode = 0 => ShortReady(block - 1)

LEMMA TemporalAdvances ==
    ASSUME NEW before \in Temporals, NEW transition \in 0 .. 3
    PROVE  /\ AdvanceTemporal(before, transition) \in Temporals
           /\ AdvanceTemporal(before, transition).previous = transition
           /\ AdvanceTemporal(before, transition).run > 0
<1>1. AdvanceTail(before, transition) \in 0 .. TailLimit
  BY DEF AdvanceTail, Temporals, TailLimit
<1> QED
  BY <1>1 DEF AdvanceTemporal, Temporals

\* The kernel runs for the steady transition alone.
LEMMA KernelActive ==
    ASSUME NEW before \in Temporals, NEW transition \in 0 .. 3
    PROVE  TemporalKernel(before, transition).active <=> transition = 0
  BY DEF TemporalKernel, Inactive, SteadyKernel

LEMMA LongLeaves ==
    ASSUME NEW channel \in ChannelStates, NEW b \in Nat, NEW following
    PROVE  /\ AfterLong(channel, b, following) \in ChannelStates
           /\ AfterLong(channel, b, following).near.block = b
           /\ AfterLong(channel, b, following).far.block = b
           /\ AfterLong(channel, b, following).near.scale = IF following = 1 THEN "long" ELSE "min"
           /\ AfterLong(channel, b, following).far.scale = "long"
<1> DEFINE near == Curve(b, IF following = 1 THEN "long" ELSE "min")
           far == Curve(b, "long")
<1>1. near \in Curves /\ far \in Curves
  BY DEF Curve, Curves, Scales, LongScale, ShortScale
<1>3. AfterLong(channel, b, following) = [[channel EXCEPT !.near = near] EXCEPT !.far = far]
  BY DEF AfterLong
<1>4. /\ near.block = b /\ far.block = b /\ far.scale = "long"
      /\ near.scale = IF following = 1 THEN "long" ELSE "min"
  BY DEF Curve
<1> HIDE DEF near, far
<1>5. PICK left : left = [[channel EXCEPT !.near = near] EXCEPT !.far = far]
  OBVIOUS
<1>6. left \in ChannelStates /\ left.near = near /\ left.far = far
  BY <1>1, <1>5 DEF ChannelStates
<1> QED
  BY <1>3, <1>4, <1>5, <1>6

LEMMA ShortLeaves ==
    ASSUME NEW channel \in ChannelStates, NEW b \in Nat, NEW following, NEW kernel
    PROVE  /\ AfterShort(channel, b, following, kernel) \in ChannelStates
           /\ AfterShort(channel, b, following, kernel).near.block = b
           /\ AfterShort(channel, b, following, kernel).near.scale
              = IF following = 1 THEN "spread" ELSE "short"
           /\ following = 1 =>
                 AfterShort(channel, b, following, kernel).far
                 = AfterShort(channel, b, following, kernel).near
           /\ kernel.active => AfterShort(channel, b, following, kernel).history = b
<1> DEFINE near == Curve(b, IF following = 1 THEN "spread" ELSE "short")
           far == IF following = 1 THEN near ELSE channel.far
           history == IF kernel.active THEN b ELSE channel.history
<1>1. near \in Curves /\ far \in Curves /\ history \in Nat
  BY DEF Curve, Curves, Scales, LongScale, ShortScale, ChannelStates
<1>2. AfterShort(channel, b, following, kernel)
      = [[[channel EXCEPT !.near = near] EXCEPT !.far = far] EXCEPT !.history = history]
  BY DEF AfterShort, ChannelStates
<1>3. /\ near.block = b
      /\ near.scale = IF following = 1 THEN "spread" ELSE "short"
      /\ following = 1 => far = near
      /\ kernel.active => history = b
  BY DEF Curve
<1> HIDE DEF near, far, history
<1>4. PICK left : left = [[[channel EXCEPT !.near = near] EXCEPT !.far = far] EXCEPT !.history = history]
  OBVIOUS
<1>5. left \in ChannelStates /\ left.near = near /\ left.far = far /\ left.history = history
  BY <1>1, <1>4 DEF ChannelStates
<1> QED
  BY <1>2, <1>3, <1>4, <1>5

LEMMA InitCurves == AnalysisInit => CurvesInv
<1> SUFFICES ASSUME AnalysisInit PROVE CurvesInv
  OBVIOUS
<1>1. FreshChannel \in ChannelStates /\ FreshTemporal \in Temporals
  BY DEF FreshChannel, FreshTemporal, ChannelStates, Temporals, Curve, Curves, Scales,
         LongScale, ShortScale, TailLimit
<1>2. CurvesTypeOK
  BY <1>1 DEF AnalysisInit, CurvesTypeOK, NoInput, FreshTemporal
<1>3. HistoryReady(0) /\ LongReady(0) /\ ShortReady(0)
  BY DEF AnalysisInit, HistoryReady, LongReady, ShortReady, FreshChannel, Curve,
         LongScale, ShortScale
<1> QED
  BY <1>2, <1>3 DEF AnalysisInit, CurvesInv

LEMMA BeginKeeps ==
    ASSUME CurvesInv, BeginBlock
    PROVE  CurvesInv'
<1>1. /\ block \in Nat /\ block' = block + 1 /\ phase = "idle" /\ phase' = "transform"
      /\ state' = state /\ temporal' = temporal
      /\ input'.mode \in {0, 1} /\ input'.variant \in {0, 1} /\ input'.following \in {0, 1}
      /\ block > 0 => input'.mode = input.following
  BY DEF BeginBlock, CurvesInv, CurvesTypeOK
<1>2. CurvesTypeOK'
  BY <1>1 DEF CurvesInv, CurvesTypeOK
<1>3. block' - 1 = block /\ (block = 0 \/ block > 0)
  BY <1>1
<1> QED
  BY <1>1, <1>2, <1>3 DEF CurvesInv, HistoryReady, LongReady, ShortReady

LEMMA TransformKeeps ==
    ASSUME CurvesInv, TransformBlock
    PROVE  CurvesInv'
<1>1. /\ phase = "transform" /\ phase' \in {"shape", "failed"}
      /\ block' = block /\ input' = input /\ state' = state /\ temporal' = temporal
  BY DEF TransformBlock, TakeTransforms, Refuse
<1> QED
  BY <1>1 DEF CurvesInv, CurvesTypeOK, HistoryReady, LongReady, ShortReady

LEMMA LongKeeps ==
    ASSUME CurvesInv, ShapeLongBlock
    PROVE  CurvesInv'
<1>1. /\ block' = block /\ input' = input /\ block \in Nat /\ input.following \in {0, 1}
      /\ block > 0 /\ block # 0
  BY DEF ShapeLongBlock, CurvesInv, CurvesTypeOK
<1>2. CASE phase' = "failed" /\ state' = state /\ temporal' = temporal
  BY <1>1, <1>2 DEF CurvesInv, CurvesTypeOK
<1>3. CASE /\ phase' = "idle"
           /\ state' = [c \in Lines |-> AfterLong(state[c], block, input.following)]
           /\ temporal' = AdvanceTemporal(temporal, Transition(1, input.variant))
  <2>1. Transition(1, input.variant) \in 2 .. 3
    BY DEF CurvesInv, CurvesTypeOK, Transition
  <2>2. temporal' \in Temporals /\ temporal'.previous # 0 /\ temporal'.run > 0
    BY <1>3, <2>1, TemporalAdvances DEF CurvesInv, CurvesTypeOK
  <2>3. \A c \in Lines : state[c] \in ChannelStates
    BY DEF CurvesInv, CurvesTypeOK
  <2>4. state' \in [Lines -> ChannelStates]
    BY <1>1, <1>3, <2>3, LongLeaves
  <2>5. ASSUME NEW c \in Lines
        PROVE  /\ state'[c].near.block = block /\ state'[c].far.block = block
               /\ input.following = 1 => /\ state'[c].near.scale \in LongScale
                                         /\ state'[c].far.scale \in LongScale
               /\ input.following = 0 => state'[c].near.scale \in ShortScale
    <3>1. state'[c] = AfterLong(state[c], block, input.following) /\ state[c] \in ChannelStates
      BY <1>3, <2>3
    <3>2. PICK left : left = AfterLong(state[c], block, input.following)
      OBVIOUS
    <3>3. /\ left.near.block = block /\ left.far.block = block /\ left.far.scale = "long"
          /\ left.near.scale = IF input.following = 1 THEN "long" ELSE "min"
      BY <1>1, <3>1, <3>2, LongLeaves
    <3>4. state'[c] = left
      BY <3>1, <3>2
    <3> QED
      BY <3>3, <3>4 DEF LongScale, ShortScale
  <2>6. CurvesTypeOK'
    BY <1>1, <1>3, <2>2, <2>4 DEF CurvesInv, CurvesTypeOK
  <2> QED
    BY <1>1, <1>3, <2>2, <2>5, <2>6 DEF CurvesInv, HistoryReady, LongReady, ShortReady
<1> QED
  BY <1>2, <1>3 DEF ShapeLongBlock, TakeLongShapes, Refuse

LEMMA ShortKeeps ==
    ASSUME CurvesInv, ShapeShortBlock
    PROVE  CurvesInv'
<1> DEFINE transition == Transition(0, input.variant)
           kernel == TemporalKernel(temporal, transition)
           Left(c) == AfterShort(state[c], block, input.following, kernel)
<1>1. /\ block' = block /\ input' = input /\ block \in Nat /\ input.following \in {0, 1}
      /\ block > 0 /\ block # 0
  BY DEF ShapeShortBlock, CurvesInv, CurvesTypeOK
<1>2. transition = input.variant /\ transition \in {0, 1}
  BY DEF CurvesInv, CurvesTypeOK, Transition
<1>3. \A c \in Lines : state[c] \in ChannelStates
  BY DEF CurvesInv, CurvesTypeOK
<1>4. \A c \in Lines : state'[c] \in {Left(c), state[c]}
  BY DEF ShapeShortBlock, ShapeShort
<1>5. state' \in [Lines -> ChannelStates]
  <2>1. \A c \in Lines : Left(c) \in ChannelStates
    BY <1>1, <1>3, ShortLeaves
  <2>2. state' = [c \in Lines |-> state'[c]]
    BY DEF ShapeShortBlock, ShapeShort
  <2> QED
    BY <1>3, <1>4, <2>1, <2>2
<1>6. CASE phase' = "failed" /\ temporal' = temporal
  BY <1>1, <1>5, <1>6 DEF CurvesInv, CurvesTypeOK
<1>7. CASE /\ phase' = "idle" /\ input.flat = 0
           /\ temporal' = AdvanceTemporal(temporal, transition)
  <2>1. temporal' \in Temporals /\ temporal'.previous = transition /\ temporal'.run > 0
    BY <1>2, <1>7, TemporalAdvances DEF CurvesInv, CurvesTypeOK
  <2>2. \A c \in Lines : state'[c] = Left(c)
    BY <1>7 DEF ShapeShortBlock, ShapeShort
  <2>3. transition = 0 => kernel.active
    BY <1>2, KernelActive DEF CurvesInv, CurvesTypeOK
  <2>4. ASSUME NEW c \in Lines
        PROVE  /\ state'[c].near.block = block
               /\ input.following = 1 => /\ state'[c].far.block = block
                                         /\ state'[c].near.scale \in LongScale
                                         /\ state'[c].far.scale \in LongScale
               /\ input.following = 0 => state'[c].near.scale \in ShortScale
               /\ transition = 0 => state'[c].history = block
    <3>1. state'[c] = Left(c) /\ state[c] \in ChannelStates
      BY <1>3, <2>2
    <3>2. PICK left : left = Left(c)
      OBVIOUS
    <3> HIDE DEF kernel, transition
    <3>3. /\ left.near.block = block
          /\ left.near.scale = IF input.following = 1 THEN "spread" ELSE "short"
          /\ input.following = 1 => left.far = left.near
      BY <1>1, <3>1, <3>2, ShortLeaves
    <3>5. kernel.active => left.history = block
      BY <1>1, <3>1, <3>2, ShortLeaves
    <3>4. state'[c] = left
      BY <3>1, <3>2
    <3> QED
      BY <2>3, <3>3, <3>4, <3>5 DEF LongScale, ShortScale
  <2>5. CurvesTypeOK'
    BY <1>1, <1>5, <1>7, <2>1 DEF CurvesInv, CurvesTypeOK
  <2> HIDE DEF transition
  <2> QED
    BY <1>1, <1>7, <2>1, <2>4, <2>5 DEF CurvesInv, HistoryReady, LongReady, ShortReady
<1> QED
  BY <1>6, <1>7 DEF ShapeShortBlock, ShapeShort, Refuse

LEMMA StepCurves == CurvesInv /\ [AnalysisNext]_analysisVars => CurvesInv'
<1> SUFFICES ASSUME CurvesInv, [AnalysisNext]_analysisVars PROVE CurvesInv'
  OBVIOUS
<1>1. CASE UNCHANGED analysisVars
  BY <1>1 DEF analysisVars, CurvesInv, CurvesTypeOK, HistoryReady, LongReady, ShortReady
<1> QED
  BY <1>1, BeginKeeps, TransformKeeps, LongKeeps, ShortKeeps DEF AnalysisNext

LEMMA CurvesFound == CurvesInv => ReadsPrecedingBlock
<1> SUFFICES ASSUME CurvesInv, phase \in {"transform", "shape"}, NEW c \in Lines
             PROVE  /\ state[c].near.block = block - 1
                    /\ input.mode = 1 =>
                          /\ state[c].far.block = block - 1
                          /\ {state[c].near.scale, state[c].far.scale} \subseteq LongScale
                    /\ input.mode = 0 =>
                          /\ state[c].near.scale \in ShortScale
                          /\ TemporalKernel(temporal, input.variant).active =>
                                HistorySource(state[c], temporal) = block - 1
  BY DEF ReadsPrecedingBlock
<1>1. state[c].near.block = block - 1
  BY DEF CurvesInv, CurvesTypeOK, LongReady, ShortReady
<1>2. HistorySource(state[c], temporal) = block - 1
  BY <1>1 DEF CurvesInv, HistoryReady, HistorySource
<1> QED
  BY <1>1, <1>2 DEF CurvesInv, LongReady, ShortReady

\* A block reads only curves that the block before it wrote, at its own scale,
\* sequentially and on a pool of any size (short.rs:199-232, 367-400).
THEOREM ReadsWhatPrecedes == ParallelSpec => []ReadsPrecedingBlock
<1>1. AnalysisSpec => []CurvesInv
  BY InitCurves, StepCurves, PTL DEF AnalysisSpec
<1>2. ParallelSpec => AnalysisSpec
  BY PoolIsSequential DEF SameAsSequential
<1> QED
  BY <1>1, <1>2, CurvesFound, PTL

-----------------------------------------------------------------------------
(* How a run of steady blocks eases off. *)

LEMMA PlateauReached ==
    ASSUME NEW run \in Nat
    PROVE  /\ SteadyKernel(run + 1).bias >= SteadyKernel(run).bias
           /\ SteadyKernel(run + 1).chase \in 0 .. SteadyKernel(run).chase
           /\ SteadyKernel(run + 1).lower \in 408 .. 1032
<1>1. BiasStep \in {2, 3}
  BY DEF BiasStep
<1>2. CASE run >= 8
  BY <1>2 DEF SteadyKernel, Steady
<1>3. CASE run = 7
  BY <1>1, <1>3 DEF SteadyKernel, Steady
<1>4. CASE run < 7
  <2>1. /\ SteadyKernel(run) = [active |-> TRUE, lower |-> 952 - 80 * (run - 1),
                                bias |-> run * BiasStep, chase |-> 8 - run]
        /\ SteadyKernel(run + 1) = [active |-> TRUE, lower |-> 952 - 80 * ((run + 1) - 1),
                                    bias |-> (run + 1) * BiasStep, chase |-> 8 - (run + 1)]
    BY <1>4 DEF SteadyKernel, Steady
  <2>2. /\ (run + 1) * BiasStep >= run * BiasStep
        /\ 8 - (run + 1) \in 0 .. 8 - run
        /\ 952 - 80 * ((run + 1) - 1) \in 408 .. 1032
    BY <1>1, <1>4
  <2> QED
    BY <2>1, <2>2
<1> QED
  BY <1>2, <1>3, <1>4

LEMMA SteadyFields ==
    ASSUME NEW before \in Temporals, before.previous = 0
    PROVE  /\ TemporalKernel(before, 0).bias = SteadyKernel(before.run).bias
           /\ TemporalKernel(before, 0).chase = SteadyKernel(before.run).chase
           /\ TemporalKernel(before, 0).lower
              = IF before.tail = 0 THEN SteadyKernel(before.run).lower
                ELSE (SteadyKernel(before.run).lower * before.tail) \div TailLimit
  BY DEF TemporalKernel, SteadyKernel, Temporals

LEMMA TailScales ==
    ASSUME NEW lower \in 408 .. 1032, NEW tail \in 1 .. TailLimit
    PROVE  (lower * tail) \div TailLimit > 0
<1>1. tail \in {1, 2, 3, 4, 5, 6, 7, 8}
  BY DEF TailLimit
<1> QED
  BY <1>1 DEF TailLimit

LEMMA EasesOff ==
    ASSUME NEW before \in Temporals, before.previous # 0 => before.run > 0,
           NEW transition \in 0 .. 3, NEW after,
           after = AdvanceTemporal(before, transition),
           after.previous = 0, after.run > before.run
    PROVE  /\ TemporalKernel(after, 0).bias >= TemporalKernel(before, 0).bias
           /\ TemporalKernel(after, 0).chase \in 0 .. TemporalKernel(before, 0).chase
           /\ TemporalKernel(after, 0).lower > 0
<1>1. after \in Temporals
  BY TemporalAdvances
<1>2. transition = 0 /\ before.run \in Nat
  BY DEF AdvanceTemporal, Temporals
<1>3. before.previous = 0 /\ after.run = before.run + 1
  BY <1>2 DEF AdvanceTemporal, Temporals
<1>4. SteadyKernel(after.run).lower \in 408 .. 1032
  <2>1. SteadyKernel(before.run + 1).lower \in 408 .. 1032
    BY ONLY <1>2, PlateauReached
  <2> QED
    BY <1>3, <2>1
<1>5. after.tail \in 0 .. TailLimit
  BY <1>1 DEF Temporals
<1>6. TemporalKernel(after, 0).lower > 0
  <2>1. CASE after.tail = 0
    BY <1>1, <1>4, <2>1, SteadyFields
  <2>2. CASE after.tail # 0
    <3>1. after.tail \in 1 .. TailLimit
      BY <1>5, <2>2 DEF TailLimit
    <3>2. (SteadyKernel(after.run).lower * after.tail) \div TailLimit > 0
      BY ONLY <1>4, <3>1, TailScales
    <3>3. TemporalKernel(after, 0).lower
          = (SteadyKernel(after.run).lower * after.tail) \div TailLimit
      BY <1>1, <2>2, SteadyFields
    <3> QED
      BY ONLY <3>2, <3>3
  <2> QED
    BY <2>1, <2>2
<1> QED
  BY <1>1, <1>2, <1>3, <1>6, SteadyFields, PlateauReached

\* Only a block that was answered moves the counters, by its transition.
LEMMA CountersMove ==
    ASSUME CurvesTypeOK, [AnalysisNext]_analysisVars
    PROVE  \/ temporal' = temporal
           \/ \E transition \in 0 .. 3 : temporal' = AdvanceTemporal(temporal, transition)
<1>1. CASE ShapeLongBlock
  <2>1. Transition(1, input.variant) \in 0 .. 3
    BY DEF CurvesTypeOK, Transition
  <2> QED
    BY <1>1, <2>1 DEF ShapeLongBlock, TakeLongShapes
<1>2. CASE ShapeShortBlock
  <2>1. Transition(0, input.variant) \in 0 .. 3
    BY DEF CurvesTypeOK, Transition
  <2> QED
    BY <1>2, <2>1 DEF ShapeShortBlock, ShapeShort
<1> QED
  BY <1>1, <1>2 DEF AnalysisNext, BeginBlock, TransformBlock, analysisVars

\* Through a run of steady short blocks the weights ease off without a jump,
\* for every bias of the profile (temporal.rs:121-151).
THEOREM WeightsEaseOff == ParallelSpec => RunEasesOff
<1>1. CurvesInv /\ [AnalysisNext]_analysisVars
      => [temporal'.previous = 0 /\ temporal'.run > temporal.run =>
            /\ Kernel'.bias >= Kernel.bias
            /\ Kernel'.chase \in 0 .. Kernel.chase
            /\ Kernel'.lower > 0]_temporal
  <2> SUFFICES ASSUME CurvesTypeOK, [AnalysisNext]_analysisVars, temporal' # temporal,
                      temporal'.previous = 0, temporal'.run > temporal.run
               PROVE  /\ TemporalKernel(temporal', 0).bias >= TemporalKernel(temporal, 0).bias
                      /\ TemporalKernel(temporal', 0).chase
                         \in 0 .. TemporalKernel(temporal, 0).chase
                      /\ TemporalKernel(temporal', 0).lower > 0
    BY DEF Kernel, CurvesInv
  <2>1. PICK transition \in 0 .. 3 : temporal' = AdvanceTemporal(temporal, transition)
    BY CountersMove
  <2> QED
    BY <2>1, EasesOff DEF CurvesTypeOK
<1>2. AnalysisSpec => []CurvesInv
  BY InitCurves, StepCurves, PTL DEF AnalysisSpec
<1>3. ParallelSpec => AnalysisSpec
  BY PoolIsSequential DEF SameAsSequential
<1> QED
  BY <1>1, <1>2, <1>3, PTL DEF AnalysisSpec, RunEasesOff

-----------------------------------------------------------------------------
(* The fit of a floor.                                                     *)

\* What a recursion makes stays in the set that its steps keep.
LEMMA StaysIn ==
    ASSUME NEW S, NEW first \in S, NEW m \in Nat, NEW step \in [1 .. m -> [S -> S]],
           NEW g, g[0] = first,
           \A k \in 1 .. m : g[k - 1] \in S => g[k] = step[k][g[k - 1]]
    PROVE  g[m] \in S
<1> DEFINE kept == {k \in Nat : k <= m => g[k] \in S}
<1>1. 0 \in kept
  OBVIOUS
<1>2. ASSUME NEW k \in Nat, k \in kept PROVE k + 1 \in kept
  <2> SUFFICES ASSUME k + 1 <= m PROVE g[k + 1] \in S
    OBVIOUS
  <2>1. k + 1 \in 1 .. m /\ (k + 1) - 1 = k /\ g[k] \in S
    BY <1>2
  <2>2. g[k + 1] = step[k + 1][g[k]]
    BY <2>1
  <2> QED
    BY <2>1, <2>2
<1> HIDE DEF kept
<1>3. m \in kept
  BY <1>1, <1>2, NatInduct
<1> QED
  BY <1>3 DEF kept

\* A sum is the last of the partial sums.
Summable(from, to, f) ==
    /\ from \in Nat /\ to \in Int /\ from <= to + 1
    /\ \A k \in from .. to : f[k] \in Int

PartialSums(from, to, f, s) ==
    /\ s \in [0 .. to - from + 1 -> Int]
    /\ s[0] = 0 /\ SumOver(from, to, f) = s[to - from + 1]
    /\ \A k \in 1 .. to - from + 1 : s[k] = s[k - 1] + f[from + k - 1]

LEMMA SumUnfolds ==
    ASSUME NEW from, NEW to, NEW f, Summable(from, to, f)
    PROVE  \E s : PartialSums(from, to, f, s)
<1> USE DEF Summable, PartialSums
<1> DEFINE m == to - from + 1
           term(k) == f[from + k - 1]
           unfolds(g) == g = [k \in 0 .. m |-> IF k = 0 THEN 0 ELSE g[k - 1] + term(k)]
           integers == Int
           step == [k \in 1 .. m |-> [v \in integers |-> v + term(k)]]
<1>1. m \in Nat /\ 0 \in integers
  OBVIOUS
<1>2. ASSUME NEW k \in 1 .. m PROVE term(k) \in Int
  <2>1. from + k - 1 \in from .. to
    OBVIOUS
  <2> QED
    BY <2>1
<1>3. SumOver(from, to, f) = (CHOOSE g : unfolds(g))[m]
  BY DEF SumOver
<1> SUFFICES \E s \in [0 .. m -> Int] :
                /\ s[0] = 0 /\ SumOver(from, to, f) = s[m]
                /\ \A k \in 1 .. m : s[k] = s[k - 1] + term(k)
  OBVIOUS
<1> HIDE DEF m, term
<1>4. step \in [1 .. m -> [integers -> integers]]
  BY <1>2
<1> HIDE DEF integers
<1>5. PICK c \in [0 .. m -> integers] : c[0] = 0 /\ \A k \in 1 .. m : c[k] = step[k][c[k - 1]]
  <2>1. Recursion(integers, 0, m, step)
    BY <1>1, <1>4 DEF Recursion
  <2> HIDE DEF step
  <2>2. PICK c : Unfolds(integers, 0, m, step, c)
    BY <2>1, NatRecursion, Zenon
  <2> QED
    BY <2>2 DEF Unfolds
<1>6. unfolds(c)
  <2>1. ASSUME NEW k \in 0 .. m PROVE c[k] = IF k = 0 THEN 0 ELSE c[k - 1] + term(k)
    <3>1. CASE k = 0
      BY <1>5, <3>1
    <3>2. CASE k # 0
      <4>1. k \in 1 .. m /\ c[k - 1] \in integers
        BY <1>1, <3>2
      <4> QED
        BY <1>5, <3>2, <4>1
    <3> QED
      BY <3>1, <3>2
  <2> QED
    BY <2>1
<1> DEFINE g == CHOOSE g : unfolds(g)
<1>7. unfolds(g)
  BY <1>6
<1> HIDE DEF g
<1>8. g[0] = 0 /\ \A k \in 1 .. m : g[k] = g[k - 1] + term(k)
  <2>1. 0 \in 0 .. m /\ \A k \in 1 .. m : k \in 0 .. m /\ k # 0
    BY <1>1
  <2> QED
    BY <1>7, <2>1
<1>9. g \in [0 .. m -> Int]
  <2>1. DOMAIN g = 0 .. m /\ g = [k \in 0 .. m |-> g[k]]
    BY <1>7
  <2> HIDE DEF unfolds, step
  <2> DEFINE kept == {k \in Nat : k <= m => g[k] \in Int}
  <2>2. 0 \in kept
    BY <1>8
  <2>3. ASSUME NEW k \in Nat, k \in kept PROVE k + 1 \in kept
    <3> SUFFICES ASSUME k + 1 <= m PROVE g[k + 1] \in Int
      OBVIOUS
    <3>1. k + 1 \in 1 .. m /\ (k + 1) - 1 = k /\ g[k] \in Int
      BY <1>1, <2>3
    <3>2. g[k + 1] = g[k] + term(k + 1)
      BY <1>8, <3>1
    <3> QED
      BY <1>2, <3>1, <3>2
  <2> HIDE DEF kept
  <2>4. \A k \in Nat : k \in kept
    BY <2>2, <2>3, NatInduct
  <2>5. \A k \in 0 .. m : g[k] \in Int
    BY <1>1, <2>4 DEF kept
  <2> QED
    BY <2>1, <2>5
<1>10. SumOver(from, to, f) = g[m]
  BY <1>3 DEF g
<1> HIDE DEF unfolds
<1> QED
  BY <1>8, <1>9, <1>10

\* Sums of naturals are naturals.
LEMMA SumIsNat ==
    ASSUME NEW from \in Nat, NEW to \in Int, from <= to + 1,
           NEW f, \A k \in from .. to : f[k] \in Nat
    PROVE  SumOver(from, to, f) \in Nat
<1> DEFINE m == to - from + 1
<1>1. PICK s :
         /\ s \in [0 .. m -> Int]
         /\ s[0] = 0 /\ SumOver(from, to, f) = s[m]
         /\ \A k \in 1 .. m : s[k] = s[k - 1] + f[from + k - 1]
  <2>1. Summable(from, to, f)
    BY DEF Summable
  <2>2. PICK s : PartialSums(from, to, f, s)
    BY <2>1, SumUnfolds
  <2> QED
    BY <2>2 DEF PartialSums
<1> DEFINE naturals == {k \in Nat : k <= m => s[k] \in Nat}
<1>2. 0 \in naturals
  BY <1>1
<1>3. ASSUME NEW k \in Nat, k \in naturals PROVE k + 1 \in naturals
  <2> SUFFICES ASSUME k + 1 <= m PROVE s[k + 1] \in Nat
    OBVIOUS
  <2>1. k + 1 \in 1 .. m /\ (k + 1) - 1 = k /\ from + (k + 1) - 1 \in from .. to
    OBVIOUS
  <2>2. s[k + 1] = s[k] + f[from + (k + 1) - 1]
    BY <1>1, <2>1
  <2>3. s[k] \in Nat /\ f[from + (k + 1) - 1] \in Nat
    BY <1>3, <2>1
  <2> QED
    BY <2>2, <2>3
<1> HIDE DEF naturals
<1>4. m \in naturals /\ m \in Nat
  BY <1>2, <1>3, NatInduct
<1> QED
  BY <1>1, <1>4 DEF naturals

\* Two positive numbers have a least common multiple.
LEMMA CommonMultiple ==
    ASSUME NEW a \in Nat \ {0}, NEW b \in Nat \ {0}
    PROVE  Min(CommonMultiples(a, b)) \in Nat \ {0}
<1> DEFINE M == CommonMultiples(a, b)
<1>1. a * b \in Nat /\ a * b >= 1 /\ a * b = b * a
  OBVIOUS
<1>2. (a * b) % a = 0 /\ (a * b) % b = 0
  BY <1>1, RemainderUnique
<1>3. M \in SUBSET Nat /\ M # {} /\ 0 \notin M
  <2> DEFINE c == a * b
  <2>1. c \in 1 .. c /\ c % a = 0 /\ c % b = 0
    BY <1>1, <1>2
  <2>2. M = {u \in 1 .. c : u % a = 0 /\ u % b = 0}
    BY DEF CommonMultiples
  <2> HIDE DEF c, M
  <2> QED
    BY <2>1, <2>2
<1>4. PICK u \in M : \A v \in M : u <= v
  BY <1>3, NatLeast
<1>5. Min(M) \in M
  BY <1>4 DEF Min
<1> QED
  BY <1>3, <1>5

\* The unit of any intervals is a positive number.
LEMMA UnitIsPositive ==
    ASSUME NEW from \in Nat, NEW to \in Nat, from <= to + 1,
           \A p \in from .. to : Share(fits[p]) \in Nat \ {0}
    PROVE  UnitOver(from, to) \in Nat \ {0}
<1> DEFINE m == to - from + 1
           positive == Nat \ {0}
           share(k) == Share(fits[from + k - 1])
           unfolds(g) == g = [k \in 0 .. m |->
                              IF k = 0 THEN 1 ELSE Min(CommonMultiples(g[k - 1], share(k)))]
           step == [k \in 1 .. m |-> [v \in positive |-> Min(CommonMultiples(v, share(k)))]]
<1>1. m \in Nat /\ 1 \in positive
  OBVIOUS
<1>2. ASSUME NEW k \in 1 .. m PROVE share(k) \in positive
  <2>1. from + k - 1 \in from .. to
    OBVIOUS
  <2> QED
    BY <2>1
<1>3. UnitOver(from, to) = (CHOOSE g : unfolds(g))[m]
  BY DEF UnitOver
<1> HIDE DEF m, share
<1>4. step \in [1 .. m -> [positive -> positive]]
  <2>1. ASSUME NEW k \in 1 .. m, NEW v \in positive
        PROVE  Min(CommonMultiples(v, share(k))) \in positive
    BY <1>2, CommonMultiple
  <2> QED
    BY <2>1
<1> HIDE DEF positive
<1>5. PICK c \in [0 .. m -> positive] :
         c[0] = 1 /\ \A k \in 1 .. m : c[k] = step[k][c[k - 1]]
  <2>1. Recursion(positive, 1, m, step)
    BY <1>1, <1>4 DEF Recursion
  <2> HIDE DEF step
  <2>2. PICK c : Unfolds(positive, 1, m, step, c)
    BY <2>1, NatRecursion, Zenon
  <2> QED
    BY <2>2 DEF Unfolds
<1>6. unfolds(c)
  <2>1. ASSUME NEW k \in 0 .. m
        PROVE  c[k] = IF k = 0 THEN 1 ELSE Min(CommonMultiples(c[k - 1], share(k)))
    <3>1. CASE k = 0
      BY <1>5, <3>1
    <3>2. CASE k # 0
      <4>1. k \in 1 .. m /\ k - 1 \in 0 .. m
        BY <1>1, <3>2
      <4>2. c[k - 1] \in positive
        BY <4>1
      <4> QED
        BY <1>5, <3>2, <4>1, <4>2
    <3> QED
      BY <3>1, <3>2
  <2> QED
    BY <2>1
<1> DEFINE g == CHOOSE g : unfolds(g)
<1>7. unfolds(g)
  BY <1>6
<1> HIDE DEF g
<1>8. g[0] = 1 /\ \A k \in 1 .. m : g[k - 1] \in positive => g[k] = step[k][g[k - 1]]
  <2>1. 0 \in 0 .. m /\ \A k \in 1 .. m : k \in 0 .. m /\ k # 0
    BY <1>1
  <2> QED
    BY <1>7, <2>1
<1> HIDE DEF step, unfolds
<1>9. g[m] \in positive
  BY <1>1, <1>4, <1>8, StaysIn
<1> QED
  BY <1>3, <1>9 DEF g, positive

-----------------------------------------------------------------------------
(* Posts in order of position.                                             *)

\* The order of posts lists each of them once, from the lowest position up.
LEMMA OrderSorts ==
    ASSUME NEW ps \in Seq(Nat), \A i, j \in DOMAIN ps : ps[i] = ps[j] => i = j
    PROVE  /\ Ordered(ps) \in [DOMAIN ps -> DOMAIN ps]
           /\ \A i \in DOMAIN ps : \E p \in DOMAIN ps : Ordered(ps)[p] = i
           /\ \A p, q \in DOMAIN ps : p < q => ps[Ordered(ps)[p]] < ps[Ordered(ps)[q]]
<1> DEFINE D == DOMAIN ps
           n == Len(ps)
           below(i) == {j \in D : ps[j] < ps[i]}
           rank(i) == Cardinality(below(i))
           f == [i \in D |-> rank(i) + 1]
           o == Ordered(ps)
<1>1. /\ n \in Nat /\ D = 1 .. n /\ IsFiniteSet(D) /\ Cardinality(D) = n
      /\ \A i \in D : ps[i] \in Nat
  <2>1. n \in Nat /\ D = 1 .. n /\ \A i \in D : ps[i] \in Nat
    OBVIOUS
  <2>2. IsFiniteSet(1 .. n) /\ Cardinality(1 .. n) = n
    <3>1. PICK m \in Nat : m = n
      BY <2>1
    <3>2. IsFiniteSet(1 .. m) /\ Cardinality(1 .. m) = IF 1 > m THEN 0 ELSE m - 1 + 1
      BY FS_Interval
    <3> QED
      BY <3>1, <3>2
  <2> QED
    BY <2>1, <2>2
<1>0. \A i, j \in D : ps[i] = ps[j] => i = j
  OBVIOUS
<1>7. o = [p \in D |-> CHOOSE i \in D : rank(i) = p - 1]
  BY DEF Ordered
<1> HIDE DEF D, n, o
<1>2. ASSUME NEW i \in D
      PROVE  IsFiniteSet(below(i)) /\ rank(i) \in Nat /\ rank(i) < n
  <2>1. below(i) \in SUBSET (D \ {i})
    BY <1>1
  <2>2. IsFiniteSet(D \ {i}) /\ Cardinality(D \ {i}) = n - 1
    BY <1>1, FS_RemoveElement
  <2>3. IsFiniteSet(below(i)) /\ Cardinality(below(i)) <= n - 1
    BY <2>1, <2>2, FS_Subset
  <2> QED
    BY <1>1, <2>3, FS_CardinalityType
<1>3. ASSUME NEW i \in D, NEW j \in D, ps[i] < ps[j] PROVE rank(i) < rank(j)
  <2>1. below(i) \in SUBSET (below(j) \ {i}) /\ i \in below(j)
    BY <1>1, <1>3
  <2>2. IsFiniteSet(below(j) \ {i}) /\ Cardinality(below(j) \ {i}) = rank(j) - 1
    BY <1>2, <2>1, FS_RemoveElement
  <2>3. rank(i) <= rank(j) - 1
    BY <2>1, <2>2, FS_Subset
  <2>4. rank(i) \in Nat /\ rank(j) \in Nat
    BY <1>2
  <2> HIDE DEF rank
  <2> QED
    BY <2>3, <2>4
<1> HIDE DEF rank, below
<1>4. ASSUME NEW i \in D, NEW j \in D, rank(i) = rank(j) PROVE i = j
  <2>1. ~(ps[i] < ps[j]) /\ ~(ps[j] < ps[i])
    BY <1>2, <1>3, <1>4
  <2>2. ps[i] = ps[j]
    BY <1>1, <2>1
  <2> QED
    BY <1>0, <2>2
<1>5. f \in Injection(D, D)
  <2>1. f \in [D -> D]
    BY <1>1, <1>2
  <2>2. \A i, j \in D : f[i] = f[j] => i = j
    BY <1>2, <1>4
  <2> HIDE DEF f
  <2> QED
    BY <2>1, <2>2 DEF Injection, IsInjective
<1>6. \A p \in D : \E i \in D : f[i] = p
  <2>1. f \in Surjection(D, D)
    BY <1>1, <1>5, FS_Injection
  <2> QED
    BY <2>1 DEF Surjection
<1>8. ASSUME NEW p \in D PROVE o[p] \in D /\ rank(o[p]) = p - 1
  <2>1. \E i \in D : rank(i) = p - 1
    <3>1. PICK i \in D : f[i] = p
      BY <1>6
    <3>2. f[i] = rank(i) + 1
      BY <3>1
    <3> QED
      BY <1>2, <3>1, <3>2
  <2> QED
    BY <1>7, <2>1
<1>9. ASSUME NEW i \in D PROVE \E p \in D : o[p] = i
  <2>1. rank(i) + 1 \in D /\ (rank(i) + 1) - 1 = rank(i)
    BY <1>1, <1>2
  <2> QED
    BY <1>4, <1>8, <2>1
<1>10. ASSUME NEW p \in D, NEW q \in D, p < q PROVE ps[o[p]] < ps[o[q]]
  <2>1. rank(o[p]) < rank(o[q]) /\ o[p] \in D /\ o[q] \in D
    BY <1>1, <1>8, <1>10
  <2>2. ~(rank(o[q]) < rank(o[p])) /\ o[p] # o[q]
    BY <1>2, <2>1
  <2>3. ps[o[p]] # ps[o[q]] /\ ~(ps[o[q]] < ps[o[p]])
    BY <1>0, <1>3, <2>1, <2>2
  <2> QED
    BY <1>1, <2>1, <2>3
<1>11. o \in [D -> D]
  <2>1. o = [p \in D |-> o[p]]
    BY <1>7
  <2> QED
    BY <1>8, <2>1
<1> QED
  BY <1>9, <1>10, <1>11 DEF D, o

-----------------------------------------------------------------------------
(* The heights of a line.                                                  *)

\* The curve to fit, its posts in order, and the sums between them.
SpectrumInv ==
    /\ \E spectrum \in Spectra : xs = spectrum.xs /\ bins = spectrum.bins
    /\ order = Ordered(xs)
    /\ fits = [place \in 1 .. Len(xs) - 1 |->
                  Accumulated(bins, xs[order[place]], xs[order[place + 1]])]

LEMMA SpectrumTyped ==
    ASSUME SpectrumInv
    PROVE  /\ xs \in Seq(Nat) /\ Posts = 1 .. Len(xs) /\ Len(xs) \in Nat /\ Len(xs) >= 2
           /\ \A i \in Posts : xs[i] \in Nat
           /\ \A i, j \in Posts : xs[i] = xs[j] => i = j
           /\ \A i \in Posts : xs[1] <= xs[i] /\ xs[i] <= xs[2]
           /\ \A x \in DOMAIN bins : bins[x].level \in Nat
<1>1. PICK spectrum \in Spectra : xs = spectrum.xs /\ bins = spectrum.bins
  BY DEF SpectrumInv
<1>2. /\ xs \in Seq(Nat) /\ Len(xs) >= 2
      /\ \A i, j \in DOMAIN xs : xs[i] = xs[j] => i = j
      /\ \A i \in DOMAIN xs : xs[1] <= xs[i] /\ xs[i] <= xs[2]
      /\ \A x \in DOMAIN bins : bins[x].level \in 0 .. MaxLevel
  BY <1>1, SpectraAssumption
<1>3. \A x \in DOMAIN bins : bins[x].level \in Nat
  BY <1>2, SpectraAssumption
<1> QED
  BY <1>2, <1>3 DEF Posts

\* Every post has one place, and places are in order of position.
LEMMA PlacesFound ==
    ASSUME SpectrumInv
    PROVE  /\ \A p \in Posts : order[p] \in Posts
           /\ \A i \in Posts : Place(i) \in Posts /\ order[Place(i)] = i
           /\ \A p \in Posts : Place(order[p]) = p
           /\ \A p, q \in Posts : p < q => xs[order[p]] < xs[order[q]]
           /\ \A i, j \in Posts : xs[i] < xs[j] <=> Place(i) < Place(j)
<1>1. /\ xs \in Seq(Nat) /\ Posts = 1 .. Len(xs) /\ Len(xs) \in Nat
      /\ \A i \in Posts : xs[i] \in Nat
      /\ \A i, j \in Posts : xs[i] = xs[j] => i = j
  BY SpectrumTyped
<1>2. /\ order \in [Posts -> Posts]
      /\ \A i \in Posts : \E p \in Posts : order[p] = i
      /\ \A p, q \in Posts : p < q => xs[order[p]] < xs[order[q]]
  BY <1>1, OrderSorts DEF SpectrumInv, Posts
<1>3. ASSUME NEW i \in Posts PROVE Place(i) \in Posts /\ order[Place(i)] = i
  BY <1>2 DEF Place
<1>4. ASSUME NEW p \in Posts, NEW q \in Posts, order[p] = order[q] PROVE p = q
  <2>1. ~(xs[order[p]] < xs[order[q]]) /\ ~(xs[order[q]] < xs[order[p]])
    <3>1. PICK v \in Nat : v = xs[order[p]] /\ v = xs[order[q]]
      BY <1>1, <1>2, <1>4
    <3> QED
      BY <3>1
  <2>2. ~(p < q) /\ ~(q < p)
    BY <1>2, <2>1
  <2> QED
    BY <1>1, <2>2
<1>5. ASSUME NEW p \in Posts PROVE order[p] \in Posts /\ Place(order[p]) = p
  BY <1>2, <1>3, <1>4
<1>6. ASSUME NEW i \in Posts, NEW j \in Posts PROVE xs[i] < xs[j] <=> Place(i) < Place(j)
  <2>1. /\ Place(i) \in Posts /\ order[Place(i)] = i
        /\ Place(j) \in Posts /\ order[Place(j)] = j
    BY <1>3
  <2>2. /\ Place(i) < Place(j) => xs[i] < xs[j]
        /\ Place(j) < Place(i) => xs[j] < xs[i]
    BY <1>2, <2>1
  <2>3. Place(i) = Place(j) => i = j
    BY <2>1
  <2>4. Place(i) \in Nat /\ Place(j) \in Nat /\ xs[i] \in Nat /\ xs[j] \in Nat
    BY <1>1, <2>1
  <2> QED
    BY <2>2, <2>3, <2>4
<1> QED
  BY <1>2, <1>3, <1>5, <1>6

\* The sums between two neighbours are numbers.
LEMMA SumsTyped ==
    ASSUME SpectrumInv, NEW p \in 1 .. Len(xs) - 1, NEW sum \in Sums
    PROVE  fits[p].primary[sum] \in Nat /\ fits[p].other[sum] \in Nat
<1> DEFINE from == xs[order[p]]
           to == xs[order[p + 1]]
<1>1. p \in Posts /\ p + 1 \in Posts /\ p < p + 1
  BY SpectrumTyped
<1>2. from \in Nat /\ to \in Nat /\ from <= to + 1
  <2>1. from < to
    BY <1>1, PlacesFound
  <2>2. from \in Nat /\ to \in Nat
    BY <1>1, SpectrumTyped, PlacesFound
  <2> HIDE DEF from, to
  <2> QED
    BY <2>1, <2>2
<1>3. fits[p] = Accumulated(bins, from, to)
  BY DEF SpectrumInv
<1> HIDE DEF from, to
<1>4. ASSUME NEW wanted PROVE SumsOf(bins, from, to, wanted)[sum] \in Nat
  <2> DEFINE sounding(x) == /\ x \in DOMAIN bins
                            /\ bins[x].level # 0 /\ bins[x].primary = wanted
             f == [x \in from .. to |->
                      IF /\ x \in DOMAIN bins
                         /\ bins[x].level # 0 /\ bins[x].primary = wanted
                      THEN Term(sum, x, bins[x].level) ELSE 0]
  <2>1. ASSUME NEW x \in from .. to PROVE f[x] \in Nat
    <3>1. x \in Nat
      BY <1>2
    <3>2. ASSUME sounding(x) PROVE Term(sum, x, bins[x].level) \in Nat
      <4>1. PICK y \in Nat : y = bins[x].level
        BY <3>2, SpectrumTyped
      <4>2. x * x \in Nat /\ x * y \in Nat
        BY <3>1
      <4> QED
        BY <3>1, <4>1, <4>2 DEF Term, Sums
    <3> QED
      BY <3>2
  <2>2. SumsOf(bins, from, to, wanted)[sum] = SumOver(from, to, f)
    BY DEF SumsOf
  <2> HIDE DEF f
  <2> QED
    BY <1>2, <2>1, <2>2, SumIsNat
<1>5. fits[p].primary = SumsOf(bins, from, to, TRUE)
      /\ fits[p].other = SumsOf(bins, from, to, FALSE)
  BY <1>3 DEF Accumulated
<1> QED
  BY <1>4, <1>5

\* Moments are numbers.
LEMMA MomentsTyped ==
    ASSUME SpectrumInv, NEW from \in Posts, NEW to \in Posts, from < to, NEW sum \in Sums
    PROVE  Moments(from, to - 1)[sum] \in Nat
<1> DEFINE unit == UnitOver(from, to - 1)
           f == [p \in from .. to - 1 |-> WeightOf(fits[p], unit) * fits[p].primary[sum]
                                          + unit * fits[p].other[sum]]
<1>1. from \in Nat /\ to - 1 \in Nat /\ from <= (to - 1) + 1
      /\ \A p \in from .. to - 1 : p \in 1 .. Len(xs) - 1
  BY SpectrumTyped
<1>2. ASSUME NEW p \in from .. to - 1
      PROVE  /\ fits[p].primary[sum] \in Nat /\ fits[p].other[sum] \in Nat
             /\ fits[p].primary.n \in Nat /\ fits[p].other.n \in Nat
             /\ Share(fits[p]) \in Nat \ {0}
  <2>1. p \in 1 .. Len(xs) - 1 /\ "n" \in Sums
    BY <1>1 DEF Sums
  <2> QED
    BY <2>1, SumsTyped DEF Share
<1>3. unit \in Nat \ {0}
  BY <1>1, <1>2, UnitIsPositive
<1> HIDE DEF unit
<1>4. ASSUME NEW p \in from .. to - 1 PROVE f[p] \in Nat
  <2>1. PICK a \in Nat, b \in Nat, w \in Nat, s \in Nat \ {0} :
           /\ a = fits[p].primary.n /\ b = fits[p].other.n
           /\ w = PrimaryWeight /\ s = Share(fits[p])
    BY <1>2, SpectraAssumption
  <2>2. ((a + b) * w) * unit \in Nat
    BY <1>3
  <2>3. (((a + b) * w) * unit) \div s \in Nat
    BY <2>2
  <2>4. WeightOf(fits[p], unit) \in Nat
    BY <1>3, <2>1, <2>3 DEF WeightOf
  <2>5. PICK u \in Nat, v \in Nat, x \in Nat, y \in Nat :
           /\ u = WeightOf(fits[p], unit) /\ v = unit
           /\ x = fits[p].primary[sum] /\ y = fits[p].other[sum]
    BY <1>2, <1>3, <2>4
  <2>6. u * x + v * y \in Nat
    OBVIOUS
  <2> QED
    BY <2>5, <2>6
<1>5. Moments(from, to - 1)[sum] = SumOver(from, to - 1, f)
  BY DEF Moments, unit
<1> HIDE DEF f
<1> QED
  BY <1>1, <1>4, <1>5, SumIsNat

\* The ends of a line are levels.
LEMMA LineTyped ==
    ASSUME SpectrumInv, NEW from \in Posts, NEW to \in Posts, from < to
    PROVE  /\ FitLine(from, to).y0 \in Nat /\ FitLine(from, to).y1 \in Nat
           /\ FitLine(from, to).y0 <= MaxLevel /\ FitLine(from, to).y1 <= MaxLevel
<1> DEFINE m == Moments(from, to - 1)
<1>1. m.n \in Nat /\ m.x \in Nat /\ m.xx \in Nat /\ m.y \in Nat /\ m.xy \in Nat
  BY MomentsTyped DEF Sums
<1>2. xs[order[from]] \in Nat /\ xs[order[to]] \in Nat
  BY SpectrumTyped, PlacesFound
<1> HIDE DEF m
<1>3. ASSUME NEW x \in Nat, ~(m.n * m.xx - m.x * m.x <= 0)
      PROVE  HeightAt(m, x) \in Nat /\ HeightAt(m, x) <= MaxLevel
  <2> DEFINE denom == m.n * m.xx - m.x * m.x
             scaled == (m.y * m.xx - m.xy * m.x) + (m.n * m.xy - m.x * m.y) * x
             height == (2 * scaled + denom) \div (2 * denom)
  <2>1. denom \in Nat \ {0} /\ scaled \in Int
    BY <1>1, <1>3
  <2>2. HeightAt(m, x) = Greatest(0, Least(MaxLevel, height))
    BY DEF HeightAt
  <2> HIDE DEF denom, scaled
  <2>3. height \in Int
    BY <2>1, DivideInt
  <2> HIDE DEF height
  <2> QED
    BY <2>2, <2>3, SpectraAssumption DEF Greatest, Least
<1> DEFINE denom == m.n * m.xx - m.x * m.x
<1>4. CASE denom <= 0
  BY <1>4, SpectraAssumption DEF FitLine, m
<1>5. CASE ~(denom <= 0)
  <2>1. /\ FitLine(from, to).y0 = HeightAt(m, xs[order[from]])
        /\ FitLine(from, to).y1 = HeightAt(m, xs[order[to]])
    BY <1>5 DEF FitLine, m
  <2> QED
    BY <1>2, <1>3, <1>5, <2>1
<1> QED
  BY <1>4, <1>5

-----------------------------------------------------------------------------
(* Neighbours enclose.                                                     *)

\* Kinds of the variables of a fit.
FitTyped ==
    /\ SpectrumInv
    /\ fitA \in [Posts -> Int] /\ fitB \in [Posts -> Int]
    /\ lowOf \in [Posts -> Posts] /\ highOf \in [Posts -> Posts]
    /\ memo \in [Posts -> Nat]
    /\ turn \in Nat

\* Before the first line no post has a height.
FitBlank ==
    \A i \in Posts : fitA[i] = Unset /\ fitB[i] = Unset /\ lowOf[i] = 1 /\ highOf[i] = 2

\* From the first line on the ends have one, and a post that is to be visited
\* has none.
FitUnderWay ==
    /\ {1, 2} \subseteq UsedPosts
    /\ \A i \in UsedPosts : i < turn

FitInv ==
    /\ outcome # "none" => FitTyped
    /\ outcome = "pending" => \/ turn = 1 /\ FitBlank
                              \/ turn > 2 /\ FitUnderWay
    /\ Visiting => outcome = "pending"
    /\ FitNeighboursEnclose

\* The height of two lines.
LEMMA MeanHeight ==
    ASSUME NEW a \in Int, NEW b \in Int,
           NEW y, y = IF a < 0 THEN b ELSE IF b < 0 THEN a ELSE (a + b) \div 2
    PROVE  y \in Int /\ (y >= 0 <=> a >= 0 \/ b >= 0)
OBVIOUS

\* A post is used when it has a height in one of its lines.
LEMMA UsedAre ==
    ASSUME FitTyped
    PROVE  /\ \A i \in Posts : PostY(i) \in Int
           /\ \A i \in Posts : i \in UsedPosts <=> fitA[i] >= 0 \/ fitB[i] >= 0
<1> SUFFICES ASSUME NEW i \in Posts
             PROVE  PostY(i) \in Int /\ (i \in UsedPosts <=> fitA[i] >= 0 \/ fitB[i] >= 0)
  OBVIOUS
<1>1. fitA[i] \in Int /\ fitB[i] \in Int
  BY DEF FitTyped
<1>2. PostY(i) \in Int /\ (PostY(i) >= 0 <=> fitA[i] >= 0 \/ fitB[i] >= 0)
  BY <1>1, MeanHeight DEF PostY
<1> QED
  BY <1>2 DEF UsedPosts

\* Two posts without a height are enclosed by the same posts exactly when one
\* lies between the neighbours of the other.
LEMMA SameSegment ==
    ASSUME SpectrumInv, NEW i \in Posts, NEW j \in Posts \ UsedPosts,
           NEW lo, NEW hi, Encloses(lo, hi, i), NEW lo2, NEW hi2, Encloses(lo2, hi2, j)
    PROVE  /\ lo2 = lo <=> xs[lo] < xs[j] /\ xs[j] < xs[hi]
           /\ hi2 = hi <=> xs[lo] < xs[j] /\ xs[j] < xs[hi]
<1>1. /\ lo \in Posts /\ hi \in Posts /\ lo2 \in Posts /\ hi2 \in Posts
      /\ lo # j /\ hi # j
      /\ {lo, hi, lo2, hi2} \subseteq UsedPosts
  BY DEF Encloses, UsedPosts
<1>2. PICK a \in Nat, b \in Nat, c \in Nat, d \in Nat, x \in Nat, y \in Nat :
         /\ a = xs[lo] /\ b = xs[hi] /\ c = xs[lo2] /\ d = xs[hi2]
         /\ x = xs[j] /\ y = xs[i]
  BY <1>1, SpectrumTyped
<1>3. /\ a < y /\ y < b /\ c < x /\ x < d
      /\ ~(a < c /\ c < b) /\ ~(a < d /\ d < b)
      /\ ~(c < a /\ a < d) /\ ~(c < b /\ b < d)
  BY <1>1, <1>2 DEF Encloses
<1>4. /\ x # a /\ x # b
      /\ lo2 = lo <=> c = a
      /\ hi2 = hi <=> d = b
  BY <1>1, <1>2, SpectrumTyped
<1>5. /\ c = a <=> a < x /\ x < b
      /\ d = b <=> a < x /\ x < b
  BY <1>3, <1>4
<1> QED
  BY <1>2, <1>4, <1>5

\* The post to visit has no height, and its neighbours enclose it.
LEMMA VisitedPost ==
    ASSUME FitInv, Visiting
    PROVE  /\ outcome = "pending" /\ FitTyped /\ FitUnderWay /\ turn > 2 /\ turn \in Posts \ UsedPosts
           /\ Low \in UsedPosts /\ High \in UsedPosts
           /\ Low \in Posts /\ High \in Posts
           /\ Encloses(Low, High, turn)
           /\ \A j \in Posts \ UsedPosts :
                 /\ Encloses(lowOf[Place(j)], highOf[Place(j)], j)
                 /\ j < turn => memo[lowOf[Place(j)]] = highOf[Place(j)]
<1>1. outcome = "pending" /\ FitTyped /\ FitUnderWay /\ turn > 2 /\ turn \in Nat
  BY DEF FitInv, Visiting, FitTyped
<1>2. turn \in Posts
  BY <1>1, SpectrumTyped DEF Visiting, FitTyped
<1>3. turn \notin UsedPosts
  BY <1>1 DEF FitUnderWay
<1>4. \A j \in Posts \ UsedPosts :
                 /\ Encloses(lowOf[Place(j)], highOf[Place(j)], j)
                 /\ j < turn => memo[lowOf[Place(j)]] = highOf[Place(j)]
  BY <1>1 DEF FitInv, FitNeighboursEnclose
<1>5. Encloses(Low, High, turn)
  BY <1>2, <1>3, <1>4 DEF Low, High
<1> QED
  BY <1>1, <1>2, <1>3, <1>4, <1>5 DEF Encloses, UsedPosts

\* A step that leaves heights and neighbours alone.
LEMMA VisitKeeps ==
    ASSUME FitInv, Visiting, turn' = turn + 1,
           UNCHANGED <<spectrumVars, fitA, fitB, lowOf, highOf, outcome>>,
           memo' = memo \/ memo' = [memo EXCEPT ![Low] = High],
           memo'[Low] = High
    PROVE  FitInv'
<1>1. /\ outcome = "pending" /\ FitTyped /\ FitUnderWay /\ turn > 2
      /\ turn \in Posts \ UsedPosts /\ Low \in Posts /\ High \in Posts
      /\ Encloses(Low, High, turn)
      /\ \A j \in Posts \ UsedPosts :
            /\ Encloses(lowOf[Place(j)], highOf[Place(j)], j)
            /\ j < turn => memo[lowOf[Place(j)]] = highOf[Place(j)]
  BY VisitedPost
<1>2. Posts' = Posts /\ UsedPosts' = UsedPosts
  BY DEF spectrumVars, Posts, UsedPosts, PostY
<1>3. /\ \A j \in Posts : Place(j)' = Place(j)
      /\ \A lo, hi, j : Encloses(lo, hi, j)' <=> Encloses(lo, hi, j)
      /\ SpectrumInv'
  BY <1>1, <1>2 DEF spectrumVars, Place, Encloses, SpectrumInv, FitTyped
<1>4. Posts = 1 .. Len(xs) /\ Len(xs) \in Nat
  BY <1>1, SpectrumTyped DEF FitTyped
<1>5. FitTyped'
  <2>1. memo' \in [Posts -> Nat]
    BY <1>1, <1>4 DEF FitTyped
  <2> QED
    BY <1>1, <1>2, <1>3, <2>1 DEF FitTyped
<1>6. FitUnderWay'
  <2>1. \A i \in UsedPosts : i \in Nat /\ turn \in Nat
    BY <1>1, <1>4 DEF UsedPosts, FitTyped
  <2>2. \A i \in UsedPosts : i < turn + 1
    BY <1>1, <2>1 DEF FitUnderWay
  <2> QED
    BY <1>1, <1>2, <2>2 DEF FitUnderWay
<1>7. ASSUME NEW j \in Posts \ UsedPosts, j < turn + 1
      PROVE  memo'[lowOf[Place(j)]] = highOf[Place(j)]
  <2> DEFINE lo == lowOf[Place(j)]
             hi == highOf[Place(j)]
  <2>1. Encloses(lo, hi, j) /\ (j < turn => memo[lo] = hi) /\ lo \in Posts
    BY <1>1 DEF Encloses, UsedPosts
  <2>2. lo = Low <=> hi = High
    BY <1>1, <1>7, <2>1, SameSegment DEF FitTyped
  <2>3. CASE lo = Low
    BY <2>2, <2>3
  <2>4. CASE lo # Low
    <3>1. memo'[lo] = memo[lo]
      BY <1>1, <2>1, <2>4 DEF FitTyped
    <3>2. j # turn
      BY <2>4 DEF Low
    <3>3. j < turn
      BY <1>1, <1>4, <1>7, <3>2
    <3> QED
      BY <2>1, <3>1, <3>3
  <2> QED
    BY <2>3, <2>4
<1>8. FitNeighboursEnclose'
  BY <1>1, <1>2, <1>3, <1>7 DEF FitNeighboursEnclose
<1>9. turn' > 2 /\ outcome' = "pending"
  BY <1>1, <1>4
<1> QED
  BY <1>5, <1>6, <1>8, <1>9 DEF FitInv

\* A new fit has every post blank.
LEMMA BeginFitKeeps == BeginFit => FitInv'
<1> SUFFICES ASSUME BeginFit PROVE FitInv'
  OBVIOUS
<1>1. SpectrumInv'
  BY DEF BeginFit, SpectrumInv
<1>2. /\ turn' = 1 /\ outcome' = "pending"
      /\ fitA' = [i \in Posts' |-> Unset] /\ fitB' = fitA'
      /\ lowOf' = [i \in Posts' |-> 1] /\ highOf' = [i \in Posts' |-> 2]
      /\ memo' = [i \in Posts' |-> 0]
  BY DEF BeginFit, Posts
<1>3. 1 \in Posts' /\ 2 \in Posts'
  <2>1. PICK spectrum \in Spectra : xs' = spectrum.xs
    BY DEF BeginFit
  <2>2. Len(xs') \in Nat /\ Len(xs') >= 2 /\ DOMAIN xs' = 1 .. Len(xs')
    BY <2>1, SpectraAssumption
  <2> QED
    BY <2>2 DEF Posts
<1>4. FitTyped'
  BY <1>1, <1>2, <1>3 DEF FitTyped, Unset
<1>5. FitBlank'
  BY <1>2 DEF FitBlank
<1> QED
  BY <1>2, <1>4, <1>5 DEF FitInv, FitNeighboursEnclose, Visiting

\* The first line gives the ends a height, and every other post lies between.
LEMMA WholeKeeps ==
    ASSUME FitInv, FitWhole
    PROVE  FitInv'
<1>1. /\ outcome = "pending" /\ turn = 1 /\ FitTyped /\ FitBlank /\ SpectrumInv
      /\ UNCHANGED <<spectrumVars, lowOf, highOf, memo>>
  BY DEF FitInv, FitWhole, FitTyped
<1>2. /\ Posts = 1 .. Len(xs) /\ Len(xs) \in Nat /\ Len(xs) >= 2
      /\ \A i \in Posts : xs[i] \in Nat
      /\ \A i, j \in Posts : xs[i] = xs[j] => i = j
      /\ \A i \in Posts : xs[1] <= xs[i] /\ xs[i] <= xs[2]
  BY <1>1, SpectrumTyped
<1>3. /\ Posts' = Posts /\ SpectrumInv' /\ \A j \in Posts : Place(j)' = Place(j)
  BY <1>1 DEF spectrumVars, Posts, Place, SpectrumInv
<1>4. CASE UNCHANGED <<turn, fitA, fitB>> /\ outcome' = "silent"
  <2>1. FitTyped'
    BY <1>1, <1>3, <1>4 DEF FitTyped
  <2> QED
    BY <1>1, <1>4, <2>1 DEF FitInv, FitNeighboursEnclose, Visiting
<1>5. ASSUME NEW a \in Nat, NEW b \in Nat, fitA' = [fitA EXCEPT ![1] = a, ![2] = b],
             fitB' = fitA', turn' = 3, outcome' = outcome
      PROVE  FitInv'
  <2>1. /\ fitA' \in [Posts -> Int] /\ fitA'[1] = a /\ fitA'[2] = b
        /\ \A i \in Posts \ {1, 2} : fitA'[i] = Unset
    BY <1>1, <1>2, <1>5 DEF FitTyped, FitBlank
  <2>2. FitTyped'
    BY <1>1, <1>3, <1>5, <2>1 DEF FitTyped
  <2>3. UsedPosts' = {1, 2}
    <3>1. ASSUME NEW i \in Posts PROVE PostY(i)' >= 0 <=> i \in {1, 2}
      <4>1. PostY(i)' >= 0 <=> fitA'[i] >= 0
        <5>1. PICK h \in Int : h = fitA'[i] /\ h = fitB'[i]
          BY <1>5, <2>1
        <5>2. PostY(i)' = IF h < 0 THEN h ELSE IF h < 0 THEN h ELSE (h + h) \div 2
          BY <5>1 DEF PostY
        <5> QED
          BY <5>1, <5>2, MeanHeight
      <4> QED
        BY <1>5, <2>1, <4>1 DEF Unset
    <3>2. 1 \in Posts /\ 2 \in Posts
      BY <1>2
    <3> QED
      BY <1>3, <3>1, <3>2 DEF UsedPosts
  <2>4. FitUnderWay'
    BY <1>5, <2>3 DEF FitUnderWay
  <2>5. ASSUME NEW i \in Posts \ {1, 2} PROVE Encloses(1, 2, i)' /\ ~(i < 3)
    <3>1. /\ 1 \in Posts /\ 2 \in Posts /\ i \in Posts /\ i # 1 /\ i # 2 /\ ~(i < 3)
      BY <1>2
    <3>2. PICK x \in Nat, y \in Nat, z \in Nat : x = xs[1] /\ y = xs[i] /\ z = xs[2]
      BY <1>2, <3>1
    <3>3. x < y /\ y < z
      BY <1>2, <3>1, <3>2
    <3>4. xs' = xs
      BY <1>1 DEF spectrumVars
    <3> QED
      BY <2>3, <3>1, <3>2, <3>3, <3>4 DEF Encloses
  <2>6. \A i \in Posts : Place(i) \in Posts /\ lowOf'[Place(i)] = 1 /\ highOf'[Place(i)] = 2
    BY <1>1, PlacesFound DEF FitBlank
  <2>7. FitNeighboursEnclose'
    BY <1>3, <1>5, <2>3, <2>5, <2>6 DEF FitNeighboursEnclose
  <2> QED
    BY <1>1, <1>5, <2>2, <2>4, <2>7 DEF FitInv
<1>6. FitLine(1, Len(xs)).y0 \in Nat /\ FitLine(1, Len(xs)).y1 \in Nat
  BY <1>1, <1>2, LineTyped
<1> QED
  BY <1>4, <1>5, <1>6 DEF FitWhole

\* A split gives the post a height, and leaves every other post with one or
\* without one as it was.
LEMMA SplitHeights ==
    ASSUME FitInv, SplitSegment,
           ~(UNCHANGED <<fitA, fitB, lowOf, highOf>>)
    PROVE  /\ fitA' \in [Posts -> Int] /\ fitB' \in [Posts -> Int]
           /\ UsedPosts' = UsedPosts \cup {turn}
           /\ highOf' = LinkHigh /\ lowOf' = LinkLow
<1> DEFINE left == FitLine(Place(Low), Place(turn))
           right == FitLine(Place(turn), Place(High))
           ly0 == IF left.fails THEN PostY(Low) ELSE left.y0
           ly1 == IF left.fails THEN right.y0 ELSE left.y1
           hy0 == IF right.fails THEN ly1 ELSE right.y0
           hy1 == IF right.fails THEN PostY(High) ELSE right.y1
<1>1. /\ Visiting /\ FitTyped /\ FitUnderWay /\ turn > 2 /\ turn \in Posts \ UsedPosts
      /\ Low \in UsedPosts /\ High \in UsedPosts /\ Low \in Posts /\ High \in Posts
      /\ Encloses(Low, High, turn) /\ SpectrumInv
  BY VisitedPost DEF SplitSegment, FitTyped
<1>2. /\ fitA' = [fitA EXCEPT ![1] = IF Low = 1 THEN ly0 ELSE @, ![turn] = ly1, ![High] = hy1]
      /\ fitB' = [fitB EXCEPT ![2] = IF High = 2 THEN hy1 ELSE @, ![turn] = hy0, ![Low] = ly0]
      /\ highOf' = LinkHigh /\ lowOf' = LinkLow
  BY DEF SplitSegment
<1>3. left.y0 \in Nat /\ left.y1 \in Nat /\ right.y0 \in Nat /\ right.y1 \in Nat
  <2>1. Place(Low) \in Posts /\ Place(turn) \in Posts /\ Place(High) \in Posts
    BY <1>1, PlacesFound
  <2>2. Place(Low) < Place(turn) /\ Place(turn) < Place(High)
    BY <1>1, PlacesFound DEF Encloses
  <2> QED
    BY <1>1, <2>1, <2>2, LineTyped
<1>4. PostY(Low) \in Nat /\ PostY(High) \in Nat
  BY <1>1, UsedAre DEF UsedPosts
<1> HIDE DEF left, right
<1>5. ly0 \in Nat /\ ly1 \in Nat /\ hy0 \in Nat /\ hy1 \in Nat
  BY <1>3, <1>4
<1> HIDE DEF ly0, ly1, hy0, hy1
<1>6. /\ 1 \in UsedPosts /\ 2 \in UsedPosts /\ 1 \in Posts /\ 2 \in Posts
      /\ turn # 1 /\ turn # 2 /\ turn # Low /\ turn # High
  BY <1>1 DEF FitUnderWay, UsedPosts
<1>7. /\ \A i \in Posts \ {1, turn, High} : fitA'[i] = fitA[i]
      /\ fitA'[1] = fitA[1] \/ fitA'[1] \in Nat
      /\ fitA'[turn] \in Nat /\ fitA'[High] \in Nat
  BY <1>1, <1>2, <1>5, <1>6 DEF FitTyped
<1>8. /\ \A i \in Posts \ {2, turn, Low} : fitB'[i] = fitB[i]
      /\ fitB'[2] = fitB[2] \/ fitB'[2] \in Nat
      /\ fitB'[turn] \in Nat /\ fitB'[Low] \in Nat
  BY <1>1, <1>2, <1>5, <1>6 DEF FitTyped
<1>9. ASSUME NEW i \in Posts
      PROVE  /\ fitA'[i] = fitA[i] \/ (fitA'[i] \in Nat /\ i \in UsedPosts \cup {turn})
             /\ fitB'[i] = fitB[i] \/ (fitB'[i] \in Nat /\ i \in UsedPosts \cup {turn})
             /\ i = turn => fitA'[i] \in Nat
  BY <1>1, <1>6, <1>7, <1>8
<1>10. ASSUME NEW i \in Posts PROVE fitA'[i] \in Int /\ fitB'[i] \in Int
  BY <1>1, <1>9 DEF FitTyped
<1>11. fitA' \in [Posts -> Int] /\ fitB' \in [Posts -> Int]
  <2>1. /\ fitA' = [i \in Posts |-> fitA'[i]] /\ fitB' = [i \in Posts |-> fitB'[i]]
    BY <1>1, <1>2 DEF FitTyped
  <2> QED
    BY <1>10, <2>1
<1>12. ASSUME NEW i \in Posts
       PROVE  PostY(i)' >= 0 <=> i \in UsedPosts \cup {turn}
  <2>1. PICK a \in Int, b \in Int, c \in Int, d \in Int :
           a = fitA[i] /\ b = fitB[i] /\ c = fitA'[i] /\ d = fitB'[i]
    BY <1>1, <1>10 DEF FitTyped
  <2>2. PostY(i)' = IF c < 0 THEN d ELSE IF d < 0 THEN c ELSE (c + d) \div 2
    BY <2>1 DEF PostY
  <2>3. PostY(i)' >= 0 <=> c >= 0 \/ d >= 0
    BY <2>2, MeanHeight
  <2>4. i \in UsedPosts <=> a >= 0 \/ b >= 0
    BY <1>1, <2>1, UsedAre
  <2>5. /\ c = a \/ (c >= 0 /\ i \in UsedPosts \cup {turn})
        /\ d = b \/ (d >= 0 /\ i \in UsedPosts \cup {turn})
        /\ i = turn => c >= 0
    BY <1>9, <2>1
  <2>6. i \in UsedPosts => c >= 0 \/ d >= 0
    BY <2>4, <2>5
  <2> QED
    BY <2>3, <2>4, <2>5, <2>6
<1>13. Posts' = Posts
  BY DEF SplitSegment, spectrumVars, Posts
<1> QED
  BY <1>1, <1>2, <1>11, <1>12, <1>13 DEF UsedPosts

\* A split puts the post between the posts without a height on its two sides
\* and their neighbours beyond it.
LEMMA SplitKeeps ==
    ASSUME FitInv, SplitSegment
    PROVE  FitInv'
<1> DEFINE lo(j) == lowOf[Place(j)]
           hi(j) == highOf[Place(j)]
<1>1. /\ Visiting /\ FitTyped /\ FitUnderWay /\ turn > 2 /\ turn \in Posts \ UsedPosts
      /\ outcome = "pending" /\ Low \in UsedPosts /\ High \in UsedPosts
      /\ Low \in Posts /\ High \in Posts
      /\ Encloses(Low, High, turn) /\ SpectrumInv
      /\ \A j \in Posts \ UsedPosts : /\ Encloses(lo(j), hi(j), j)
                                      /\ j < turn => memo[lo(j)] = hi(j)
  BY VisitedPost DEF SplitSegment, FitTyped
<1>2. /\ memo' = [memo EXCEPT ![Low] = High] /\ memo[Low] # High /\ turn' = turn + 1
      /\ UNCHANGED <<spectrumVars, outcome>>
  BY DEF SplitSegment
<1>3. CASE UNCHANGED <<fitA, fitB, lowOf, highOf>>
  <2>1. memo'[Low] = High
    BY <1>1, <1>2 DEF FitTyped
  <2> QED
    BY <1>1, <1>2, <1>3, <2>1, VisitKeeps
<1>4. CASE ~(UNCHANGED <<fitA, fitB, lowOf, highOf>>)
  <2>1. /\ fitA' \in [Posts -> Int] /\ fitB' \in [Posts -> Int]
        /\ UsedPosts' = UsedPosts \cup {turn}
        /\ highOf' = LinkHigh /\ lowOf' = LinkLow
    BY <1>4, SplitHeights
  <2>0. PICK l \in Posts, h \in Posts, t \in Posts : l = Low /\ h = High /\ t = turn
    BY <1>1
  <2>2. /\ Posts' = Posts /\ SpectrumInv' /\ xs' = xs
        /\ \A j \in Posts : Place(j)' = Place(j)
    BY <1>1, <1>2 DEF spectrumVars, Posts, Place, SpectrumInv
  <2>3. /\ Posts = 1 .. Len(xs) /\ Len(xs) \in Nat
        /\ \A i \in Posts : xs[i] \in Nat
        /\ \A i, j \in Posts : xs[i] = xs[j] => i = j
    BY <1>1, SpectrumTyped
  <2>4. /\ \A p \in Posts : order[p] \in Posts /\ Place(order[p]) = p
        /\ \A i \in Posts : Place(i) \in Posts
        /\ \A i, j \in Posts : xs[i] < xs[j] <=> Place(i) < Place(j)
    BY <1>1, PlacesFound
  <2>5. ASSUME NEW j \in Posts \ UsedPosts
        PROVE  /\ lo(j) = l <=> xs[l] < xs[j] /\ xs[j] < xs[h]
               /\ hi(j) = h <=> xs[l] < xs[j] /\ xs[j] < xs[h]
    BY <1>1, <2>0, SameSegment
  <2>6. FitTyped'
    <3>1. highOf' \in [Posts -> Posts] /\ lowOf' \in [Posts -> Posts]
      BY <1>1, <2>1 DEF FitTyped, LinkHigh, LinkLow
    <3>2. memo' \in [Posts -> Nat]
      BY <1>1, <1>2, <2>3 DEF FitTyped
    <3> QED
      BY <1>1, <1>2, <2>1, <2>2, <3>1, <3>2 DEF FitTyped
  <2>7. FitUnderWay'
    <3>1. turn \in Nat /\ \A i \in UsedPosts : i \in Nat /\ i < turn
      BY <1>1, <2>3 DEF UsedPosts, FitTyped, FitUnderWay
    <3>2. \A i \in UsedPosts' : i < turn'
      BY <1>2, <2>1, <3>1
    <3> QED
      BY <1>1, <2>1, <3>2 DEF FitUnderWay
  <2>8. \A i \in UsedPosts : i \in Posts /\ ~(xs[l] < xs[i] /\ xs[i] < xs[h])
    BY <1>1, <2>0 DEF Encloses, UsedPosts
  <2>9. xs[l] < xs[t] /\ xs[t] < xs[h]
    BY <1>1, <2>0 DEF Encloses
  <2>10. ASSUME NEW j \in Posts \ UsedPosts', xs[l] < xs[j], xs[j] < xs[h], xs[j] < xs[t]
         PROVE  /\ lowOf'[Place(j)] = l /\ highOf'[Place(j)] = t
                /\ Encloses(l, t, j)'
    <3>1. j \in Posts \ UsedPosts
      BY <2>1
    <3>2. lo(j) = l
      BY <2>5, <2>10, <3>1
    <3>3. Place(j) < Place(t) /\ Place(j) \in Posts /\ Place(t) \in Posts
      BY <1>1, <2>0, <2>4, <2>10, <3>1
    <3>4. ASSUME NEW p \in Place(j) .. Place(t) - 1 PROVE highOf[p] = h
      <4>1. p \in Posts /\ (p = Place(j) \/ Place(j) < p) /\ p < Place(t)
        BY <2>3, <3>3
      <4>2. PICK k \in Posts : k = order[p] /\ Place(k) = p
        BY <2>4, <4>1
      <4>3. xs[k] < xs[t] /\ (xs[j] < xs[k] \/ p = Place(j))
        BY <1>1, <2>0, <2>4, <3>1, <4>1, <4>2
      <4>4. CASE p = Place(j)
        BY <2>5, <2>10, <3>1, <4>4
      <4>5. CASE xs[j] < xs[k]
        <5>1. xs[l] < xs[k] /\ xs[k] < xs[h]
          BY <1>1, <2>0, <2>3, <2>9, <2>10, <3>1, <4>3, <4>5
        <5>2. k \in Posts \ UsedPosts
          BY <2>8, <5>1
        <5> QED
          BY <2>5, <4>2, <5>1, <5>2
      <4> QED
        BY <4>3, <4>4, <4>5
    <3>5. highOf'[Place(j)] = t
      BY <2>0, <2>1, <3>3, <3>4 DEF LinkHigh
    <3>6. lowOf'[Place(j)] = l
      <4>1. ~(Place(j) > Place(t))
        BY <2>3, <3>3
      <4> QED
        BY <2>0, <2>1, <3>2, <3>3, <4>1 DEF LinkLow
    <3>7. ASSUME NEW i \in UsedPosts \cup {t} PROVE ~(xs[l] < xs[i] /\ xs[i] < xs[t])
      <4>1. CASE i = t
        <5>1. PICK x \in Nat : x = xs[t]
          BY <1>1, <2>0, <2>3
        <5> QED
          BY <4>1, <5>1
      <4>2. CASE i \in UsedPosts
        <5>1. PICK x \in Nat, y \in Nat, z \in Nat : x = xs[i] /\ y = xs[t] /\ z = xs[h]
          BY <1>1, <2>0, <2>3, <2>8, <4>2
        <5> QED
          BY <2>8, <2>9, <4>2, <5>1
      <4> QED
        BY <4>1, <4>2
    <3>8. Encloses(l, t, j)'
      BY <1>1, <2>0, <2>1, <2>2, <2>10, <3>7 DEF Encloses
    <3> QED
      BY <3>5, <3>6, <3>8
  <2>11. ASSUME NEW j \in Posts \ UsedPosts', xs[l] < xs[j], xs[j] < xs[h], xs[t] < xs[j]
         PROVE  /\ lowOf'[Place(j)] = t /\ highOf'[Place(j)] = h
                /\ Encloses(t, h, j)'
    <3>1. j \in Posts \ UsedPosts
      BY <2>1
    <3>2. hi(j) = h
      BY <2>5, <2>11, <3>1
    <3>3. Place(t) < Place(j) /\ Place(j) \in Posts /\ Place(t) \in Posts
      BY <1>1, <2>0, <2>4, <2>11, <3>1
    <3>4. ASSUME NEW p \in Place(t) + 1 .. Place(j) PROVE lowOf[p] = l
      <4>1. p \in Posts /\ (p = Place(j) \/ p < Place(j)) /\ Place(t) < p
        BY <2>3, <3>3
      <4>2. PICK k \in Posts : k = order[p] /\ Place(k) = p
        BY <2>4, <4>1
      <4>3. xs[t] < xs[k] /\ (xs[k] < xs[j] \/ p = Place(j))
        BY <1>1, <2>0, <2>4, <3>1, <4>1, <4>2
      <4>4. CASE p = Place(j)
        BY <2>5, <2>11, <3>1, <4>4
      <4>5. CASE xs[k] < xs[j]
        <5>1. xs[l] < xs[k] /\ xs[k] < xs[h]
          BY <1>1, <2>0, <2>3, <2>9, <2>11, <3>1, <4>3, <4>5
        <5>2. k \in Posts \ UsedPosts
          BY <2>8, <5>1
        <5> QED
          BY <2>5, <4>2, <5>1, <5>2
      <4> QED
        BY <4>3, <4>4, <4>5
    <3>5. lowOf'[Place(j)] = t
      <4>1. Place(j) > Place(t)
        BY <2>3, <3>3
      <4> QED
        BY <2>0, <2>1, <3>3, <3>4, <4>1 DEF LinkLow
    <3>6. highOf'[Place(j)] = h
      <4>1. ~(Place(j) < Place(t))
        BY <2>3, <3>3
      <4> QED
        BY <2>0, <2>1, <3>2, <3>3, <4>1 DEF LinkHigh
    <3>7. ASSUME NEW i \in UsedPosts \cup {t} PROVE ~(xs[t] < xs[i] /\ xs[i] < xs[h])
      <4>1. CASE i = t
        <5>1. PICK x \in Nat : x = xs[t]
          BY <1>1, <2>0, <2>3
        <5> QED
          BY <4>1, <5>1
      <4>2. CASE i \in UsedPosts
        <5>1. PICK x \in Nat, y \in Nat, z \in Nat : x = xs[i] /\ y = xs[t] /\ z = xs[l]
          BY <1>1, <2>0, <2>3, <2>8, <4>2
        <5> QED
          BY <2>8, <2>9, <4>2, <5>1
      <4> QED
        BY <4>1, <4>2
    <3>8. Encloses(t, h, j)'
      BY <1>1, <2>0, <2>1, <2>2, <2>11, <3>7 DEF Encloses
    <3> QED
      BY <3>5, <3>6, <3>8
  <2>12. ASSUME NEW j \in Posts \ UsedPosts', ~(xs[l] < xs[j] /\ xs[j] < xs[h])
         PROVE  /\ lowOf'[Place(j)] = lo(j) /\ highOf'[Place(j)] = hi(j)
                /\ Encloses(lo(j), hi(j), j)' /\ lo(j) # l
    <3>1. j \in Posts \ UsedPosts /\ Place(j) \in Posts /\ Place(t) \in Posts
      BY <1>1, <2>0, <2>1, <2>4
    <3>2. lo(j) # l /\ hi(j) # h
      BY <2>5, <2>12, <3>1
    <3>3. highOf'[Place(j)] = hi(j)
      <4>1. CASE Place(j) < Place(t)
        <5>1. Place(j) \in Place(j) .. Place(t) - 1
          BY <2>3, <3>1, <4>1
        <5>2. ~ (\A p \in Place(j) .. Place(t) - 1 : highOf[p] = High)
          BY <2>0, <3>2, <5>1
        <5> QED
          BY <2>0, <2>1, <3>1, <5>2 DEF LinkHigh
      <4>2. CASE ~(Place(j) < Place(t))
        BY <2>0, <2>1, <3>1, <4>2 DEF LinkHigh
      <4> QED
        BY <4>1, <4>2
    <3>4. lowOf'[Place(j)] = lo(j)
      <4>1. CASE Place(j) > Place(t)
        <5>1. Place(j) \in Place(t) + 1 .. Place(j)
          BY <2>3, <3>1, <4>1
        <5>2. ~ (\A p \in Place(t) + 1 .. Place(j) : lowOf[p] = Low)
          BY <2>0, <3>2, <5>1
        <5> QED
          BY <2>0, <2>1, <3>1, <5>2 DEF LinkLow
      <4>2. CASE ~(Place(j) > Place(t))
        BY <2>0, <2>1, <3>1, <4>2 DEF LinkLow
      <4> QED
        BY <4>1, <4>2
    <3>5. Encloses(lo(j), hi(j), j)
      BY <1>1, <2>0, <3>1
    <3>6. ~(xs[lo(j)] < xs[t] /\ xs[t] < xs[hi(j)])
      BY <1>1, <2>0, <3>1, <3>2, <3>5, SameSegment
    <3>7. Encloses(lo(j), hi(j), j)'
      <4>1. lo(j)' = lo(j) /\ hi(j)' = hi(j)
        BY <2>2, <3>1, <3>3, <3>4
      <4>2. PICK a \in UsedPosts, b \in UsedPosts : a = lo(j) /\ b = hi(j)
        BY <3>5 DEF Encloses
      <4>3. Encloses(a, b, j)'
        BY <2>0, <2>1, <2>2, <3>5, <3>6, <4>2 DEF Encloses
      <4> QED
        BY <4>1, <4>2, <4>3 DEF Encloses
    <3> QED
      BY <3>2, <3>3, <3>4, <3>7
  <2>13. ASSUME NEW j \in Posts \ UsedPosts'
         PROVE  /\ Encloses(lowOf[Place(j)], highOf[Place(j)], j)'
                /\ j < turn' => memo'[lowOf'[Place(j)]] = highOf'[Place(j)]
    <3>1. j \in Posts \ UsedPosts /\ j # t /\ Place(j)' = Place(j)
      BY <2>0, <2>1, <2>2
    <3>2. j < turn' => j < turn
      <4>1. j \in Nat /\ t \in Nat
        BY <2>0, <2>3, <3>1
      <4> QED
        BY <1>2, <2>0, <3>1, <4>1
    <3>3. j < turn => memo[lo(j)] = hi(j)
      BY <1>1, <3>1
    <3>4. CASE ~(xs[l] < xs[j] /\ xs[j] < xs[h])
      <4>1. /\ lowOf'[Place(j)] = lo(j) /\ highOf'[Place(j)] = hi(j)
            /\ Encloses(lowOf[Place(j)], highOf[Place(j)], j)' /\ lo(j) # l
        BY <2>12, <3>4
      <4>2. memo'[lo(j)] = memo[lo(j)]
        <5>1. lo(j) \in Posts
          BY <2>4, <3>1, <1>1 DEF FitTyped
        <5> QED
          BY <1>1, <1>2, <2>0, <4>1, <5>1 DEF FitTyped
      <4> QED
        BY <3>2, <3>3, <4>1, <4>2
    <3>5. CASE xs[l] < xs[j] /\ xs[j] < xs[h]
      <4>1. lo(j) = l /\ hi(j) = h
        BY <2>5, <3>1, <3>5
      <4>2. ~(j < turn')
        BY <1>2, <2>0, <3>2, <3>3, <4>1
      <4>3. xs[j] < xs[t] \/ xs[t] < xs[j]
        <5>1. PICK x \in Nat, y \in Nat : x = xs[j] /\ y = xs[t]
          BY <2>3, <3>1
        <5>2. x # y
          BY <2>3, <3>1, <5>1
        <5> QED
          BY <5>1, <5>2
      <4>4. CASE xs[j] < xs[t]
        BY <2>10, <3>1, <3>5, <4>2, <4>4
      <4>5. CASE xs[t] < xs[j]
        BY <2>11, <3>1, <3>5, <4>2, <4>5
      <4> QED
        BY <4>3, <4>4, <4>5
    <3> QED
      BY <3>4, <3>5
  <2>14. FitNeighboursEnclose'
    BY <1>2, <2>1, <2>2, <2>13 DEF FitNeighboursEnclose
  <2>15. turn' > 2 /\ outcome' = "pending"
    BY <1>1, <1>2 DEF FitTyped
  <2> QED
    BY <2>6, <2>7, <2>14, <2>15 DEF FitInv
<1> QED
  BY <1>3, <1>4

LEMMA FitStep == FitInv /\ [FitNext]_fitVars => FitInv'
<1> SUFFICES ASSUME FitInv, [FitNext]_fitVars PROVE FitInv'
  OBVIOUS
<1>1. CASE BeginFit
  BY <1>1, BeginFitKeeps
<1>2. CASE FitWhole
  BY <1>2, WholeKeeps
<1>3. CASE SkipPost
  BY <1>3, VisitKeeps DEF SkipPost
<1>4. CASE KeepSegment
  <2>1. memo'[Low] = High
    <3>1. Low \in Posts /\ memo \in [Posts -> Nat]
      BY <1>4, VisitedPost DEF KeepSegment, FitTyped
    <3> QED
      BY <1>4, <3>1 DEF KeepSegment
  <2> QED
    BY <1>4, <2>1, VisitKeeps DEF KeepSegment
<1>5. CASE SplitSegment
  BY <1>5, SplitKeeps
<1>6. CASE AnswerFit
  <2>1. /\ outcome' = "fitted" /\ FitTyped
        /\ turn > Len(xs) /\ UNCHANGED <<spectrumVars, turn, fitA, fitB, lowOf, highOf, memo>>
    BY <1>6 DEF AnswerFit, FitInv
  <2>2. FitTyped'
    BY <2>1 DEF FitTyped, SpectrumInv, spectrumVars, Posts
  <2>3. ~Visiting'
    BY <2>1, SpectrumTyped DEF Visiting, spectrumVars, FitTyped
  <2> QED
    BY <2>1, <2>2, <2>3 DEF FitInv, FitNeighboursEnclose
<1>7. CASE UNCHANGED fitVars
  <2>1. UNCHANGED <<xs, bins, order, fits, turn, fitA, fitB, lowOf, highOf, memo, outcome>>
    BY <1>7 DEF fitVars, spectrumVars
  <2>2. Posts' = Posts /\ UsedPosts' = UsedPosts
    BY <2>1 DEF Posts, UsedPosts, PostY
  <2>3. \A j : Place(j)' = Place(j)
    BY <2>1, <2>2 DEF Place
  <2>4. \A j : Encloses(lowOf[Place(j)], highOf[Place(j)], j)'
              <=> Encloses(lowOf[Place(j)], highOf[Place(j)], j)
    BY <2>1, <2>2, <2>3 DEF Encloses
  <2>5. FitNeighboursEnclose'
    BY <2>1, <2>2, <2>3, <2>4 DEF FitInv, FitNeighboursEnclose
  <2>6. (outcome # "none" => FitTyped)'
    BY <2>1, <2>2 DEF FitInv, FitTyped, SpectrumInv
  <2>7. FitBlank' <=> FitBlank
    BY <2>1, <2>2 DEF FitBlank
  <2>8. FitUnderWay' <=> FitUnderWay
    BY <2>1, <2>2 DEF FitUnderWay
  <2> QED
    BY <2>1, <2>5, <2>6, <2>7, <2>8 DEF FitInv, Visiting
<1> QED
  BY <1>1, <1>2, <1>3, <1>4, <1>5, <1>6, <1>7 DEF FitNext

\* For every spectrum and every list of posts, the neighbours on record for a
\* post without a height are the two posts with one that enclose it most tightly,
\* and no segment is left uninspected behind the post to visit (floor_fit.rs:307-316,
\* 372-377 and 428-435).
THEOREM NeighboursAlwaysEnclose == FitSpec => []FitNeighboursEnclose
<1>1. FitInit => FitInv
  BY DEF FitInit, FitInv, FitNeighboursEnclose, Visiting
<1>2. FitInv => FitNeighboursEnclose
  BY DEF FitInv
<1> QED
  BY <1>1, <1>2, FitStep, PTL DEF FitSpec

-----------------------------------------------------------------------------
(* Sums.                                                                   *)

\* A sum of combinations is the combination of the sums.
Combines(from, to, e, f, g, h, a, b, c) ==
    \A k \in from .. to : /\ f[k] \in Int /\ g[k] \in Int /\ h[k] \in Int
                          /\ e[k] = a * f[k] + b * g[k] + c * h[k]

LEMMA SumCombines ==
    ASSUME NEW from \in Nat, NEW to \in Int, from <= to + 1,
           NEW e, NEW f, NEW g, NEW h, NEW a \in Int, NEW b \in Int, NEW c \in Int,
           Combines(from, to, e, f, g, h, a, b, c)
    PROVE  /\ SumOver(from, to, f) \in Int /\ SumOver(from, to, g) \in Int
           /\ SumOver(from, to, h) \in Int
           /\ SumOver(from, to, e) = a * SumOver(from, to, f) + b * SumOver(from, to, g)
                                     + c * SumOver(from, to, h)
<1> USE DEF Combines
<1> DEFINE m == to - from + 1
<1>0. m \in Nat
  OBVIOUS
<1>1. \A k \in from .. to : e[k] \in Int
  <2>1. ASSUME NEW u \in Int, NEW v \in Int, NEW w \in Int
        PROVE  a * u + b * v + c * w \in Int
    OBVIOUS
  <2> QED
    BY <2>1
<1>2. PICK E :
         /\ E \in [0 .. m -> Int]
         /\ E[0] = 0 /\ SumOver(from, to, e) = E[m]
         /\ \A k \in 1 .. m : E[k] = E[k - 1] + e[from + k - 1]
  <2>1. Summable(from, to, e)
    BY <1>1 DEF Summable
  <2>2. PICK s : PartialSums(from, to, e, s)
    BY <2>1, SumUnfolds
  <2> QED
    BY <2>2 DEF PartialSums
<1>3. PICK F :
         /\ F \in [0 .. m -> Int]
         /\ F[0] = 0 /\ SumOver(from, to, f) = F[m]
         /\ \A k \in 1 .. m : F[k] = F[k - 1] + f[from + k - 1]
  <2>1. Summable(from, to, f)
    BY <1>1 DEF Summable
  <2>2. PICK s : PartialSums(from, to, f, s)
    BY <2>1, SumUnfolds
  <2> QED
    BY <2>2 DEF PartialSums
<1>4. PICK G :
         /\ G \in [0 .. m -> Int]
         /\ G[0] = 0 /\ SumOver(from, to, g) = G[m]
         /\ \A k \in 1 .. m : G[k] = G[k - 1] + g[from + k - 1]
  <2>1. Summable(from, to, g)
    BY <1>1 DEF Summable
  <2>2. PICK s : PartialSums(from, to, g, s)
    BY <2>1, SumUnfolds
  <2> QED
    BY <2>2 DEF PartialSums
<1>5. PICK H :
         /\ H \in [0 .. m -> Int]
         /\ H[0] = 0 /\ SumOver(from, to, h) = H[m]
         /\ \A k \in 1 .. m : H[k] = H[k - 1] + h[from + k - 1]
  <2>1. Summable(from, to, h)
    BY <1>1 DEF Summable
  <2>2. PICK s : PartialSums(from, to, h, s)
    BY <2>1, SumUnfolds
  <2> QED
    BY <2>2 DEF PartialSums
<1> DEFINE alike == {k \in Nat : k <= m => E[k] = a * F[k] + b * G[k] + c * H[k]}
<1>6. 0 \in alike
  BY <1>2, <1>3, <1>4, <1>5
<1>7. ASSUME NEW k \in Nat, k \in alike PROVE k + 1 \in alike
  <2> SUFFICES ASSUME k + 1 <= m PROVE E[k + 1] = a * F[k + 1] + b * G[k + 1] + c * H[k + 1]
    OBVIOUS
  <2>1. k + 1 \in 1 .. m /\ (k + 1) - 1 = k /\ k \in 0 .. m
    OBVIOUS
  <2> DEFINE x == from + (k + 1) - 1
  <2>2. x \in from .. to
    OBVIOUS
  <2>3. /\ E[k + 1] = E[k] + e[x] /\ F[k + 1] = F[k] + f[x]
        /\ G[k + 1] = G[k] + g[x] /\ H[k + 1] = H[k] + h[x]
    BY <1>2, <1>3, <1>4, <1>5, <2>1
  <2>4. E[k] = a * F[k] + b * G[k] + c * H[k]
    BY <1>7, <2>1
  <2> HIDE DEF x
  <2>6. /\ F[k] \in Int /\ G[k] \in Int /\ H[k] \in Int
        /\ f[x] \in Int /\ g[x] \in Int /\ h[x] \in Int
        /\ e[x] = a * f[x] + b * g[x] + c * h[x]
    <3>1. F[k] \in Int /\ G[k] \in Int /\ H[k] \in Int
      BY <1>3, <1>4, <1>5, <2>1
    <3> HIDE DEF m
    <3> QED
      BY <2>2, <3>1
  <2>7. (a * F[k] + b * G[k] + c * H[k]) + (a * f[x] + b * g[x] + c * h[x])
           = a * (F[k] + f[x]) + b * (G[k] + g[x]) + c * (H[k] + h[x])
    <3>1. PICK u \in Int, v \in Int, w \in Int, p \in Int, q \in Int, r \in Int :
             u = F[k] /\ v = G[k] /\ w = H[k] /\ p = f[x] /\ q = g[x] /\ r = h[x]
      BY <2>6
    <3>2. (a * u + b * v + c * w) + (a * p + b * q + c * r)
             = a * (u + p) + b * (v + q) + c * (w + r)
      OBVIOUS
    <3> QED
      BY ONLY <3>1, <3>2, Zenon
  <2>8. E[k + 1] = (a * F[k] + b * G[k] + c * H[k]) + (a * f[x] + b * g[x] + c * h[x])
    BY ONLY <2>3, <2>4, <2>6, Zenon
  <2> QED
    BY ONLY <2>3, <2>7, <2>8, Zenon
<1> HIDE DEF alike
<1>8. \A k \in Nat : k \in alike
  BY <1>6, <1>7, NatInduct
<1>9. E[m] = a * F[m] + b * G[m] + c * H[m]
  BY <1>0, <1>8 DEF alike
<1>10. m \in 0 .. m
  BY <1>0
<1> QED
  BY <1>2, <1>3, <1>4, <1>5, <1>9, <1>10

\* A sum of naturals is no less than any of them.
LEMMA SumCovers ==
    ASSUME NEW from \in Nat, NEW to \in Int, NEW x \in from .. to,
           NEW f, \A k \in from .. to : f[k] \in Nat
    PROVE  SumOver(from, to, f) >= f[x]
<1> DEFINE m == to - from + 1
           at == x - from + 1
<1>1. m \in Nat /\ at \in 1 .. m /\ from + at - 1 = x
  OBVIOUS
<1>2. PICK s :
         /\ s \in [0 .. m -> Int]
         /\ s[0] = 0 /\ SumOver(from, to, f) = s[m]
         /\ \A k \in 1 .. m : s[k] = s[k - 1] + f[from + k - 1]
  <2>1. Summable(from, to, f)
    BY DEF Summable
  <2>2. PICK s : PartialSums(from, to, f, s)
    BY <2>1, SumUnfolds
  <2> QED
    BY <2>2 DEF PartialSums
<1> DEFINE grown == {k \in Nat : k <= m => s[k] >= 0 /\ (at <= k => s[k] >= f[x])}
<1>3. 0 \in grown
  BY <1>1, <1>2
<1>4. ASSUME NEW k \in Nat, k \in grown PROVE k + 1 \in grown
  <2> SUFFICES ASSUME k + 1 <= m
               PROVE  s[k + 1] >= 0 /\ (at <= k + 1 => s[k + 1] >= f[x])
    OBVIOUS
  <2>1. /\ k + 1 \in 1 .. m /\ (k + 1) - 1 = k /\ k \in 0 .. m
        /\ from + (k + 1) - 1 \in from .. to
    OBVIOUS
  <2>2. s[k + 1] = s[k] + f[from + (k + 1) - 1]
    BY <1>2, <2>1
  <2>3. s[k] \in Int /\ s[k] >= 0 /\ (at <= k => s[k] >= f[x])
    BY <1>2, <1>4, <2>1
  <2>4. f[from + (k + 1) - 1] \in Nat /\ f[x] \in Nat
    BY <2>1
  <2>5. CASE at = k + 1
    <3>1. f[from + (k + 1) - 1] = f[x]
      BY <1>1, <2>5
    <3> QED
      BY <2>2, <2>3, <2>4, <2>5, <3>1
  <2>6. CASE at # k + 1
    <3>1. at <= k + 1 => at <= k
      BY <1>1, <2>6
    <3> HIDE DEF at
    <3> QED
      BY <2>2, <2>3, <2>4, <3>1
  <2> QED
    BY <2>5, <2>6
<1> HIDE DEF grown
<1>5. m \in grown
  BY <1>1, <1>3, <1>4, NatInduct
<1> QED
  BY <1>1, <1>2, <1>5 DEF grown

-----------------------------------------------------------------------------
(* The sums of bins.                                                         *)

\* What the bins of an interval give to one of the sums.
Gives(curve, from, to, wanted, sum) ==
    [x \in from .. to |->
        IF /\ x \in DOMAIN curve
           /\ curve[x].level # 0 /\ curve[x].primary = wanted
        THEN Term(sum, x, curve[x].level) ELSE 0]

Sounding(x, wanted) == x \in DOMAIN bins /\ bins[x].level # 0 /\ bins[x].primary = wanted

LEMMA GivesTyped ==
    ASSUME SpectrumInv, NEW from \in Nat, NEW to \in Nat, NEW wanted, NEW x \in from .. to
    PROVE  LET gives(sum) == Gives(bins, from, to, wanted, sum)[x]
           IN  /\ \A sum \in Sums : gives(sum) \in Nat
               /\ ~Sounding(x, wanted) => \A sum \in Sums : gives(sum) = 0
               /\ Sounding(x, wanted) =>
                     /\ gives("n") = 1 /\ gives("x") = x /\ gives("xx") = x * x
                     /\ gives("y") = bins[x].level /\ gives("xy") = x * bins[x].level
<1> DEFINE gives(sum) == Gives(bins, from, to, wanted, sum)[x]
<1>1. x \in Nat
  OBVIOUS
<1>2. CASE ~Sounding(x, wanted)
  <2>1. \A sum \in Sums : gives(sum) = 0
    BY <1>2 DEF Gives, Sounding
  <2> QED
    BY <1>2, <2>1
<1>3. CASE Sounding(x, wanted)
  <2>1. PICK y \in Nat : y = bins[x].level
    BY <1>3, SpectrumTyped DEF Sounding
  <2>2. \A sum \in Sums : gives(sum) = Term(sum, x, y)
    BY <1>3, <2>1 DEF Gives, Sounding
  <2>3. x * x \in Nat /\ x * y \in Nat
    BY <1>1
  <2> HIDE DEF gives
  <2>4. /\ gives("n") = 1 /\ gives("x") = x /\ gives("xx") = x * x
        /\ gives("y") = y /\ gives("xy") = x * y
    BY <2>2 DEF Term, Sums
  <2>5. \A sum \in Sums : gives(sum) \in Nat
    BY <1>1, <2>1, <2>3, <2>4 DEF Sums
  <2> QED
    BY <1>3, <2>1, <2>4, <2>5 DEF gives
<1> QED
  BY <1>2, <1>3

\* A combination of the sums of bins, of positions and of their squares.
Combined(totals, a, b, c) == a * totals.n + b * totals.x + c * totals.xx

\* Where the bins of an interval give alike, so do their sums.
LEMMA IntervalCombines ==
    ASSUME SpectrumInv, NEW from \in Nat, NEW to \in Nat, from <= to, NEW wanted,
           NEW a \in Int, NEW b \in Int, NEW c \in Int, NEW e,
           \A x \in from .. to :
              e[x] = IF Sounding(x, wanted) THEN a + b * x + c * (x * x) ELSE 0
    PROVE  SumOver(from, to, e) = Combined(SumsOf(bins, from, to, wanted), a, b, c)
<1> DEFINE f == Gives(bins, from, to, wanted, "n")
           g == Gives(bins, from, to, wanted, "x")
           h == Gives(bins, from, to, wanted, "xx")
           totals == SumsOf(bins, from, to, wanted)
<1>1. /\ totals.n = SumOver(from, to, f) /\ totals.x = SumOver(from, to, g)
      /\ totals.xx = SumOver(from, to, h)
  BY DEF SumsOf, Gives, Sums
<1>2. ASSUME NEW x \in from .. to
      PROVE  /\ f[x] \in Int /\ g[x] \in Int /\ h[x] \in Int
             /\ e[x] = a * f[x] + b * g[x] + c * h[x]
  <2>1. f[x] \in Nat /\ g[x] \in Nat /\ h[x] \in Nat
    BY GivesTyped DEF Sums
  <2>2. CASE Sounding(x, wanted)
    <3>1. f[x] = 1 /\ g[x] = x /\ h[x] = x * x
      BY <2>2, GivesTyped
    <3>2. a * 1 = a
      OBVIOUS
    <3> HIDE DEF f, g, h
    <3> QED
      BY <2>1, <2>2, <3>1, <3>2
  <2>3. CASE ~Sounding(x, wanted)
    <3>1. f[x] = 0 /\ g[x] = 0 /\ h[x] = 0
      BY <2>3, GivesTyped DEF Sums
    <3>2. a * 0 = 0 /\ b * 0 = 0 /\ c * 0 = 0
      OBVIOUS
    <3> HIDE DEF f, g, h
    <3> QED
      BY <2>1, <2>3, <3>1, <3>2
  <2> QED
    BY <2>2, <2>3
<1> HIDE DEF f, g, h, totals
<1>3. SumOver(from, to, e) = a * SumOver(from, to, f) + b * SumOver(from, to, g)
                             + c * SumOver(from, to, h)
  <2>1. Combines(from, to, e, f, g, h, a, b, c)
    BY <1>2 DEF Combines
  <2> QED
    BY <2>1, SumCombines
<1> QED
  BY <1>1, <1>3 DEF totals, Combined

\* A straight spectrum: the level at the first bin and what each bin adds to it.
Straight(base, slope) ==
    /\ OnLine(base, slope) /\ base = bins[0].level /\ slope \in Int

LEMMA StraightTyped ==
    ASSUME SpectrumInv, NEW base, NEW slope, Straight(base, slope)
    PROVE  /\ base \in 0 .. MaxLevel /\ slope \in Int
           /\ base + slope * xs[2] \in 0 .. MaxLevel
           /\ xs[1] = 0 /\ xs[2] \in Nat /\ xs[2] >= 2
           /\ \A x \in 0 .. xs[2] - 1 : x \in DOMAIN bins
           /\ \A x \in DOMAIN bins : bins[x].level = base + slope * x /\ bins[x].level > 0
           /\ \A x \in DOMAIN bins : /\ bins[x].level \in 0 .. MaxLevel
                                     /\ bins[x].primary \in BOOLEAN
<1>1. PICK spectrum \in Spectra : xs = spectrum.xs /\ bins = spectrum.bins
  BY DEF SpectrumInv
<1>2. /\ xs[1] = 0 /\ xs[2] >= 2 /\ 0 .. xs[2] - 1 \subseteq DOMAIN bins
      /\ \A x \in DOMAIN bins : /\ bins[x].level \in 0 .. MaxLevel
                                /\ bins[x].primary \in BOOLEAN
  BY <1>1, SpectraAssumption
<1>3. xs[2] \in Nat
  BY SpectrumTyped
<1>4. 0 \in DOMAIN bins
  BY <1>2, <1>3
<1> QED
  BY <1>2, <1>3, <1>4 DEF Straight, OnLine

\* On a straight spectrum the sums of levels follow from those of positions.
LEMMA StraightInterval ==
    ASSUME SpectrumInv, NEW base, NEW slope, Straight(base, slope), NEW zero \in {0},
           NEW from \in Nat, NEW to \in Nat, from <= to, NEW wanted
    PROVE  LET totals == SumsOf(bins, from, to, wanted)
           IN  /\ totals.y = Combined(totals, base, slope, zero)
               /\ totals.xy = Combined(totals, zero, base, slope)
<1> DEFINE totals == SumsOf(bins, from, to, wanted)
           y == Gives(bins, from, to, wanted, "y")
           xy == Gives(bins, from, to, wanted, "xy")
<1>1. totals.y = SumOver(from, to, y) /\ totals.xy = SumOver(from, to, xy)
  BY DEF SumsOf, Gives, Sums
<1>2. base \in Int /\ slope \in Int /\ zero \in Int
  BY StraightTyped, SpectraAssumption
<1>3. ASSUME NEW x \in from .. to
      PROVE  /\ y[x] = IF Sounding(x, wanted) THEN base + slope * x + zero * (x * x) ELSE 0
             /\ xy[x] = IF Sounding(x, wanted) THEN zero + base * x + slope * (x * x) ELSE 0
  <2>1. CASE ~Sounding(x, wanted)
    BY <2>1, GivesTyped DEF Sums
  <2>2. CASE Sounding(x, wanted)
    <3>1. y[x] = bins[x].level /\ xy[x] = x * bins[x].level
      BY <2>2, GivesTyped
    <3>2. bins[x].level = base + slope * x
      BY <2>2, StraightTyped DEF Sounding
    <3>3. x * (base + slope * x) = 0 + base * x + slope * (x * x)
      BY <1>2
    <3>4. base + slope * x = base + slope * x + 0 * (x * x)
      BY <1>2
    <3> HIDE DEF y, xy
    <3> QED
      BY <2>2, <3>1, <3>2, <3>3, <3>4
  <2> QED
    BY <2>1, <2>2
<1> HIDE DEF y, xy
<1>4. SumOver(from, to, y) = Combined(totals, base, slope, zero)
  BY <1>2, <1>3, IntervalCombines
<1>5. SumOver(from, to, xy) = Combined(totals, zero, base, slope)
  BY <1>2, <1>3, IntervalCombines
<1> QED
  BY <1>1, <1>4, <1>5

\* The squared distances of a from b times each position, added up.
Dispersion(totals, a, b) == Combined(totals, a * a, -2 * (a * b), b * b)

\* The sums on record of an interval are those of its bins.
LEMMA IntervalFound ==
    ASSUME SpectrumInv, NEW p \in 1 .. Len(xs) - 1
    PROVE  \E from \in Nat, to \in Nat :
              /\ from < to /\ from <= to
              /\ fits[p].primary = SumsOf(bins, from, to, TRUE)
              /\ fits[p].other = SumsOf(bins, from, to, FALSE)
              /\ p = 1 => from = 0
<1> DEFINE from == xs[order[p]]
           to == xs[order[p + 1]]
<1>1. p \in Posts /\ p + 1 \in Posts /\ p < p + 1
  BY SpectrumTyped
<1>2. from < to /\ from \in Nat /\ to \in Nat
  BY <1>1, SpectrumTyped, PlacesFound
<1>3. fits[p] = Accumulated(bins, from, to)
  BY DEF SpectrumInv
<1>4. ASSUME p = 1 PROVE from = 0
  <2>1. 1 \in Posts /\ order[1] \in Posts /\ xs[1] = 0
    <3>1. PICK spectrum \in Spectra : xs = spectrum.xs
      BY DEF SpectrumInv
    <3> QED
      BY <3>1, SpectraAssumption, SpectrumTyped, PlacesFound
  <2>2. CASE order[1] = 1
    BY <1>4, <2>1, <2>2
  <2>3. CASE order[1] # 1
    <3>1. xs[1] < xs[order[1]]
      BY <2>1, <2>3, SpectrumTyped
    <3>2. Place(1) < Place(order[1]) /\ Place(order[1]) = 1 /\ Place(1) \in Posts
      BY <2>1, <3>1, PlacesFound
    <3> QED
      BY <3>2, SpectrumTyped
  <2> QED
    BY <2>2, <2>3
<1>5. /\ fits[p].primary = SumsOf(bins, from, to, TRUE)
      /\ fits[p].other = SumsOf(bins, from, to, FALSE)
  BY <1>3 DEF Accumulated
<1> HIDE DEF from, to
<1>6. from <= to
  BY <1>2
<1> QED
  BY <1>2, <1>4, <1>5, <1>6

\* A primary bin weighs no less than another.
LEMMA WeightTyped ==
    ASSUME SpectrumInv, NEW p \in 1 .. Len(xs) - 1, NEW unit \in Nat \ {0}
    PROVE  WeightOf(fits[p], unit) \in Nat /\ WeightOf(fits[p], unit) >= unit
<1>1. PICK a \in Nat, b \in Nat, w \in Nat, s \in Nat \ {0} :
         /\ a = fits[p].primary.n /\ b = fits[p].other.n
         /\ w = PrimaryWeight /\ s = Share(fits[p])
  <2>1. fits[p].primary.n \in Nat /\ fits[p].other.n \in Nat
    BY SumsTyped DEF Sums
  <2>2. Share(fits[p]) \in Nat \ {0}
    BY <2>1 DEF Share
  <2>3. PrimaryWeight \in Nat
    BY SpectraAssumption
  <2> QED
    BY <2>1, <2>2, <2>3
<1>2. ((a + b) * w) * unit \in Nat
  OBVIOUS
<1>3. (((a + b) * w) * unit) \div s \in Nat
  BY <1>2
<1> QED
  BY <1>1, <1>3 DEF WeightOf

\* The unit of the whole spectrum, and what an interval adds to its moments.
Unit == UnitOver(1, Len(xs) - 1)
Weight(p) == WeightOf(fits[p], Unit)
Part(p, sum) == Weight(p) * fits[p].primary[sum] + Unit * fits[p].other[sum]
Whole == Moments(1, Len(xs) - 1)

LEMMA WholeTyped ==
    ASSUME SpectrumInv
    PROVE  /\ Unit \in Nat \ {0} /\ 1 \in Nat /\ Len(xs) - 1 \in Nat /\ 1 <= Len(xs) - 1
           /\ \A sum \in Sums :
                /\ Whole[sum] = SumOver(1, Len(xs) - 1,
                                        [p \in 1 .. Len(xs) - 1 |-> Part(p, sum)])
                /\ Whole[sum] \in Nat
           /\ \A p \in 1 .. Len(xs) - 1 :
                /\ Weight(p) \in Nat /\ Weight(p) >= Unit
                /\ \A sum \in Sums : /\ fits[p].primary[sum] \in Nat
                                     /\ fits[p].other[sum] \in Nat
                                     /\ Part(p, sum) \in Int
<1>1. 1 \in Posts /\ Len(xs) \in Posts /\ 1 < Len(xs) /\ Len(xs) \in Nat
  BY SpectrumTyped
<1>2. \A p \in 1 .. Len(xs) - 1 : \A sum \in Sums :
         fits[p].primary[sum] \in Nat /\ fits[p].other[sum] \in Nat
  BY SumsTyped
<1>3. \A p \in 1 .. Len(xs) - 1 : Share(fits[p]) \in Nat \ {0}
  <2>1. "n" \in Sums
    BY DEF Sums
  <2> QED
    BY <1>2, <2>1 DEF Share
<1>4. Unit \in Nat \ {0}
  <2>1. 1 \in Nat /\ Len(xs) - 1 \in Nat /\ 1 <= (Len(xs) - 1) + 1
    BY <1>1
  <2> QED
    BY <1>3, <2>1, UnitIsPositive DEF Unit
<1>5. \A p \in 1 .. Len(xs) - 1 : Weight(p) \in Nat /\ Weight(p) >= Unit
  BY <1>4, WeightTyped DEF Weight
<1>6. ASSUME NEW p \in 1 .. Len(xs) - 1, NEW sum \in Sums PROVE Part(p, sum) \in Int
  <2>1. PICK u \in Nat, v \in Nat, x \in Nat, y \in Nat :
           /\ u = Weight(p) /\ v = Unit
           /\ x = fits[p].primary[sum] /\ y = fits[p].other[sum]
    BY <1>2, <1>4, <1>5
  <2>2. u * x + v * y \in Int
    OBVIOUS
  <2> QED
    BY <2>1, <2>2 DEF Part
<1>7. \A sum \in Sums :
         Whole[sum] = SumOver(1, Len(xs) - 1, [p \in 1 .. Len(xs) - 1 |-> Part(p, sum)])
  BY DEF Whole, Moments, Part, Weight, Unit
<1>8. \A sum \in Sums : Whole[sum] \in Nat
  BY <1>1, MomentsTyped DEF Whole
<1> QED
  BY <1>1, <1>2, <1>4, <1>5, <1>6, <1>7, <1>8

LEMMA WholeNumbers ==
    ASSUME SpectrumInv
    PROVE  /\ Whole.n \in Nat /\ Whole.x \in Nat /\ Whole.xx \in Nat
           /\ Whole.y \in Nat /\ Whole.xy \in Nat
BY WholeTyped DEF Sums

\* The moments combine as the intervals do.
LEMMA MomentsCombine ==
    ASSUME SpectrumInv, NEW a \in Int, NEW b \in Int, NEW c \in Int, NEW e,
           \A p \in 1 .. Len(xs) - 1 :
              e[p] = Weight(p) * Combined(fits[p].primary, a, b, c)
                     + Unit * Combined(fits[p].other, a, b, c)
    PROVE  SumOver(1, Len(xs) - 1, e) = Combined(Whole, a, b, c)
<1> DEFINE last == Len(xs) - 1
           f == [p \in 1 .. last |-> Part(p, "n")]
           g == [p \in 1 .. last |-> Part(p, "x")]
           h == [p \in 1 .. last |-> Part(p, "xx")]
<1>1. /\ Whole.n = SumOver(1, last, f) /\ Whole.x = SumOver(1, last, g)
      /\ Whole.xx = SumOver(1, last, h)
  BY WholeTyped DEF Sums
<1>2. last \in Nat /\ 1 <= last
  BY WholeTyped
<1>3. ASSUME NEW p \in 1 .. last
      PROVE  /\ f[p] \in Int /\ g[p] \in Int /\ h[p] \in Int
             /\ e[p] = a * f[p] + b * g[p] + c * h[p]
  <2>1. f[p] \in Int /\ g[p] \in Int /\ h[p] \in Int
    BY WholeTyped DEF Sums
  <2>2. PICK w \in Int, u \in Int, n1 \in Int, x1 \in Int, q1 \in Int,
             n2 \in Int, x2 \in Int, q2 \in Int :
           /\ w = Weight(p) /\ u = Unit
           /\ n1 = fits[p].primary.n /\ x1 = fits[p].primary.x /\ q1 = fits[p].primary.xx
           /\ n2 = fits[p].other.n /\ x2 = fits[p].other.x /\ q2 = fits[p].other.xx
    <3>1. Weight(p) \in Int /\ Unit \in Int
      BY WholeTyped
    <3>2. \A sum \in Sums : fits[p].primary[sum] \in Int /\ fits[p].other[sum] \in Int
      BY WholeTyped
    <3> QED
      BY <3>1, <3>2 DEF Sums
  <2>3. e[p] = w * (a * n1 + b * x1 + c * q1) + u * (a * n2 + b * x2 + c * q2)
    BY <2>2 DEF Combined
  <2>4. /\ f[p] = w * n1 + u * n2 /\ g[p] = w * x1 + u * x2 /\ h[p] = w * q1 + u * q2
    BY <2>2 DEF Part
  <2> HIDE DEF f, g, h
  <2>5. w * (a * n1 + b * x1 + c * q1) + u * (a * n2 + b * x2 + c * q2)
           = a * (w * n1 + u * n2) + b * (w * x1 + u * x2) + c * (w * q1 + u * q2)
    OBVIOUS
  <2> QED
    BY ONLY <2>1, <2>3, <2>4, <2>5
<1> HIDE DEF f, g, h
<1>4. SumOver(1, last, e) = a * SumOver(1, last, f) + b * SumOver(1, last, g)
                            + c * SumOver(1, last, h)
  <2>1. 1 \in Nat /\ last \in Int /\ 1 <= last + 1
    BY <1>2
  <2>2. Combines(1, last, e, f, g, h, a, b, c)
    BY <1>3 DEF Combines
  <2> HIDE DEF last
  <2> QED
    BY <2>1, <2>2, SumCombines
<1> QED
  BY <1>1, <1>4 DEF Combined

-----------------------------------------------------------------------------
(* The line of a straight spectrum.                                        *)

\* The dispersion of an interval is not negative, and no less than what one of its
\* bins adds.
LEMMA IntervalDisperses ==
    ASSUME SpectrumInv, NEW from \in Nat, NEW to \in Nat, from <= to, NEW wanted,
           NEW a \in Int, NEW b \in Int
    PROVE  LET totals == SumsOf(bins, from, to, wanted)
           IN  /\ Dispersion(totals, a, b) \in Nat
               /\ \A x \in from .. to : Sounding(x, wanted) =>
                     Dispersion(totals, a, b) >= Square(a - b * x)
<1> DEFINE totals == SumsOf(bins, from, to, wanted)
           e == [x \in from .. to |-> IF Sounding(x, wanted) THEN Square(a - b * x) ELSE 0]
<1>1. ASSUME NEW x \in from .. to
      PROVE  /\ Square(a - b * x) \in Nat
             /\ Square(a - b * x) = a * a + (-2 * (a * b)) * x + (b * b) * (x * x)
  <2>1. PICK d \in Int : d = a - b * x
    OBVIOUS
  <2>2. d * d \in Nat
    OBVIOUS
  <2>3. (a - b * x) * (a - b * x) = a * a + (-2 * (a * b)) * x + (b * b) * (x * x)
    OBVIOUS
  <2> QED
    BY <2>1, <2>2, <2>3 DEF Square
<1>2. \A x \in from .. to : e[x] \in Nat
  BY <1>1
<1>3. PICK p \in Int, q \in Int, r \in Int : p = a * a /\ q = -2 * (a * b) /\ r = b * b
  OBVIOUS
<1>4. \A x \in from .. to : e[x] = IF Sounding(x, wanted) THEN p + q * x + r * (x * x) ELSE 0
  BY <1>1, <1>3
<1>5. SumOver(from, to, e) = Dispersion(totals, a, b)
  <2> HIDE DEF e, totals
  <2>1. SumOver(from, to, e) = Combined(SumsOf(bins, from, to, wanted), p, q, r)
    BY <1>4, IntervalCombines
  <2> QED
    BY <1>3, <2>1 DEF Dispersion, totals
<1>6. Dispersion(totals, a, b) \in Nat
  <2> HIDE DEF e, totals
  <2>1. from <= to + 1
    OBVIOUS
  <2> QED
    BY <1>2, <1>5, <2>1, SumIsNat
<1>7. ASSUME NEW x \in from .. to, Sounding(x, wanted)
      PROVE  Dispersion(totals, a, b) >= Square(a - b * x)
  <2>1. e[x] = Square(a - b * x)
    BY <1>7
  <2> HIDE DEF e, totals
  <2> QED
    BY <1>2, <1>5, <2>1, SumCovers
<1> QED
  BY <1>6, <1>7

\* On a straight spectrum both of the first two bins are heard in the first interval.
LEMMA WholeDisperses ==
    ASSUME SpectrumInv, NEW base, NEW slope, Straight(base, slope),
           NEW a \in Int, NEW b \in Int, NEW x \in {0, 1}
    PROVE  Dispersion(Whole, a, b) >= Square(a - b * x)
<1> DEFINE last == Len(xs) - 1
           P(p) == Dispersion(fits[p].primary, a, b)
           O(p) == Dispersion(fits[p].other, a, b)
           e == [p \in 1 .. last |-> Weight(p) * P(p) + Unit * O(p)]
<1>1. last \in Nat /\ 1 \in 1 .. last /\ Unit \in Nat \ {0}
  BY WholeTyped
<1>2. ASSUME NEW p \in 1 .. last PROVE P(p) \in Nat /\ O(p) \in Nat
  <2>1. PICK from \in Nat, to \in Nat :
           /\ from <= to
           /\ fits[p].primary = SumsOf(bins, from, to, TRUE)
           /\ fits[p].other = SumsOf(bins, from, to, FALSE)
    BY IntervalFound
  <2> QED
    BY <2>1, IntervalDisperses
<1>3. ASSUME NEW p \in 1 .. last PROVE e[p] \in Nat
  <2>1. PICK w \in Nat, u \in Nat, y \in Nat, z \in Nat :
           w = Weight(p) /\ u = Unit /\ y = P(p) /\ z = O(p)
    BY <1>1, <1>2, WholeTyped
  <2>2. w * y + u * z \in Nat
    OBVIOUS
  <2> QED
    BY <2>1, <2>2
<1>4. SumOver(1, last, e) = Dispersion(Whole, a, b)
  <2>1. a * a \in Int /\ -2 * (a * b) \in Int /\ b * b \in Int
    OBVIOUS
  <2>2. \A p \in 1 .. last :
           e[p] = Weight(p) * Combined(fits[p].primary, a * a, -2 * (a * b), b * b)
                  + Unit * Combined(fits[p].other, a * a, -2 * (a * b), b * b)
    BY DEF Dispersion
  <2> HIDE DEF e
  <2>3. SumOver(1, last, e) = Combined(Whole, a * a, -2 * (a * b), b * b)
    BY ONLY SpectrumInv, <2>1, <2>2, MomentsCombine, Zenon
  <2> QED
    BY <2>3 DEF Dispersion
<1>5. SumOver(1, last, e) >= e[1]
  <2> HIDE DEF e, last
  <2> QED
    BY <1>1, <1>3, SumCovers
<1>6. e[1] >= Square(a - b * x)
  <2>1. PICK to \in Nat :
           /\ 0 < to
           /\ fits[1].primary = SumsOf(bins, 0, to, TRUE)
           /\ fits[1].other = SumsOf(bins, 0, to, FALSE)
    BY <1>1, IntervalFound
  <2>2. x \in 0 .. to /\ 0 \in Nat /\ 0 <= to
    BY <2>1
  <2>3. x \in DOMAIN bins /\ bins[x].level > 0
    BY StraightTyped
  <2>4. bins[x].level # 0
    BY <2>3, SpectrumTyped
  <2>5. PICK d \in Nat : d = Square(a - b * x)
    <3>1. PICK c \in Int : c = a - b * x
      OBVIOUS
    <3>2. c * c \in Nat
      OBVIOUS
    <3> QED
      BY <3>1, <3>2 DEF Square
  <2>6. P(1) >= d \/ O(1) >= d
    <3>1. CASE bins[x].primary = TRUE
      <4>1. Sounding(x, TRUE)
        BY <2>3, <2>4, <3>1 DEF Sounding
      <4> QED
        BY <2>1, <2>2, <2>5, <4>1, IntervalDisperses
    <3>2. CASE bins[x].primary = FALSE
      <4>1. Sounding(x, FALSE)
        BY <2>3, <2>4, <3>2 DEF Sounding
      <4> QED
        BY <2>1, <2>2, <2>5, <4>1, IntervalDisperses
    <3>3. bins[x].primary \in BOOLEAN
      BY <2>3, StraightTyped
    <3> QED
      BY <3>1, <3>2, <3>3
  <2>7. PICK w \in Nat, u \in Nat \ {0}, y \in Nat, z \in Nat :
           w = Weight(1) /\ u = Unit /\ y = P(1) /\ z = O(1) /\ w >= u
    BY <1>1, <1>2, WholeTyped
  <2>8. e[1] = w * y + u * z
    BY <1>1, <2>7
  <2>9. w * y >= y /\ u * z >= z
    <3>1. w >= 1 /\ u >= 1
      BY <2>7
    <3> QED
      BY <3>1
  <2> HIDE DEF e
  <2> QED
    BY <2>5, <2>6, <2>7, <2>8, <2>9
<1> QED
  <2>1. e[1] \in Nat /\ SumOver(1, last, e) \in Int
    <3>1. e[1] \in Nat /\ 1 <= last + 1
      BY <1>1, <1>3
    <3> HIDE DEF e, last
    <3> QED
      BY <1>1, <1>3, <3>1, SumIsNat
  <2>2. Square(a - b * x) \in Int
    BY DEF Square
  <2> HIDE DEF e
  <2> QED
    BY <1>4, <1>5, <1>6, <2>1, <2>2

\* More than one bin is heard, so there is a line through them.
LEMMA WholeSpreads ==
    ASSUME SpectrumInv, NEW base, NEW slope, Straight(base, slope)
    PROVE  Whole.n * Whole.xx - Whole.x * Whole.x > 0
<1>1. PICK n \in Nat, x \in Nat, q \in Nat : n = Whole.n /\ x = Whole.x /\ q = Whole.xx
  BY WholeNumbers
<1>2. \A a, b \in Int :
         Dispersion(Whole, a, b) = (a * a) * n + (-2 * (a * b)) * x + (b * b) * q
  BY <1>1 DEF Dispersion, Combined
<1>3. n >= 1
  <2>1. Dispersion(Whole, 1, 0) >= Square(1 - 0 * 0)
    BY WholeDisperses
  <2>2. Square(1 - 0 * 0) = 1
    BY DEF Square
  <2>3. Dispersion(Whole, 1, 0) = n
    BY <1>2
  <2> QED
    BY <2>1, <2>2, <2>3
<1>4. Dispersion(Whole, x, n) >= 1
  <2>1. ASSUME NEW y \in {0, 1} PROVE Dispersion(Whole, x, n) >= Square(x - n * y)
    <3>1. x \in Int /\ n \in Int
      OBVIOUS
    <3> QED
      BY <3>1, WholeDisperses, Zenon
  <2>2. CASE x # 0
    <3>1. x * x >= 1
      BY <2>2
    <3>2. x - n * 0 = x
      OBVIOUS
    <3>3. Dispersion(Whole, x, n) >= Square(x - n * 0)
      BY <2>1
    <3>4. Dispersion(Whole, x, n) >= x * x
      BY <3>2, <3>3 DEF Square
    <3>5. Dispersion(Whole, x, n) \in Int
      BY <1>2
    <3> QED
      BY <3>1, <3>4, <3>5
  <2>3. CASE x = 0
    <3>1. x - n * 1 = -n
      BY <2>3
    <3>2. (-n) * (-n) >= 1
      BY <1>3
    <3>3. Dispersion(Whole, x, n) >= Square(x - n * 1)
      BY <2>1
    <3>4. Dispersion(Whole, x, n) >= (-n) * (-n)
      BY <3>1, <3>3 DEF Square
    <3>5. Dispersion(Whole, x, n) \in Int
      BY <1>2
    <3> QED
      BY <3>2, <3>4, <3>5
  <2> QED
    BY <2>2, <2>3
<1>5. PICK d \in Int : d = n * q - x * x
  OBVIOUS
<1>6. n * d >= 1
  <2>1. (x * x) * n + (-2 * (x * n)) * x + (n * n) * q = n * (n * q - x * x)
    OBVIOUS
  <2>2. Dispersion(Whole, x, n) = n * d
    BY <1>2, <1>5, <2>1
  <2> QED
    BY <1>4, <2>2
<1>7. d > 0
  <2>1. d <= 0 => n * d <= 0
    BY <1>3
  <2> QED
    BY <1>6, <2>1
<1> QED
  BY <1>1, <1>5, <1>7

\* The moments of levels follow from those of positions.
LEMMA WholeStraight ==
    ASSUME SpectrumInv, NEW base, NEW slope, Straight(base, slope)
    PROVE  /\ Whole.y = base * Whole.n + slope * Whole.x
           /\ Whole.xy = base * Whole.x + slope * Whole.xx
<1> DEFINE last == Len(xs) - 1
           y == [p \in 1 .. last |-> Part(p, "y")]
           xy == [p \in 1 .. last |-> Part(p, "xy")]
<1>1. Whole.y = SumOver(1, last, y) /\ Whole.xy = SumOver(1, last, xy)
  BY WholeTyped DEF Sums
<1>2. base \in Int /\ slope \in Int
  BY StraightTyped, SpectraAssumption
<1>3. PICK zero \in {0} : zero \in Int
  OBVIOUS
<1>4. ASSUME NEW p \in 1 .. last
      PROVE  LET first == fits[p].primary
                 second == fits[p].other
             IN  /\ first.y = Combined(first, base, slope, zero)
                 /\ second.y = Combined(second, base, slope, zero)
                 /\ first.xy = Combined(first, zero, base, slope)
                 /\ second.xy = Combined(second, zero, base, slope)
  <2>1. PICK from \in Nat, to \in Nat :
           /\ from <= to
           /\ fits[p].primary = SumsOf(bins, from, to, TRUE)
           /\ fits[p].other = SumsOf(bins, from, to, FALSE)
    BY IntervalFound
  <2>2. ASSUME NEW wanted
        PROVE  /\ SumsOf(bins, from, to, wanted).y
                     = Combined(SumsOf(bins, from, to, wanted), base, slope, zero)
               /\ SumsOf(bins, from, to, wanted).xy
                     = Combined(SumsOf(bins, from, to, wanted), zero, base, slope)
    BY <2>1, StraightInterval
  <2> DEFINE first == fits[p].primary
             second == fits[p].other
  <2>3. /\ first.y = Combined(first, base, slope, zero)
        /\ first.xy = Combined(first, zero, base, slope)
    BY <2>1, <2>2, Zenon
  <2>4. /\ second.y = Combined(second, base, slope, zero)
        /\ second.xy = Combined(second, zero, base, slope)
    BY <2>1, <2>2, Zenon
  <2> QED
    BY <2>3, <2>4, Zenon
<1>5. \A p \in 1 .. last :
         y[p] = Weight(p) * Combined(fits[p].primary, base, slope, zero)
                + Unit * Combined(fits[p].other, base, slope, zero)
  BY <1>4 DEF Part
<1>6. \A p \in 1 .. last :
         xy[p] = Weight(p) * Combined(fits[p].primary, zero, base, slope)
                 + Unit * Combined(fits[p].other, zero, base, slope)
  BY <1>4 DEF Part
<1> HIDE DEF y, xy
<1>7. SumOver(1, last, y) = Combined(Whole, base, slope, zero)
  BY <1>2, <1>5, MomentsCombine
<1>8. SumOver(1, last, xy) = Combined(Whole, zero, base, slope)
  <2>1. base \in Int /\ slope \in Int /\ zero \in Int
    BY <1>2, <1>3
  <2> QED
    BY <1>6, <2>1, MomentsCombine
<1>9. PICK n \in Int, x \in Int, q \in Int : n = Whole.n /\ x = Whole.x /\ q = Whole.xx
  BY WholeNumbers
<1>10. zero * q = 0 /\ zero * n = 0
  BY <1>3
<1>11. /\ Whole.y = base * n + slope * x + zero * q
       /\ Whole.xy = zero * n + base * x + slope * q
  BY <1>1, <1>7, <1>8, <1>9 DEF Combined
<1> QED
  BY <1>2, <1>9, <1>10, <1>11

\* The line fitted is the one the spectrum is.
LEMMA StraightHeight ==
    ASSUME SpectrumInv, NEW base, NEW slope, Straight(base, slope),
           NEW x \in Nat, base + slope * x \in 0 .. MaxLevel
    PROVE  HeightAt(Whole, x) = base + slope * x
<1>1. base \in Int /\ slope \in Int /\ MaxLevel \in Nat
  BY StraightTyped, SpectraAssumption
<1>2. PICK n \in Int, sx \in Int, q \in Int :
         n = Whole.n /\ sx = Whole.x /\ q = Whole.xx
  BY WholeNumbers
<1>3. PICK d \in Nat \ {0} : d = n * q - sx * sx
  <2>1. n * q - sx * sx \in Int /\ n * q - sx * sx > 0
    BY <1>2, WholeSpreads
  <2> QED
    BY <2>1
<1>4. PICK h \in Int : h = base + slope * x
  BY <1>1
<1>5. /\ Whole.y = base * n + slope * sx /\ Whole.xy = base * sx + slope * q
  BY <1>2, WholeStraight
<1> DEFINE scaled == (Whole.y * Whole.xx - Whole.xy * Whole.x)
                     + (Whole.n * Whole.xy - Whole.x * Whole.y) * x
<1>6. scaled = d * h
  <2>1. (base * n + slope * sx) * q - (base * sx + slope * q) * sx = base * (n * q - sx * sx)
    BY <1>1
  <2>2. n * (base * sx + slope * q) - sx * (base * n + slope * sx) = slope * (n * q - sx * sx)
    BY <1>1
  <2>3. scaled = base * d + (slope * d) * x
    BY <1>2, <1>3, <1>5, <2>1, <2>2
  <2>4. base * d + (slope * d) * x = d * (base + slope * x)
    BY <1>1
  <2> QED
    BY <1>4, <2>3, <2>4
<1>7. (2 * scaled + d) \div (2 * d) = h
  <2>1. 2 * (d * h) + d = (2 * d) * h + d
    BY <1>4
  <2>2. 2 * d \in Nat \ {0} /\ d \in 0 .. 2 * d - 1
    OBVIOUS
  <2>3. PICK m \in Nat \ {0}, a \in Int : m = 2 * d /\ a = m * h + d
    BY <1>4, <2>2
  <2>4. a \div m = h
    <3>1. a \div m \in Int /\ a % m \in 0 .. m - 1 /\ a = m * (a \div m) + (a % m)
      BY DivideInt
    <3>2. d \in 0 .. m - 1
      BY <2>2, <2>3
    <3> QED
      BY <2>3, <3>1, <3>2, MultiplesApart
  <2> HIDE DEF scaled
  <2> QED
    BY <1>6, <2>1, <2>3, <2>4
<1>8. HeightAt(Whole, x) = Greatest(0, Least(MaxLevel, (2 * scaled + d) \div (2 * d)))
  BY <1>2, <1>3 DEF HeightAt
<1> HIDE DEF scaled
<1>9. h >= 0 /\ h <= MaxLevel
  BY <1>1, <1>4
<1>10. HeightAt(Whole, x) = Greatest(0, Least(MaxLevel, h))
  BY <1>7, <1>8
<1> QED
  BY <1>1, <1>4, <1>9, <1>10 DEF Greatest, Least

\* The ends of the spectrum come first and last.
LEMMA EndsInOrder ==
    ASSUME SpectrumInv
    PROVE  order[1] = 1 /\ order[Len(xs)] = 2
<1>1. /\ Posts = 1 .. Len(xs) /\ Len(xs) \in Nat /\ Len(xs) >= 2
      /\ 1 \in Posts /\ 2 \in Posts /\ Len(xs) \in Posts
      /\ \A i \in Posts : xs[i] \in Nat
      /\ \A i, j \in Posts : xs[i] = xs[j] => i = j
      /\ \A i \in Posts : xs[1] <= xs[i] /\ xs[i] <= xs[2]
  BY SpectrumTyped
<1>2. order[1] = 1
  <2> SUFFICES ASSUME order[1] # 1 PROVE FALSE
    OBVIOUS
  <2>1. PICK j \in Posts : j = order[1] /\ j # 1 /\ Place(j) = 1
    BY <1>1, PlacesFound
  <2>2. xs[1] < xs[j]
    BY <1>1, <2>1
  <2>3. Place(1) < Place(j) /\ Place(1) \in Posts
    BY <1>1, <2>2, PlacesFound
  <2>4. Place(1) < 1 /\ Place(1) \in 1 .. Len(xs)
    BY <1>1, <2>1, <2>3
  <2> QED
    BY <1>1, <2>4
<1>3. order[Len(xs)] = 2
  <2> SUFFICES ASSUME order[Len(xs)] # 2 PROVE FALSE
    OBVIOUS
  <2>1. PICK j \in Posts : j = order[Len(xs)] /\ j # 2 /\ Place(j) = Len(xs)
    BY <1>1, PlacesFound
  <2>2. xs[j] < xs[2]
    BY <1>1, <2>1
  <2>3. Place(j) < Place(2) /\ Place(2) \in Posts
    BY <1>1, <2>2, PlacesFound
  <2>4. Len(xs) < Place(2) /\ Place(2) \in 1 .. Len(xs)
    BY <1>1, <2>1, <2>3
  <2> QED
    BY <1>1, <2>4
<1> QED
  BY <1>2, <1>3

\* A straight spectrum is fitted by its line.
LEMMA StraightLine ==
    ASSUME SpectrumInv, NEW base, NEW slope, Straight(base, slope)
    PROVE  /\ FitLine(1, Len(xs)).y0 = base
           /\ FitLine(1, Len(xs)).y1 = base + slope * xs[2]
<1> DEFINE m == Moments(1, Len(xs) - 1)
<1>1. m = Whole
  BY DEF Whole
<1>2. base \in 0 .. MaxLevel /\ slope \in Int /\ base + slope * xs[2] \in 0 .. MaxLevel
      /\ xs[1] = 0 /\ xs[2] \in Nat /\ MaxLevel \in Nat
  BY StraightTyped, SpectraAssumption
<1>3. base + slope * 0 = base /\ 0 \in Nat
  BY <1>2
<1>4. HeightAt(m, xs[1]) = base /\ HeightAt(m, xs[2]) = base + slope * xs[2]
  <2>1. HeightAt(Whole, 0) = base + slope * 0
    BY <1>2, <1>3, StraightHeight
  <2>2. HeightAt(Whole, xs[2]) = base + slope * xs[2]
    BY <1>2, StraightHeight
  <2> QED
    BY <1>1, <1>2, <1>3, <2>1, <2>2
<1>5. ~(m.n * m.xx - m.x * m.x <= 0)
  <2>1. PICK d \in Int : d = m.n * m.xx - m.x * m.x
    BY <1>1, WholeNumbers
  <2>2. d > 0
    BY <1>1, <2>1, WholeSpreads
  <2> QED
    BY <2>1, <2>2
<1> HIDE DEF m
<1>6. FitLine(1, Len(xs)) = [fails |-> FALSE, y0 |-> HeightAt(m, xs[order[1]]),
                             y1 |-> HeightAt(m, xs[order[Len(xs)]])]
  BY <1>5 DEF FitLine, m
<1> QED
  BY <1>4, <1>6, EndsInOrder

\* A level leaves room for the flag.
LEMMA PlainLevel ==
    ASSUME NEW y \in 0 .. MaxLevel
    PROVE  /\ y \in Nat /\ Plain(y) = y /\ ~Flagged(y)
           /\ Plain(y + Flag) = y /\ Flagged(y + Flag)
<1>1. y \in Nat /\ y < 32768
  BY SpectraAssumption DEF Flag
<1> QED
  BY <1>1 DEF Plain, Flagged, Flag

\* A point on the line between two levels.
LEMMA RenderedStraight ==
    ASSUME NEW base \in 0 .. MaxLevel, NEW slope \in Int, NEW width \in Nat \ {0},
           base + slope * width \in 0 .. MaxLevel, NEW x \in Nat
    PROVE  RenderPoint(0, width, base, base + slope * width, x) = base + slope * x
<1>1. PICK top \in 0 .. MaxLevel : top = base + slope * width
  OBVIOUS
<1>2. /\ base \in Nat /\ top \in Nat
      /\ Plain(base) = base /\ Plain(top) = top
  BY PlainLevel
<1>3. PICK rise \in Nat : /\ slope >= 0 => rise = slope
                          /\ slope < 0 => rise = -slope
  <2>1. CASE slope >= 0
    BY <2>1
  <2>2. CASE slope < 0
    <3>1. -slope \in Nat
      BY <2>2
    <3> QED
      BY <2>2, <3>1
  <2> QED
    BY <2>1, <2>2
<1>4. Distance(base, top) = rise * width
  <2>1. CASE slope >= 0
    <3>1. slope * width >= 0
      BY <2>1
    <3>2. top >= base /\ top - base = slope * width
      BY <1>1, <1>2, <3>1
    <3> QED
      BY <1>2, <1>3, <2>1, <3>2 DEF Distance, Greatest, Least
  <2>2. CASE slope < 0
    <3>1. slope * width < 0 /\ (-slope) * width = -(slope * width)
      BY <2>2
    <3>2. top < base /\ base - top = (-slope) * width
      BY <1>1, <1>2, <3>1
    <3> QED
      BY <1>2, <1>3, <2>2, <3>2 DEF Distance, Greatest, Least
  <2> QED
    BY <2>1, <2>2
<1>5. ((rise * width) * (x - 0)) \div (width - 0) = rise * x
  <2>1. PICK a \in Int : a = width * (rise * x)
    OBVIOUS
  <2>2. (rise * width) * (x - 0) = a /\ width - 0 = width
    BY <2>1
  <2>3. a \div width = rise * x
    <3>1. PICK d \in Int : d = rise * x
      OBVIOUS
    <3>2. /\ a \div width \in Int /\ a % width \in 0 .. width - 1
          /\ a = width * (a \div width) + (a % width)
      BY DivideInt
    <3>3. a = width * d
      BY <2>1, <3>1
    <3>4. PICK q \in Int : q = a \div width
      BY <3>2
    <3>5. width * q < width * d + width /\ width * d < width * q + width
      BY <3>2, <3>3, <3>4
    <3>6. q = d
      BY <3>5, MultiplesApart
    <3> QED
      BY <3>1, <3>4, <3>6
  <2> QED
    BY <2>2, <2>3
<1>6. RenderPoint(0, width, base, top, x)
         = IF top - base < 0 THEN base - rise * x ELSE base + rise * x
  BY <1>2, <1>4, <1>5 DEF RenderPoint
<1>7. top - base < 0 <=> slope < 0
  <2>1. top - base = slope * width
    BY <1>1, <1>2
  <2>2. slope < 0 <=> slope * width < 0
    OBVIOUS
  <2> QED
    BY <2>1, <2>2
<1>8. (-slope) * x = -(slope * x)
  OBVIOUS
<1>9. CASE slope < 0
  BY <1>1, <1>2, <1>3, <1>6, <1>7, <1>8, <1>9
<1>10. CASE slope >= 0
  BY <1>1, <1>2, <1>3, <1>6, <1>7, <1>10
<1> QED
  BY <1>9, <1>10

\* That line is nowhere off the spectrum.
LEMMA StraightNear ==
    ASSUME SpectrumInv, NEW base, NEW slope, Straight(base, slope),
           PostY(1) = base, PostY(2) = base + slope * xs[2]
    PROVE  ~TooFar(1, 2)
<1> DEFINE width == xs[2]
           inside == xs[1] .. xs[2] - 1
           Line(x) == RenderPoint(xs[1], xs[2], PostY(1), PostY(2), x)
           e == [x \in inside |-> Square(Line(x) - bins[x].level)]
<1>1. /\ base \in 0 .. MaxLevel /\ slope \in Int /\ base + slope * width \in 0 .. MaxLevel
      /\ xs[1] = 0 /\ width \in Nat /\ width >= 2
      /\ MaxOver \in Nat /\ MaxUnder \in Nat /\ MaxErr \in Nat
      /\ \A x \in 0 .. width - 1 : x \in DOMAIN bins
      /\ \A x \in DOMAIN bins : bins[x].level = base + slope * x
      /\ \A x \in DOMAIN bins : bins[x].level \in Nat
  BY StraightTyped, SpectraAssumption, SpectrumTyped
<1>2. ASSUME NEW x \in inside PROVE Line(x) = bins[x].level /\ bins[x].level \in Nat
  <2>1. x \in Nat /\ x \in DOMAIN bins /\ width \in Nat \ {0}
    BY <1>1
  <2>2. RenderPoint(0, width, base, base + slope * width, x) = base + slope * x
    BY <1>1, <2>1, RenderedStraight
  <2> QED
    BY <1>1, <2>1, <2>2
<1>3. PICK zero \in {0} : zero \in Int
  OBVIOUS
<1>4. \A x \in inside : e[x] = 0
  BY <1>2 DEF Square
<1>5. SumOver(xs[1], xs[2] - 1, e) = 0
  <2>1. PICK to \in Int : to = width - 1 /\ 0 <= to + 1
    BY <1>1
  <2>2. \A x \in 0 .. to : e[x] = 0
    BY <1>1, <1>4, <2>1
  <2> HIDE DEF e
  <2>3. Combines(0, to, e, e, e, e, zero, zero, zero)
    BY <1>3, <2>2 DEF Combines
  <2>4. PICK s \in Int : /\ s = SumOver(0, to, e)
                         /\ s = zero * s + zero * s + zero * s
    <3>1. 0 \in Nat
      OBVIOUS
    <3> QED
      BY <1>3, <2>1, <2>3, <3>1, SumCombines
  <2>5. s = 0
    BY <1>3, <2>4
  <2> QED
    BY <1>1, <2>1, <2>4, <2>5
<1>6. 0 \div (xs[2] - xs[1]) = 0
  BY <1>1
<1> HIDE DEF Line
<1>7. ~ \E x \in inside :
           \/ Line(x) + MaxOver < bins[x].level
           \/ Line(x) - MaxUnder > bins[x].level
  BY <1>1, <1>2
<1>8. ~(SumOver(xs[1], xs[2] - 1, e) \div (xs[2] - xs[1]) > MaxErr)
  BY <1>1, <1>5, <1>6
<1> QED
  BY <1>7, <1>8 DEF TooFar, Line

-----------------------------------------------------------------------------
(* The answer of a fit.                                                    *)

\* What a post may be coded as: a level, with or without the flag.
Codes == {y \in Int : Plain(y) \in 0 .. MaxLevel}

\* A point between two posts is a level.
LEMMA RenderedBetween ==
    ASSUME NEW x0 \in Nat, NEW x1 \in Nat, NEW x \in Nat, x0 < x, x < x1,
           NEW y0 \in Codes, NEW y1 \in Codes
    PROVE  RenderPoint(x0, x1, y0, y1, x) \in 0 .. MaxLevel
<1>0. PICK most \in Nat : most = MaxLevel
  BY SpectraAssumption
<1>1. PICK a \in Nat, b \in Nat :
         a = Plain(y0) /\ b = Plain(y1) /\ a <= MaxLevel /\ b <= MaxLevel
  BY SpectraAssumption DEF Codes
<1>2. PICK d \in Nat : d = Distance(a, b) /\ (b < a => d = a - b) /\ (a <= b => d = b - a)
  <2>1. CASE b < a
    BY <2>1 DEF Distance, Greatest, Least
  <2>2. CASE a <= b
    BY <2>2 DEF Distance, Greatest, Least
  <2> QED
    BY <2>1, <2>2
<1>3. PICK u \in Nat \ {0}, v \in Nat \ {0} : u = x - x0 /\ v = x1 - x0 /\ u < v
  OBVIOUS
<1>4. PICK off \in Int : off = (d * u) \div v /\ 0 <= off /\ off <= d
  <2>1. PICK p \in Nat : p = d * u
    OBVIOUS
  <2>2. p <= d * v
    BY <1>3, <2>1
  <2>3. PICK q \in Int, r \in 0 .. v - 1 : q = p \div v /\ p = v * q + r
    BY DivideInt
  <2>4. q >= 0
    <3>1. q < 0 => v * q <= -v
      OBVIOUS
    <3> QED
      BY <2>1, <2>3, <3>1
  <2>5. q <= d
    <3>1. q >= d + 1 => v * q >= v * (d + 1)
      OBVIOUS
    <3>2. v * (d + 1) = d * v + v
      OBVIOUS
    <3> QED
      BY <2>2, <2>3, <3>1, <3>2
  <2> QED
    BY <2>1, <2>3, <2>4, <2>5
<1>5. RenderPoint(x0, x1, y0, y1, x) = IF b - a < 0 THEN a - off ELSE a + off
  <2>1. x1 # x0
    OBVIOUS
  <2> QED
    BY <1>1, <1>2, <1>3, <1>4, <2>1 DEF RenderPoint
<1>6. CASE b < a
  <2>1. a - off \in 0 .. MaxLevel
    BY <1>0, <1>1, <1>2, <1>4, <1>6
  <2> QED
    BY <1>5, <1>6, <2>1
<1>7. CASE a <= b
  <2>1. a + off \in 0 .. MaxLevel
    BY <1>0, <1>1, <1>2, <1>4, <1>7
  <2> QED
    BY <1>5, <1>7, <2>1
<1> QED
  BY <1>6, <1>7

\* The posts a post is predicted from come before it, on its two sides.
LEMMA NeighboursBefore ==
    ASSUME SpectrumInv, NEW i \in Posts \ {1, 2}
    PROVE  /\ Lower(xs, i) \in 1 .. i - 1 /\ Upper(xs, i) \in 1 .. i - 1
           /\ xs[Lower(xs, i)] < xs[i] /\ xs[i] < xs[Upper(xs, i)]
<1>1. /\ Posts = 1 .. Len(xs) /\ Len(xs) \in Nat /\ i \in Nat /\ i > 2
      /\ \A j \in 1 .. i - 1 : j \in Posts /\ xs[j] \in Nat
      /\ xs[i] \in Nat /\ xs[1] < xs[i] /\ xs[i] < xs[2] /\ xs[1] \in Nat /\ xs[2] \in Nat
      /\ 1 \in 1 .. i - 1 /\ 2 \in 1 .. i - 1
  <2>1. /\ Posts = 1 .. Len(xs) /\ Len(xs) \in Nat
        /\ \A j \in Posts : xs[j] \in Nat
        /\ \A j, k \in Posts : xs[j] = xs[k] => j = k
        /\ \A j \in Posts : xs[1] <= xs[j] /\ xs[j] <= xs[2]
    BY SpectrumTyped
  <2>2. i \in Nat /\ i > 2 /\ 1 \in Posts /\ 2 \in Posts /\ \A j \in 1 .. i - 1 : j \in Posts
    BY <2>1
  <2>3. xs[1] # xs[i] /\ xs[2] # xs[i]
    BY <2>1, <2>2
  <2>4. /\ xs[1] \in Nat /\ xs[2] \in Nat /\ xs[i] \in Nat
        /\ xs[1] <= xs[i] /\ xs[i] <= xs[2]
    BY <2>1, <2>2
  <2>5. xs[1] < xs[i] /\ xs[i] < xs[2]
    BY <2>3, <2>4
  <2> QED
    BY <2>1, <2>2, <2>4, <2>5
<1>2. Lower(xs, i) \in 1 .. i - 1 /\ xs[Lower(xs, i)] < xs[i]
  <2> DEFINE below == {j \in 1 .. i - 1 : xs[j] > 0 /\ xs[j] < xs[i]}
             heights == {xs[j] : j \in below}
  <2>1. CASE below = {}
    BY <1>1, <2>1 DEF Lower
  <2>2. CASE below # {}
    <3>1. heights \in SUBSET Nat /\ heights # {} /\ \A x \in heights : x <= xs[i]
      <4>1. \A j \in below : xs[j] \in Nat /\ xs[j] <= xs[i]
        BY <1>1
      <4> HIDE DEF below
      <4> QED
        BY <2>2, <4>1
    <3> HIDE DEF heights
    <3>2. PICK h \in heights : \A x \in heights : x <= h
      BY <1>1, <3>1, NatGreatest
    <3> USE DEF heights
    <3>3. \E j \in below : \A k \in below : xs[k] <= xs[j]
      BY <3>2
    <3> DEFINE j == CHOOSE j \in below : \A k \in below : xs[k] <= xs[j]
    <3>4. j \in below
      BY <3>3
    <3>5. Lower(xs, i) = j
      BY <2>2 DEF Lower
    <3> HIDE DEF j
    <3> QED
      BY <3>4, <3>5
  <2> QED
    BY <2>1, <2>2
<1>3. Upper(xs, i) \in 1 .. i - 1 /\ xs[i] < xs[Upper(xs, i)]
  <2> DEFINE above == {j \in 1 .. i - 1 : xs[j] < xs[2] /\ xs[j] > xs[i]}
             heights == {xs[j] : j \in above}
  <2>1. CASE above = {}
    BY <1>1, <2>1 DEF Upper
  <2>2. CASE above # {}
    <3>1. heights \in SUBSET Nat /\ heights # {}
      BY <1>1, <2>2
    <3> HIDE DEF heights
    <3>2. PICK h \in heights : \A x \in heights : h <= x
      BY <3>1, NatLeast
    <3> USE DEF heights
    <3>3. \E j \in above : \A k \in above : xs[k] >= xs[j]
      <4>1. PICK j \in above : h = xs[j]
        BY <3>2
      <4>2. ASSUME NEW k \in above PROVE xs[k] >= xs[j]
        <5>1. h <= xs[k] /\ xs[k] \in Nat /\ h \in Nat
          BY <1>1, <3>1, <3>2
        <5> QED
          BY <4>1, <5>1
      <4> QED
        BY <4>2
    <3> DEFINE j == CHOOSE j \in above : \A k \in above : xs[k] >= xs[j]
    <3>4. j \in above
      BY <3>3
    <3>5. Upper(xs, i) = j
      BY <2>2 DEF Upper
    <3> HIDE DEF j
    <3> QED
      BY <1>1, <3>4, <3>5
  <2> QED
    BY <2>1, <2>2
<1> QED
  BY <1>2, <1>3

\* A prediction is a level, and depends on the posts before alone.
LEMMA PredictedLevel ==
    ASSUME SpectrumInv, NEW i \in Posts \ {1, 2}, NEW s, \A j \in 1 .. i - 1 : s[j] \in Codes
    PROVE  Predicted(xs, s, i) \in 0 .. MaxLevel
<1>1. PICK lo \in 1 .. i - 1, hi \in 1 .. i - 1 :
         /\ lo = Lower(xs, i) /\ hi = Upper(xs, i) /\ xs[lo] < xs[i] /\ xs[i] < xs[hi]
  BY NeighboursBefore
<1>2. lo \in Posts /\ hi \in Posts /\ xs[lo] \in Nat /\ xs[hi] \in Nat /\ xs[i] \in Nat
  BY SpectrumTyped
<1>3. RenderPoint(xs[lo], xs[hi], s[lo], s[hi], xs[i]) \in 0 .. MaxLevel
  BY <1>1, <1>2, RenderedBetween
<1> QED
  BY <1>1, <1>3 DEF Predicted

LEMMA PredictedAlike ==
    ASSUME SpectrumInv, NEW i \in Posts \ {1, 2}, NEW s, NEW t,
           \A j \in 1 .. i - 1 : s[j] = t[j]
    PROVE  Predicted(xs, s, i) = Predicted(xs, t, i)
BY NeighboursBefore DEF Predicted

\* No post is above the levels, and the ends have a height.
PostsCoded ==
    /\ \A i \in Posts : PostY(i) \in Int /\ PostY(i) <= MaxLevel
    /\ PostY(1) >= 0 /\ PostY(2) >= 0

\* What is coded for a post is its height, unless that is predicted.
LEMMA CodedPost ==
    ASSUME PostsCoded, NEW i \in Posts, NEW predicted \in 0 .. MaxLevel
    PROVE  LET y == PostOf(i, predicted)
           IN  /\ y \in Codes
               /\ Flagged(y) <=> Plain(y) = predicted
               /\ PostY(i) < 0 => Flagged(y)
<1>1. PICK h \in Int : h = PostY(i) /\ h <= MaxLevel
  BY DEF PostsCoded
<1>2. /\ predicted \in Nat /\ Plain(predicted + Flag) = predicted /\ Flagged(predicted + Flag)
      /\ predicted + Flag \in Int
  BY PlainLevel DEF Flag
<1>3. CASE h >= 0 /\ predicted # h
  <2>1. h \in 0 .. MaxLevel
    BY <1>1, <1>3
  <2>2. Plain(h) = h /\ ~Flagged(h)
    BY <2>1, PlainLevel
  <2>3. PostOf(i, predicted) = h
    BY <1>1, <1>3 DEF PostOf
  <2> QED
    BY <1>1, <1>3, <2>1, <2>2, <2>3 DEF Codes
<1>4. CASE ~(h >= 0 /\ predicted # h)
  <2>1. PostOf(i, predicted) = predicted + Flag
    BY <1>1, <1>4 DEF PostOf
  <2> QED
    BY <1>2, <2>1 DEF Codes
<1> QED
  BY <1>3, <1>4

NextPost(s, i) == Append(s, PostOf(i, Predicted(xs, s, i)))

\* The first n posts, each coded after those before it.
Made(s, n) ==
    /\ s \in Seq(Codes) /\ Len(s) = n
    /\ s[1] = PostY(1) /\ s[2] = PostY(2)
    /\ \A i \in 3 .. n : s[i] = PostOf(i, Predicted(xs, s, i))

LEMMA NextTyped ==
    ASSUME SpectrumInv, PostsCoded, NEW n \in Nat, n >= 2, n + 1 <= Len(xs),
           NEW s \in Seq(Codes), Len(s) = n
    PROVE  NextPost(s, n + 1) \in Seq(Codes) /\ Len(NextPost(s, n + 1)) = n + 1
<1>1. n + 1 \in Posts \ {1, 2} /\ (n + 1) - 1 = n
  BY SpectrumTyped
<1>2. \A j \in 1 .. n : s[j] \in Codes
  OBVIOUS
<1>3. Predicted(xs, s, n + 1) \in 0 .. MaxLevel
  BY <1>1, <1>2, PredictedLevel
<1>4. PostOf(n + 1, Predicted(xs, s, n + 1)) \in Codes
  BY <1>1, <1>3, CodedPost
<1> QED
  BY <1>4 DEF NextPost

LEMMA NextMade ==
    ASSUME SpectrumInv, PostsCoded, NEW n \in Nat, n >= 2, n + 1 <= Len(xs),
           NEW s, Made(s, n)
    PROVE  Made(NextPost(s, n + 1), n + 1)
<1> DEFINE t == NextPost(s, n + 1)
<1>1. s \in Seq(Codes) /\ Len(s) = n
  BY DEF Made
<1>2. t \in Seq(Codes) /\ Len(t) = n + 1
  BY <1>1, NextTyped
<1>3. /\ \A j \in 1 .. n : t[j] = s[j]
      /\ t[n + 1] = PostOf(n + 1, Predicted(xs, s, n + 1))
  BY <1>1 DEF NextPost
<1> HIDE DEF t
<1>4. ASSUME NEW i \in 3 .. n + 1 PROVE t[i] = PostOf(i, Predicted(xs, t, i))
  <2>1. i \in Posts \ {1, 2} /\ \A j \in 1 .. i - 1 : j \in 1 .. n
    BY SpectrumTyped
  <2>2. Predicted(xs, s, i) = Predicted(xs, t, i)
    <3>1. \A j \in 1 .. i - 1 : s[j] = t[j]
      BY <1>3, <2>1
    <3> QED
      BY <2>1, <3>1, PredictedAlike
  <2>3. CASE i = n + 1
    BY <1>3, <2>2, <2>3
  <2>4. CASE i # n + 1
    <3>1. i \in 3 .. n /\ i \in 1 .. n
      BY <2>4
    <3>2. t[i] = s[i] /\ s[i] = PostOf(i, Predicted(xs, s, i))
      BY <1>3, <3>1 DEF Made
    <3> QED
      BY <2>2, <3>2
  <2> QED
    BY <2>3, <2>4
<1>5. t[1] = PostY(1) /\ t[2] = PostY(2)
  BY <1>3 DEF Made
<1> QED
  BY <1>2, <1>4, <1>5 DEF Made, t

\* The answer codes every post after those before it.
LEMMA OutputMade ==
    ASSUME SpectrumInv, PostsCoded, AnswerFit
    PROVE  Made(output', Len(xs))
<1> DEFINE n == Len(xs)
           m == n - 2
           first == <<PostY(1), PostY(2)>>
           unfolds(g) == g = [i \in 2 .. n |-> IF i = 2 THEN first
                                               ELSE NextPost(g[i - 1], i)]
           S == Seq(Codes)
           step == [k \in 1 .. m |->
                       [s \in S |-> IF Len(s) = k + 1 THEN NextPost(s, k + 2) ELSE s]]
           g == CHOOSE g : unfolds(g)
<1>1. n \in Nat /\ n >= 2 /\ m \in Nat /\ 1 \in Posts /\ 2 \in Posts
  BY SpectrumTyped
<1>2. first \in S /\ Len(first) = 2 /\ Made(first, 2)
  <2>1. PostY(1) \in 0 .. MaxLevel /\ PostY(2) \in 0 .. MaxLevel
    BY <1>1 DEF PostsCoded
  <2>2. PostY(1) \in Codes /\ PostY(2) \in Codes
    BY <2>1, PlainLevel DEF Codes
  <2>3. 3 .. 2 = {}
    OBVIOUS
  <2> QED
    BY <2>2, <2>3 DEF Made
<1>3. output' = g[n]
  BY DEF AnswerFit, NextPost
<1>4. ASSUME NEW k \in 1 .. m, NEW s \in S, Len(s) = k + 1
      PROVE  NextPost(s, k + 2) \in S /\ Len(NextPost(s, k + 2)) = k + 2
  <2>1. k + 1 \in Nat /\ k + 1 >= 2 /\ (k + 1) + 1 <= Len(xs) /\ (k + 1) + 1 = k + 2
    BY <1>1
  <2> QED
    BY <1>4, <2>1, NextTyped
<1> HIDE DEF first, n
<1>5. step \in [1 .. m -> [S -> S]]
  <2> HIDE DEF S
  <2>1. ASSUME NEW k \in 1 .. m, NEW s \in S
        PROVE  (IF Len(s) = k + 1 THEN NextPost(s, k + 2) ELSE s) \in S
    BY <1>4
  <2> QED
    BY <2>1
<1>6. PICK c \in [0 .. m -> S] :
         c[0] = first /\ \A k \in 1 .. m : c[k] = step[k][c[k - 1]]
  <2>1. Recursion(S, first, m, step)
    BY <1>1, <1>2, <1>5 DEF Recursion
  <2> HIDE DEF step
  <2>2. PICK c : Unfolds(S, first, m, step, c)
    BY <2>1, NatRecursion, Zenon
  <2> QED
    BY <2>2 DEF Unfolds
<1>7. ASSUME NEW k \in 1 .. m, Len(c[k - 1]) = k + 1
      PROVE  c[k] = NextPost(c[k - 1], k + 2) /\ Len(c[k]) = k + 2
  <2>1. c[k - 1] \in S
    BY <1>1
  <2> HIDE DEF S
  <2>2. c[k] = NextPost(c[k - 1], k + 2)
    BY <1>6, <1>7, <2>1
  <2> QED
    BY <1>4, <1>7, <2>1, <2>2
<1> HIDE DEF step, S, m
<1>8. \A k \in Nat : k <= m => Len(c[k]) = k + 2
  <2> DEFINE kept == {k \in Nat : k <= m => Len(c[k]) = k + 2}
  <2>1. 0 \in kept
    BY <1>2, <1>6
  <2>2. ASSUME NEW k \in Nat, k \in kept PROVE k + 1 \in kept
    <3> SUFFICES ASSUME k + 1 <= m PROVE Len(c[k + 1]) = (k + 1) + 2
      OBVIOUS
    <3>1. k + 1 \in 1 .. m /\ (k + 1) - 1 = k /\ Len(c[k]) = (k + 1) + 1
      BY <1>1, <2>2
    <3> QED
      BY <1>7, <3>1
  <2> HIDE DEF kept
  <2>3. \A k \in Nat : k \in kept
    BY <2>1, <2>2, NatInduct
  <2> QED
    BY <2>3 DEF kept
<1>9. unfolds([i \in 2 .. n |-> c[i - 2]])
  <2> DEFINE d == [i \in 2 .. n |-> c[i - 2]]
  <2>1. ASSUME NEW i \in 2 .. n PROVE d[i] = IF i = 2 THEN first ELSE NextPost(d[i - 1], i)
    <3>1. CASE i = 2
      BY <1>6, <3>1
    <3>2. CASE i # 2
      <4>1. /\ i - 2 \in 1 .. m /\ (i - 2) + 2 = i /\ (i - 2) - 1 \in Nat /\ (i - 2) - 1 <= m
            /\ i - 1 \in 2 .. n /\ (i - 1) - 2 = (i - 2) - 1
            /\ ((i - 2) - 1) + 2 = (i - 2) + 1
        BY <1>1, <3>2 DEF m
      <4>2. Len(c[(i - 2) - 1]) = (i - 2) + 1
        BY <1>8, <4>1
      <4>3. c[i - 2] = NextPost(c[(i - 2) - 1], i)
        BY <1>7, <4>1, <4>2
      <4> QED
        BY <3>2, <4>1, <4>3
    <3> QED
      BY <3>1, <3>2
  <2> QED
    BY <2>1
<1>10. unfolds(g)
  BY <1>9
<1> HIDE DEF g
<1>11. g[2] = first /\ \A i \in 3 .. n : g[i] = NextPost(g[i - 1], i)
  <2>1. 2 \in 2 .. n /\ \A i \in 3 .. n : i \in 2 .. n /\ i # 2
    BY <1>1
  <2> QED
    BY <1>10, <2>1
<1> HIDE DEF unfolds
<1>12. \A k \in Nat : k <= m => Made(g[k + 2], k + 2)
  <2> DEFINE kept == {k \in Nat : k <= m => Made(g[k + 2], k + 2)}
  <2>1. 0 \in kept
    BY <1>2, <1>11
  <2>2. ASSUME NEW k \in Nat, k \in kept PROVE k + 1 \in kept
    <3> SUFFICES ASSUME k + 1 <= m PROVE Made(g[(k + 1) + 2], (k + 1) + 2)
      OBVIOUS
    <3>1. /\ (k + 1) + 2 = (k + 2) + 1 /\ (k + 2) + 1 \in 3 .. n /\ ((k + 2) + 1) - 1 = k + 2
          /\ k + 2 \in Nat /\ k + 2 >= 2 /\ (k + 2) + 1 <= Len(xs) /\ k <= m
      BY <1>1 DEF m, n
    <3>2. Made(g[k + 2], k + 2)
      BY <2>2, <3>1
    <3>3. g[(k + 2) + 1] = NextPost(g[k + 2], (k + 2) + 1)
      BY <1>11, <3>1
    <3>4. Made(NextPost(g[k + 2], (k + 2) + 1), (k + 2) + 1)
      BY <3>1, <3>2, NextMade
    <3> QED
      BY <3>1, <3>3, <3>4
  <2> HIDE DEF kept
  <2>3. \A k \in Nat : k \in kept
    BY <2>1, <2>2, NatInduct
  <2> QED
    BY <2>3 DEF kept
<1>13. Made(g[m + 2], m + 2) /\ m + 2 = n
  BY <1>1, <1>12 DEF m
<1> QED
  BY <1>3, <1>13 DEF n

HeightsInRange == \A i \in Posts : fitA[i] <= MaxLevel /\ fitB[i] <= MaxLevel

\* On a straight spectrum only the ends have a height, and every other post lies
\* between them.
LineKept(base, slope) ==
    /\ fitA[1] = base /\ fitB[1] = base
    /\ fitA[2] = base + slope * xs[2] /\ fitB[2] = base + slope * xs[2]
    /\ \A i \in Posts \ {1, 2} : fitA[i] = Unset /\ fitB[i] = Unset
    /\ \A place \in Posts : lowOf[place] = 1 /\ highOf[place] = 2

StraightKept ==
    \A slope \in -MaxLevel .. MaxLevel :
        OnLine(bins[0].level, slope) => LineKept(bins[0].level, slope)

FitCodeInv ==
    /\ FitInv
    /\ outcome = "pending" => HeightsInRange /\ (turn > 2 => StraightKept)
    /\ FitIsCodable

LEMMA HeightsCoded ==
    ASSUME FitTyped, HeightsInRange
    PROVE  \A i \in Posts : PostY(i) \in Int /\ PostY(i) <= MaxLevel
<1> SUFFICES ASSUME NEW i \in Posts PROVE PostY(i) \in Int /\ PostY(i) <= MaxLevel
  OBVIOUS
<1>1. PICK a \in Int, b \in Int, most \in Nat :
         a = fitA[i] /\ b = fitB[i] /\ most = MaxLevel /\ a <= most /\ b <= most
  BY SpectraAssumption DEF FitTyped, HeightsInRange
<1>2. PostY(i) = IF a < 0 THEN b ELSE IF b < 0 THEN a ELSE (a + b) \div 2
  BY <1>1 DEF PostY
<1> QED
  BY <1>1, <1>2

LEMMA LineIsStraight ==
    ASSUME NEW slope \in -MaxLevel .. MaxLevel, OnLine(bins[0].level, slope)
    PROVE  Straight(bins[0].level, slope)
BY SpectraAssumption DEF Straight

LEMMA LineHeights ==
    ASSUME FitTyped, NEW base, NEW slope, Straight(base, slope), LineKept(base, slope)
    PROVE  /\ PostY(1) = base /\ PostY(2) = base + slope * xs[2]
           /\ \A i \in Posts \ {1, 2} : PostY(i) < 0
<1>1. PICK a \in Nat, b \in Nat : a = base /\ b = base + slope * xs[2]
  <2>1. base \in 0 .. MaxLevel /\ base + slope * xs[2] \in 0 .. MaxLevel
    BY StraightTyped DEF FitTyped
  <2>2. \A h \in 0 .. MaxLevel : h \in Nat
    BY SpectraAssumption
  <2> QED
    BY <2>1, <2>2
<1>2. (a + a) \div 2 = a /\ (b + b) \div 2 = b
  OBVIOUS
<1>3. PostY(1) = base
  <2>1. fitA[1] = a /\ fitB[1] = a
    BY <1>1 DEF LineKept
  <2> QED
    BY <1>1, <1>2, <2>1 DEF PostY
<1>4. PostY(2) = base + slope * xs[2]
  <2>1. fitA[2] = b /\ fitB[2] = b
    BY <1>1 DEF LineKept
  <2> QED
    BY <1>1, <1>2, <2>1 DEF PostY
<1>5. \A i \in Posts \ {1, 2} : PostY(i) < 0
  BY DEF LineKept, PostY, Unset
<1> QED
  BY <1>3, <1>4, <1>5

\* The answer can be written and read back.
LEMMA AnswerIsCodable ==
    ASSUME FitCodeInv, AnswerFit
    PROVE  FitIsCodable'
<1>1. /\ outcome = "pending" /\ FitTyped /\ SpectrumInv /\ HeightsInRange
      /\ turn \in Nat /\ turn > Len(xs)
  BY DEF FitCodeInv, FitInv, AnswerFit, FitTyped
<1>2. /\ Posts = 1 .. Len(xs) /\ Len(xs) \in Nat /\ Len(xs) >= 2 /\ 1 \in Posts /\ 2 \in Posts
  BY <1>1, SpectrumTyped
<1>3. turn > 2 /\ StraightKept /\ FitUnderWay
  BY <1>1, <1>2 DEF FitCodeInv, FitInv
<1>4. PostsCoded
  BY <1>1, <1>3, HeightsCoded DEF PostsCoded, FitUnderWay, UsedPosts
<1>5. Made(output', Len(xs))
  BY <1>1, <1>4, OutputMade
<1>6. ASSUME NEW i \in Posts PROVE output'[i] \in Codes
  BY <1>2, <1>5 DEF Made
<1>7. ~Flagged(output'[1]) /\ ~Flagged(output'[2])
  <2>1. output'[1] \in 0 .. MaxLevel /\ output'[2] \in 0 .. MaxLevel
    BY <1>2, <1>4, <1>5 DEF PostsCoded, Made
  <2> QED
    BY <2>1, PlainLevel
<1>8. ASSUME NEW i \in Posts \ {1, 2}
      PROVE  /\ Flagged(output'[i]) <=> Plain(output'[i]) = Predicted(xs, output', i)
             /\ PostY(i) < 0 => Flagged(output'[i])
  <2>1. i \in 3 .. Len(xs) /\ \A j \in 1 .. i - 1 : j \in Posts
    BY <1>2
  <2>2. PICK predicted \in 0 .. MaxLevel : predicted = Predicted(xs, output', i)
    BY <1>1, <1>6, <2>1, PredictedLevel
  <2>3. output'[i] = PostOf(i, predicted)
    BY <1>5, <2>1, <2>2 DEF Made
  <2> QED
    BY <1>4, <2>2, <2>3, CodedPost
<1>9. ASSUME NEW slope \in -MaxLevel .. MaxLevel, OnLine(bins[0].level, slope)
      PROVE  /\ output'[1] = bins[0].level
             /\ output'[2] = bins[0].level + slope * xs[2]
             /\ \A i \in Posts \ {1, 2} : Flagged(output'[i])
  <2>1. Straight(bins[0].level, slope) /\ LineKept(bins[0].level, slope)
    BY <1>3, <1>9, LineIsStraight DEF StraightKept
  <2>2. /\ PostY(1) = bins[0].level /\ PostY(2) = bins[0].level + slope * xs[2]
        /\ \A i \in Posts \ {1, 2} : PostY(i) < 0
    BY <1>1, <2>1, LineHeights
  <2> QED
    BY <1>5, <1>8, <2>2 DEF Made
<1>10. xs' = xs /\ bins' = bins /\ Posts' = Posts
  BY DEF AnswerFit, spectrumVars, Posts
<1>11. \A slope : OnLine(bins[0].level, slope)' <=> OnLine(bins[0].level, slope)
  BY <1>10 DEF OnLine
<1>12. \A i \in Posts : Plain(output'[i]) \in 0 .. MaxLevel
  BY <1>6 DEF Codes
<1> QED
  BY <1>7, <1>8, <1>9, <1>10, <1>11, <1>12 DEF FitIsCodable

\* The first line is that of a straight spectrum.
LEMMA WholeIsCodable ==
    ASSUME FitCodeInv, FitWhole, outcome' = "pending"
    PROVE  HeightsInRange' /\ StraightKept'
<1> DEFINE line == FitLine(1, Len(xs))
<1>1. /\ outcome = "pending" /\ turn = 1 /\ FitTyped /\ FitBlank /\ SpectrumInv
      /\ HeightsInRange
      /\ UNCHANGED <<spectrumVars, lowOf, highOf>>
  BY DEF FitWhole, FitCodeInv, FitInv, FitTyped
<1>2. /\ Posts = 1 .. Len(xs) /\ Len(xs) \in Nat /\ Len(xs) >= 2
      /\ 1 \in Posts /\ 2 \in Posts /\ Len(xs) \in Posts
  BY <1>1, SpectrumTyped
<1>3. fitA' = [fitA EXCEPT ![1] = line.y0, ![2] = line.y1] /\ fitB' = fitA'
  BY DEF FitWhole
<1>4. line.y0 \in Nat /\ line.y1 \in Nat /\ line.y0 <= MaxLevel /\ line.y1 <= MaxLevel
  BY <1>1, <1>2, LineTyped
<1> HIDE DEF line
<1>5. /\ fitA'[1] = line.y0 /\ fitA'[2] = line.y1
      /\ \A i \in Posts \ {1, 2} : fitA'[i] = fitA[i]
  BY <1>1, <1>2, <1>3 DEF FitTyped
<1>6. xs' = xs /\ bins' = bins /\ Posts' = Posts
  BY <1>1 DEF spectrumVars, Posts
<1>7. HeightsInRange'
  BY <1>1, <1>3, <1>4, <1>5, <1>6 DEF HeightsInRange
<1>8. ASSUME NEW slope \in -MaxLevel .. MaxLevel, OnLine(bins[0].level, slope)
      PROVE  LineKept(bins[0].level, slope)'
  <2>1. line.y0 = bins[0].level /\ line.y1 = bins[0].level + slope * xs[2]
    BY <1>1, <1>8, LineIsStraight, StraightLine DEF line
  <2> QED
    BY <1>1, <1>3, <1>5, <1>6, <2>1 DEF LineKept, FitBlank
<1>9. \A slope : OnLine(bins[0].level, slope)' <=> OnLine(bins[0].level, slope)
  BY <1>6 DEF OnLine
<1> QED
  BY <1>6, <1>7, <1>8, <1>9 DEF StraightKept

\* A split, which a straight spectrum never needs, keeps to the levels.
LEMMA SplitIsCodable ==
    ASSUME FitCodeInv, SplitSegment
    PROVE  HeightsInRange' /\ StraightKept'
<1>1. /\ Visiting /\ FitTyped /\ turn > 2 /\ turn \in Posts \ UsedPosts
      /\ outcome = "pending" /\ Low \in Posts /\ High \in Posts
      /\ Encloses(Low, High, turn) /\ SpectrumInv /\ FitUnderWay
      /\ HeightsInRange /\ StraightKept
  BY VisitedPost DEF SplitSegment, FitTyped, FitCodeInv
<1>2. xs' = xs /\ bins' = bins /\ Posts' = Posts
  BY DEF SplitSegment, spectrumVars, Posts
<1>3. \A slope \in -MaxLevel .. MaxLevel : ~OnLine(bins[0].level, slope)
  <2> SUFFICES ASSUME NEW slope \in -MaxLevel .. MaxLevel, OnLine(bins[0].level, slope)
               PROVE  FALSE
    OBVIOUS
  <2>1. Straight(bins[0].level, slope) /\ LineKept(bins[0].level, slope)
    BY <1>1, LineIsStraight DEF StraightKept
  <2>2. Low = 1 /\ High = 2
    BY <1>1, <2>1, PlacesFound DEF LineKept, Low, High
  <2>3. ~TooFar(1, 2)
    BY <1>1, <2>1, LineHeights, StraightNear
  <2> QED
    BY <2>2, <2>3 DEF SplitSegment
<1>4. StraightKept'
  BY <1>2, <1>3 DEF StraightKept, OnLine
<1>5. CASE UNCHANGED <<fitA, fitB, lowOf, highOf>>
  BY <1>1, <1>2, <1>4, <1>5 DEF HeightsInRange
<1>6. CASE ~(UNCHANGED <<fitA, fitB, lowOf, highOf>>)
  <2> DEFINE left == FitLine(Place(Low), Place(turn))
             right == FitLine(Place(turn), Place(High))
             ly0 == IF left.fails THEN PostY(Low) ELSE left.y0
             ly1 == IF left.fails THEN right.y0 ELSE left.y1
             hy0 == IF right.fails THEN ly1 ELSE right.y0
             hy1 == IF right.fails THEN PostY(High) ELSE right.y1
  <2>1. /\ fitA' = [fitA EXCEPT ![1] = IF Low = 1 THEN ly0 ELSE @, ![turn] = ly1, ![High] = hy1]
        /\ fitB' = [fitB EXCEPT ![2] = IF High = 2 THEN hy1 ELSE @, ![turn] = hy0, ![Low] = ly0]
    BY <1>6 DEF SplitSegment
  <2>2. /\ left.y0 <= MaxLevel /\ left.y1 <= MaxLevel
        /\ right.y0 <= MaxLevel /\ right.y1 <= MaxLevel
    <3>1. Place(Low) \in Posts /\ Place(turn) \in Posts /\ Place(High) \in Posts
      BY <1>1, PlacesFound
    <3>2. Place(Low) < Place(turn) /\ Place(turn) < Place(High)
      BY <1>1, PlacesFound DEF Encloses
    <3> QED
      BY <1>1, <3>1, <3>2, LineTyped
  <2>3. PostY(Low) <= MaxLevel /\ PostY(High) <= MaxLevel
    BY <1>1, HeightsCoded
  <2> HIDE DEF left, right
  <2>4. ly0 <= MaxLevel /\ ly1 <= MaxLevel /\ hy0 <= MaxLevel /\ hy1 <= MaxLevel
    BY <2>2, <2>3
  <2> HIDE DEF ly0, ly1, hy0, hy1
  <2>5. ASSUME NEW i \in Posts PROVE fitA'[i] <= MaxLevel /\ fitB'[i] <= MaxLevel
    <3>1. fitA'[i] = fitA[i] \/ fitA'[i] \in {ly0, ly1, hy1}
      BY <1>1, <2>1 DEF FitTyped
    <3>2. fitB'[i] = fitB[i] \/ fitB'[i] \in {ly0, hy0, hy1}
      BY <1>1, <2>1 DEF FitTyped
    <3> QED
      BY <1>1, <2>4, <3>1, <3>2 DEF HeightsInRange
  <2> QED
    BY <1>2, <1>4, <2>5 DEF HeightsInRange
<1> QED
  BY <1>5, <1>6

LEMMA CodableStep == FitCodeInv /\ [FitNext]_fitVars => FitCodeInv'
<1> SUFFICES ASSUME FitCodeInv, [FitNext]_fitVars PROVE FitCodeInv'
  OBVIOUS
<1>1. FitInv'
  BY FitStep DEF FitCodeInv
<1>2. ASSUME outcome' # "fitted",
             outcome' = "pending" => HeightsInRange' /\ (turn' > 2 => StraightKept')
      PROVE  FitCodeInv'
  BY <1>1, <1>2 DEF FitCodeInv, FitIsCodable
<1>3. CASE BeginFit
  <2>1. turn' = 1 /\ outcome' = "pending"
        /\ fitA' = [i \in Posts' |-> Unset] /\ fitB' = fitA'
    BY <1>3 DEF BeginFit, Posts
  <2>2. HeightsInRange'
    BY <2>1, SpectraAssumption DEF HeightsInRange, Unset
  <2> QED
    BY <1>2, <2>1, <2>2
<1>4. CASE FitWhole
  <2>1. outcome' # "fitted"
    BY <1>4 DEF FitWhole
  <2> QED
    BY <1>2, <1>4, <2>1, WholeIsCodable DEF FitCodeInv
<1>5. ASSUME UNCHANGED <<spectrumVars, fitA, fitB, lowOf, highOf, outcome>>, Visiting
      PROVE  FitCodeInv'
  <2>1. outcome = "pending" /\ turn > 2 /\ HeightsInRange /\ StraightKept
    BY <1>5 DEF FitCodeInv, FitInv, Visiting
  <2>2. Posts' = Posts /\ xs' = xs /\ bins' = bins
    BY <1>5 DEF spectrumVars, Posts
  <2>3. HeightsInRange' /\ StraightKept'
    BY <1>5, <2>1, <2>2 DEF HeightsInRange, StraightKept, LineKept, OnLine
  <2> QED
    BY <1>2, <1>5, <2>1, <2>3
<1>6. CASE SkipPost
  BY <1>5, <1>6 DEF SkipPost
<1>7. CASE KeepSegment
  BY <1>5, <1>7 DEF KeepSegment
<1>8. CASE SplitSegment
  <2>1. outcome' = "pending"
    BY <1>8, VisitedPost DEF SplitSegment, FitCodeInv
  <2> QED
    BY <1>2, <1>8, <2>1, SplitIsCodable
<1>9. CASE AnswerFit
  <2>1. outcome' = "fitted"
    BY <1>9 DEF AnswerFit
  <2> QED
    BY <1>1, <1>9, <2>1, AnswerIsCodable DEF FitCodeInv
<1>10. CASE UNCHANGED fitVars
  <2>1. UNCHANGED <<xs, bins, order, fits, turn, fitA, fitB, lowOf, highOf, memo, outcome, output>>
    BY <1>10 DEF fitVars, spectrumVars
  <2>2. Posts' = Posts
    BY <2>1 DEF Posts
  <2>3. (outcome = "pending" => HeightsInRange /\ (turn > 2 => StraightKept))'
    BY <2>1, <2>2 DEF FitCodeInv, HeightsInRange, StraightKept, LineKept, OnLine
  <2>4. FitIsCodable'
    BY <2>1, <2>2 DEF FitCodeInv, FitIsCodable, OnLine
  <2> QED
    BY <1>1, <2>3, <2>4 DEF FitCodeInv
<1> QED
  BY <1>3, <1>4, <1>6, <1>7, <1>8, <1>9, <1>10 DEF FitNext

\* Whatever the spectrum and the posts, what a packet is written from can be
\* written and read back: the ends and every used post are levels, an unused one
\* is where a decoder predicts it and no used one is; and a spectrum that is a
\* line is fitted by that line without a post between its ends (floor_fit.rs:441-462).
THEOREM FitAlwaysCodable == FitSpec => []FitIsCodable
<1>1. FitInit => FitCodeInv
  BY DEF FitInit, FitInv, FitNeighboursEnclose, Visiting, FitCodeInv, FitIsCodable
<1>2. FitCodeInv => FitIsCodable
  BY DEF FitCodeInv
<1> QED
  BY <1>1, <1>2, CodableStep, PTL DEF FitSpec

-----------------------------------------------------------------------------
(* The rings of the transient detector. *)

\* The energy of a channel in quantum q; silence before the start.
EnergyAt(q, c) == IF q < 1 THEN 0 ELSE heard[q][c].energy

DetectorTyped ==
    /\ cooldown \in Int /\ cooldown >= -1
    /\ heard \in Seq(Sounds)
    /\ words \in Seq(SUBSET {1, 2, 4}) /\ Len(words) = Len(heard)
    /\ bands \in [Channel -> [Band -> [0 .. BandSlots - 1 -> Int]]]
    /\ energies \in [Channel -> [0 .. EnergySlots - 1 -> Int]]
    /\ sums \in [Channel -> [last : Int, sum : Int]]
    /\ averaged \in [Channel -> Int]

\* A ring holds, where its cursor was, each of the quanta a lap goes back.
BandsRemember ==
    \A c \in Channel, b \in Band : \A p \in Quanta - BandSlots + 1 .. Quanta :
        bands[c][b][(p - 1) % BandSlots] = LevelAt(p, c, b)

EnergiesRemember ==
    \A c \in Channel : \A p \in Quanta - EnergySlots + 1 .. Quanta :
        energies[c][(p - 1) % EnergySlots] = EnergyAt(p, c)

\* Where the last lap of the energy ring began.
LapStart == IF Quanta = 0 THEN 0 ELSE Quanta - 1 - ((Quanta - 1) % EnergySlots)

\* The one sum is over the ring, the other over the lap.
SumsRemember ==
    \A c \in Channel :
        /\ sums[c].last = EnergyOf(heard, c, Quanta)
                            - EnergyOf(heard, c, Max({0, Quanta - EnergySlots}))
        /\ sums[c].sum = EnergyOf(heard, c, Quanta) - EnergyOf(heard, c, LapStart)

\* The window counts the quanta since the last rise.
WindowRemembers == HistoryWindow = WindowOf(Quanta + 1)

DetectorInv ==
    /\ DetectorTyped
    /\ BandsRemember
    /\ EnergiesRemember
    /\ SumsRemember
    /\ WindowRemembers
    /\ RingsRememberThePast

-----------------------------------------------------------------------------
(* Remainders.                                                             *)

\* Two numbers less than n apart have different remainders.
LEMMA RemaindersApart ==
    ASSUME NEW n \in Nat \ {0}, NEW a \in Int, NEW b \in Int, a < b, b - a < n
    PROVE  a % n # b % n
<1> SUFFICES ASSUME a % n = b % n PROVE FALSE
  OBVIOUS
<1>1. /\ a \div n \in Int /\ b \div n \in Int
      /\ a = n * (a \div n) + (a % n) /\ b = n * (b \div n) + (b % n)
      /\ a % n \in 0 .. n - 1
  BY DivideInt
<1>2. n * (a \div n) < n * (b \div n) + n /\ n * (b \div n) < n * (a \div n) + n
  <2>1. n * (a \div n) \in Int /\ n * (b \div n) \in Int
    BY <1>1
  <2> QED
    BY <1>1, <2>1
<1>3. a \div n = b \div n
  BY <1>1, <1>2, MultiplesApart
<1> QED
  BY <1>1, <1>3

\* Going back from a remainder is going back from its number.
LEMMA RemainderOfShifted ==
    ASSUME NEW n \in Nat \ {0}, NEW a \in Int, NEW k \in Int
    PROVE  ((a % n) - k) % n = (a - k) % n
<1> DEFINE low == (a % n) - k
           d == a \div n + low \div n
           r == low % n
<1>1. /\ a \div n \in Int /\ a % n \in 0 .. n - 1
      /\ a = n * (a \div n) + (a % n)
  BY DivideInt
<1>2. low \in Int
  BY <1>1
<1>3. low \div n \in Int /\ r \in 0 .. n - 1 /\ low = n * (low \div n) + r
  BY <1>2, DivideInt
<1>4. n * d = n * (a \div n) + n * (low \div n)
  BY <1>1, <1>3
<1>5. a - k = n * d + r
  BY <1>1, <1>3, <1>4
<1>6. d \in Int
  BY <1>1, <1>3
<1> HIDE DEF d, r
<1>7. (a - k) % n = r
  BY <1>3, <1>5, <1>6, RemainderUnique
<1> QED
  BY <1>7 DEF r

-----------------------------------------------------------------------------
(* Rings.                                                                  *)

\* A ring of n slots after q values, the oldest of them before the first.
Remembers(ring, n, q, past) ==
    /\ ring \in [0 .. n - 1 -> Int]
    /\ \A p \in q - n + 1 .. q : ring[(p - 1) % n] = past[p]

\* Looking k slots back from the cursor finds the value k values ago.
ReadsBack(ring, n, q, past) ==
    \A k \in 1 .. n : ring[((q % n) - k) % n] = past[q + 1 - k]

LEMMA RingRead ==
    ASSUME NEW n \in Nat \ {0}, NEW q \in Nat, NEW ring, NEW past,
           Remembers(ring, n, q, past)
    PROVE  ReadsBack(ring, n, q, past)
<1>1. ASSUME NEW k \in 1 .. n
      PROVE  ring[((q % n) - k) % n] = past[q + 1 - k]
  <2>1. ((q % n) - k) % n = (q - k) % n
    BY RemainderOfShifted
  <2>2. q + 1 - k \in q - n + 1 .. q
    OBVIOUS
  <2>3. ring[((q + 1 - k) - 1) % n] = past[q + 1 - k]
    BY <2>2 DEF Remembers
  <2>4. (q + 1 - k) - 1 = q - k
    OBVIOUS
  <2> QED
    BY <2>1, <2>3, <2>4
<1> QED
  BY <1>1 DEF ReadsBack

\* At the cursor is the oldest value.
LEMMA RingOldest ==
    ASSUME NEW n \in Nat \ {0}, NEW q \in Nat, NEW ring, NEW past,
           Remembers(ring, n, q, past)
    PROVE  q % n \in 0 .. n - 1 /\ ring[q % n] = past[q + 1 - n]
<1>1. q % n \in 0 .. n - 1
  BY DivideInt
<1>2. (q % n) - n = n * (-1) + (q % n)
  BY <1>1
<1>3. ((q % n) - n) % n = q % n
  BY <1>1, <1>2, RemainderUnique
<1>4. n \in 1 .. n
  OBVIOUS
<1>5. ring[((q % n) - n) % n] = past[q + 1 - n]
  BY <1>4, RingRead DEF ReadsBack
<1> QED
  BY <1>1, <1>3, <1>5

\* Writing at the cursor replaces the oldest value by the newest.
LEMMA RingWrite ==
    ASSUME NEW n \in Nat \ {0}, NEW q \in Nat, NEW ring, NEW past, NEW later,
           NEW v \in Int, Remembers(ring, n, q, past),
           later[q + 1] = v, \A p \in q - n + 1 .. q : later[p] = past[p]
    PROVE  Remembers([ring EXCEPT ![q % n] = v], n, q + 1, later)
<1> DEFINE new == [ring EXCEPT ![q % n] = v]
<1>1. q % n \in 0 .. n - 1
  BY DivideInt
<1>2. new \in [0 .. n - 1 -> Int]
  BY <1>1 DEF Remembers
<1>3. ASSUME NEW p \in (q + 1) - n + 1 .. q + 1 PROVE new[(p - 1) % n] = later[p]
  <2>1. PICK a \in Int : a = p - 1
    OBVIOUS
  <2>2. a % n \in 0 .. n - 1
    BY DivideInt
  <2>3. CASE p = q + 1
    <3>1. a = q
      BY <2>1, <2>3
    <3> QED
      BY <1>1, <2>1, <2>3, <3>1 DEF Remembers
  <2>4. CASE p # q + 1
    <3>1. q \in Int /\ a < q /\ q - a < n /\ p \in q - n + 1 .. q
      BY <2>1, <2>4
    <3>2. a % n # q % n
      BY <3>1, RemaindersApart
    <3>3. new[a % n] = ring[a % n]
      BY <2>2, <3>2 DEF Remembers
    <3>4. ring[a % n] = past[p] /\ later[p] = past[p]
      BY <2>1, <3>1 DEF Remembers
    <3> QED
      BY <2>1, <3>3, <3>4
  <2> QED
    BY <2>3, <2>4
<1> HIDE DEF new
<1>4. Remembers(new, n, q + 1, later)
  BY <1>2, <1>3 DEF Remembers
<1> QED
  BY <1>4 DEF new

-----------------------------------------------------------------------------
(* What was heard.                                                         *)

\* A sound of every channel has an energy and a level for every band.
LEMMA HeardSound ==
    ASSUME NEW s \in Seq(Sounds), NEW q \in 1 .. Len(s), NEW c \in Channel
    PROVE  /\ s[q] \in Sounds
           /\ s[q][c].energy \in Int
           /\ \A b \in Band : s[q][c].levels[b] \in Int
<1>1. s[q] \in Sounds
  BY ElementOfSeq
<1>2. s[q] \in [Channel -> [energy : Int, levels : [Band -> Int]]]
  BY <1>1, DetectorAssumption DEF Channel, Band
<1> QED
  BY <1>1, <1>2

\* The energies add up quantum by quantum.
LEMMA EnergySteps ==
    ASSUME NEW s \in Seq(Sounds), NEW c \in Channel
    PROVE  /\ EnergyOf(s, c, 0) = 0
           /\ \A q \in 0 .. Len(s) : EnergyOf(s, c, q) \in Int
           /\ \A q \in 1 .. Len(s) :
                 EnergyOf(s, c, q) = EnergyOf(s, c, q - 1) + s[q][c].energy
<1> DEFINE n == Len(s)
           gain(q) == s[q][c].energy
           unfolds(m, g) == g = [q \in 0 .. m |-> IF q = 0 THEN 0 ELSE g[q - 1] + gain(q)]
<1>1. n \in Nat
  BY LenProperties
<1>2. ASSUME NEW q \in 1 .. n PROVE gain(q) \in Int
  BY HeardSound
<1>3. ASSUME NEW m \in 0 .. n PROVE EnergyOf(s, c, m) = (CHOOSE g : unfolds(m, g))[m]
  BY DEF EnergyOf
<1> HIDE DEF gain
<1> DEFINE step == [q \in 1 .. n |-> [v \in Int |-> v + gain(q)]]
<1>4. step \in [1 .. n -> [Int -> Int]]
  BY <1>2
<1>5. PICK e \in [0 .. n -> Int] : e[0] = 0 /\ \A q \in 1 .. n : e[q] = step[q][e[q - 1]]
  <2>1. Recursion(Int, 0, n, step)
    BY <1>1, <1>4 DEF Recursion
  <2> HIDE DEF step
  <2>2. PICK e : Unfolds(Int, 0, n, step, e)
    BY <2>1, NatRecursion, Zenon
  <2> QED
    BY <2>2 DEF Unfolds
<1>6. \A q \in 1 .. n : e[q] = e[q - 1] + gain(q)
  <2> SUFFICES ASSUME NEW q \in 1 .. n PROVE e[q] = e[q - 1] + gain(q)
    OBVIOUS
  <2>1. q - 1 \in 0 .. n /\ e[q - 1] \in Int
    BY <1>1
  <2> QED
    BY <1>5, <2>1
<1>7. ASSUME NEW m \in 0 .. n PROVE EnergyOf(s, c, m) = e[m]
  <2> DEFINE g0 == [q \in 0 .. m |-> e[q]]
  <2>1. unfolds(m, g0)
    <3>1. ASSUME NEW q \in 0 .. m PROVE e[q] = IF q = 0 THEN 0 ELSE g0[q - 1] + gain(q)
      <4>1. CASE q = 0
        BY <1>5, <4>1
      <4>2. CASE q # 0
        <5>1. q \in 1 .. n /\ q - 1 \in 0 .. m
          BY <1>1, <4>2
        <5> QED
          BY <1>6, <4>2, <5>1
      <4> QED
        BY <4>1, <4>2
    <3> QED
      BY <3>1
  <2> DEFINE h == CHOOSE g : unfolds(m, g)
  <2>2. unfolds(m, h)
    BY <2>1
  <2> HIDE DEF h
  <2> DEFINE same == {k \in Nat : k <= m => h[k] = e[k]}
  <2>3. 0 \in same
    BY <1>5, <2>2
  <2>4. ASSUME NEW k \in Nat, k \in same PROVE k + 1 \in same
    <3> SUFFICES ASSUME k + 1 <= m PROVE h[k + 1] = e[k + 1]
      OBVIOUS
    <3>1. k + 1 \in 1 .. n /\ k + 1 \in 0 .. m /\ (k + 1) - 1 = k /\ k <= m
      BY <1>1
    <3>2. h[k + 1] = h[k] + gain(k + 1)
      BY <2>2, <3>1
    <3> QED
      BY <1>6, <2>4, <3>1, <3>2
  <2> HIDE DEF same
  <2>5. m \in same
    BY <2>3, <2>4, NatInduct
  <2> QED
    BY <1>3, <2>5 DEF same, h
<1>8. EnergyOf(s, c, 0) = 0
  BY <1>1, <1>5, <1>7
<1>9. \A q \in 0 .. n : EnergyOf(s, c, q) \in Int
  BY <1>7
<1>10. ASSUME NEW q \in 1 .. n
       PROVE  EnergyOf(s, c, q) = EnergyOf(s, c, q - 1) + gain(q)
  <2>1. q - 1 \in 0 .. n /\ q \in 0 .. n
    BY <1>1
  <2> QED
    BY <1>6, <1>7, <2>1
<1> QED
  BY <1>8, <1>9, <1>10 DEF gain

\* Hearing more leaves what the quanta before added up to.
LEMMA EnergyAppended ==
    ASSUME NEW s \in Seq(Sounds), NEW sound \in Sounds, NEW c \in Channel
    PROVE  \A q \in 0 .. Len(s) : EnergyOf(Append(s, sound), c, q) = EnergyOf(s, c, q)
<1> DEFINE t == Append(s, sound)
           same == {q \in Nat : q <= Len(s) => EnergyOf(t, c, q) = EnergyOf(s, c, q)}
<1>1. t \in Seq(Sounds) /\ Len(t) = Len(s) + 1 /\ Len(s) \in Nat
      /\ \A q \in 1 .. Len(s) : t[q] = s[q]
  BY AppendProperties, LenProperties
<1> HIDE DEF t
<1>2. 0 \in same
  BY <1>1, EnergySteps
<1>3. ASSUME NEW q \in Nat, q \in same PROVE q + 1 \in same
  <2> SUFFICES ASSUME q + 1 <= Len(s) PROVE EnergyOf(t, c, q + 1) = EnergyOf(s, c, q + 1)
    OBVIOUS
  <2>1. q + 1 \in 1 .. Len(s) /\ q + 1 \in 1 .. Len(t) /\ (q + 1) - 1 = q /\ q <= Len(s)
    BY <1>1
  <2>2. EnergyOf(t, c, q + 1) = EnergyOf(t, c, q) + t[q + 1][c].energy
    BY <1>1, <2>1, EnergySteps
  <2>3. EnergyOf(s, c, q + 1) = EnergyOf(s, c, q) + s[q + 1][c].energy
    BY <2>1, EnergySteps
  <2> QED
    BY <1>1, <1>3, <2>1, <2>2, <2>3
<1> HIDE DEF same
<1>4. \A q \in Nat : q \in same
  BY <1>2, <1>3, NatInduct
<1> QED
  BY <1>1, <1>4 DEF same, t

-----------------------------------------------------------------------------
(* The quiet before a quantum.                                             *)

LEMMA GreatestIs ==
    ASSUME NEW S \in SUBSET Int, NEW m \in S, \A x \in S : x <= m
    PROVE  Max(S) = m
<1>1. \A x \in S : m >= x
  OBVIOUS
<1>2. \A y \in S : (\A x \in S : y >= x) => y = m
  OBVIOUS
<1> QED
  BY <1>1, <1>2 DEF Max

LEMMA LeastIs ==
    ASSUME NEW S \in SUBSET Int, NEW m \in S, \A x \in S : m <= x
    PROVE  Min(S) = m
<1>1. \A y \in S : (\A x \in S : y <= x) => y = m
  OBVIOUS
<1> QED
  BY <1>1 DEF Min

LEMMA GreatestOfTwo ==
    ASSUME NEW a \in Int, NEW b \in Int
    PROVE  Max({a, b}) = IF a >= b THEN a ELSE b
<1> DEFINE m == IF a >= b THEN a ELSE b
<1>1. m \in {a, b} /\ \A x \in {a, b} : x <= m
  OBVIOUS
<1> QED
  BY <1>1, GreatestIs

LEMMA LeastOfTwo ==
    ASSUME NEW a \in Int, NEW b \in Int
    PROVE  Min({a, b}) = IF a <= b THEN a ELSE b
<1> DEFINE m == IF a <= b THEN a ELSE b
<1>1. m \in {a, b} /\ \A x \in {a, b} : m <= x
  OBVIOUS
<1> QED
  BY <1>1, LeastIs

\* The quanta before quantum q that had a rise, and one before the start.
RisesBefore(q) == {-1} \cup {p \in 1 .. q - 1 : 4 \in words[p]}

\* There is a last rise.
LEMMA LastRise ==
    ASSUME NEW q \in Nat \ {0}
    PROVE  /\ Max(RisesBefore(q)) \in RisesBefore(q)
           /\ \A p \in RisesBefore(q) : p <= Max(RisesBefore(q))
           /\ Max(RisesBefore(q)) \in -1 .. q - 1
<1> DEFINE rises == RisesBefore(q)
           up == {p + 1 : p \in rises}
<1>1. rises \subseteq -1 .. q - 1 /\ -1 \in rises
  BY DEF RisesBefore
<1> HIDE DEF rises
<1>2. up \subseteq Nat /\ up # {} /\ \A x \in up : x <= q
  BY <1>1
<1>3. PICK x \in up : \A y \in up : y <= x
  BY <1>2, NatGreatest
<1>4. PICK m \in rises : x = m + 1
  BY <1>3
<1>5. \A p \in rises : p <= m
  <2> SUFFICES ASSUME NEW p \in rises PROVE p <= m
    OBVIOUS
  <2>1. p + 1 \in up
    OBVIOUS
  <2>2. p + 1 <= m + 1
    BY <1>3, <1>4, <2>1
  <2> QED
    BY <1>1, <2>2
<1>6. rises \in SUBSET Int
  BY <1>1
<1>7. Max(rises) = m
  BY <1>5, <1>6, GreatestIs
<1> QED
  BY <1>1, <1>5, <1>7 DEF rises

-----------------------------------------------------------------------------
(* What hearing a quantum does.                                            *)

\* The constants, and the sizes the code relies on.
LEMMA Slots ==
    /\ EnergySlots \in Nat \ {0} /\ BandSlots \in Nat \ {0} /\ QuietLimit \in Nat
    /\ \A window \in 0 .. QuietLimit : Reach(window) \in Nat /\ Reach(window) + 1 <= BandSlots
<1>1. QuietLimit \div 2 \in Nat /\ 2 < BandSlots
  BY DetectorAssumption
<1>2. ASSUME NEW window \in 0 .. QuietLimit
      PROVE  Reach(window) \in Nat /\ Reach(window) + 1 <= BandSlots
  <2>1. window \div 2 \in Nat /\ window \div 2 <= QuietLimit \div 2
    BY DetectorAssumption
  <2>2. Reach(window) = IF 2 >= window \div 2 THEN 2 ELSE window \div 2
    BY <2>1, GreatestOfTwo DEF Reach
  <2> QED
    BY <1>1, <2>1, <2>2, DetectorAssumption
<1> QED
  BY <1>1, <1>2, DetectorAssumption

\* What is heard is appended to what was.
LEMMA Heard ==
    ASSUME DetectorTyped, NEW sound \in Sounds, HearQuantum(sound)
    PROVE  /\ Quanta \in Nat /\ Quanta' = Quanta + 1
           /\ heard' \in Seq(Sounds) /\ heard'[Quanta + 1] = sound
           /\ \A q \in 1 .. Quanta : heard'[q] = heard[q]
           /\ words' = Append(words, FlagWord(sound, HistoryWindow))
           /\ Len(words') = Quanta + 1
           /\ words'[Quanta + 1] = FlagWord(sound, HistoryWindow)
           /\ \A q \in 1 .. Quanta : words'[q] = words[q]
           /\ \A c \in Channel, b \in Band :
                 /\ \A q \in Int : q = Quanta + 1 => LevelAt(q, c, b)' = sound[c].levels[b]
                 /\ \A q \in Int : q <= Quanta => LevelAt(q, c, b)' = LevelAt(q, c, b)
           /\ \A c \in Channel :
                 /\ \A q \in Int : q = Quanta + 1 => EnergyAt(q, c)' = sound[c].energy
                 /\ \A q \in Int : q <= Quanta => EnergyAt(q, c)' = EnergyAt(q, c)
<1>1. heard' = Append(heard, sound) /\ words' = Append(words, FlagWord(sound, HistoryWindow))
  BY DEF HearQuantum
<1>2. /\ Quanta \in Nat /\ Quanta' = Quanta + 1
      /\ heard' \in Seq(Sounds) /\ heard'[Quanta + 1] = sound
      /\ \A q \in 1 .. Quanta : heard'[q] = heard[q]
  BY <1>1, AppendProperties, LenProperties DEF Quanta, DetectorTyped
<1>3. Len(words) = Quanta
  BY DEF DetectorTyped, Quanta
<1>4. /\ Len(words') = Quanta + 1
      /\ words'[Quanta + 1] = FlagWord(sound, HistoryWindow)
      /\ \A q \in 1 .. Quanta : words'[q] = words[q]
  <2> DEFINE word == FlagWord(sound, HistoryWindow)
             Words == (SUBSET {1, 2, 4}) \cup {word}
  <2>1. words \in Seq(Words) /\ word \in Words
    BY DEF DetectorTyped
  <2> HIDE DEF word, Words
  <2>2. words' = Append(words, word)
    BY <1>1 DEF word
  <2>3. /\ Len(words') = Len(words) + 1
        /\ words'[Len(words) + 1] = word
        /\ \A q \in 1 .. Len(words) : words'[q] = words[q]
    BY <2>1, <2>2, AppendProperties
  <2> QED
    BY <1>3, <2>3 DEF word
<1>5. ASSUME NEW c \in Channel, NEW b \in Band
      PROVE  /\ \A q \in Int : q = Quanta + 1 => LevelAt(q, c, b)' = sound[c].levels[b]
             /\ \A q \in Int : q <= Quanta => LevelAt(q, c, b)' = LevelAt(q, c, b)
  <2>1. ~(Quanta + 1 < 1)
    BY <1>2
  <2>2. ASSUME NEW q \in Int, q = Quanta + 1 PROVE LevelAt(q, c, b)' = sound[c].levels[b]
    BY <1>2, <2>1, <2>2 DEF LevelAt
  <2>3. ASSUME NEW q \in Int, q <= Quanta PROVE LevelAt(q, c, b)' = LevelAt(q, c, b)
    <3>1. q < 1 \/ q \in 1 .. Quanta
      BY <1>2, <2>3
    <3> QED
      BY <1>2, <3>1 DEF LevelAt
  <2> QED
    BY <1>2, <2>2, <2>3
<1>6. ASSUME NEW c \in Channel
      PROVE  /\ \A q \in Int : q = Quanta + 1 => EnergyAt(q, c)' = sound[c].energy
             /\ \A q \in Int : q <= Quanta => EnergyAt(q, c)' = EnergyAt(q, c)
  <2>1. ~(Quanta + 1 < 1)
    BY <1>2
  <2>2. ASSUME NEW q \in Int, q = Quanta + 1 PROVE EnergyAt(q, c)' = sound[c].energy
    BY <1>2, <2>1, <2>2 DEF EnergyAt
  <2>3. ASSUME NEW q \in Int, q <= Quanta PROVE EnergyAt(q, c)' = EnergyAt(q, c)
    <3>1. q < 1 \/ q \in 1 .. Quanta
      BY <1>2, <2>3
    <3> QED
      BY <1>2, <3>1 DEF EnergyAt
  <2> QED
    BY <1>2, <2>2, <2>3
<1> QED
  BY <1>1, <1>2, <1>4, <1>5, <1>6

\* The rings of the bands.
LEMMA HearBands ==
    ASSUME DetectorTyped, BandsRemember, NEW sound \in Sounds, HearQuantum(sound)
    PROVE  BandsRemember' /\ bands' \in [Channel -> [Band -> [0 .. BandSlots - 1 -> Int]]]
<1> DEFINE n == BandSlots
           q == Quanta
<1>1. n \in Nat \ {0} /\ q \in Nat /\ Quanta' = q + 1
  BY Slots, Heard
<1>2. ASSUME NEW c \in Channel, NEW b \in Band
      PROVE  /\ bands'[c][b] \in [0 .. n - 1 -> Int]
             /\ \A p \in (q + 1) - n + 1 .. q + 1 :
                   bands'[c][b][(p - 1) % n] = LevelAt(p, c, b)'
  <2> DEFINE ring == bands[c][b]
             past == [p \in Int |-> LevelAt(p, c, b)]
             later == [p \in Int |-> LevelAt(p, c, b)']
             v == sound[c].levels[b]
  <2>1. bands'[c][b] = [ring EXCEPT ![q % n] = v]
    BY DEF HearQuantum, BandCursor
  <2>2. ring \in [0 .. n - 1 -> Int]
    BY DEF DetectorTyped
  <2>3. \A p \in q - n + 1 .. q : ring[(p - 1) % n] = past[p]
    BY <1>1 DEF BandsRemember
  <2>4. v \in Int
    <3>1. sound \in [Channel -> [energy : Int, levels : [Band -> Int]]]
      BY DetectorAssumption DEF Channel, Band
    <3> QED
      BY <3>1
  <2>5. later[q + 1] = v /\ \A p \in q - n + 1 .. q : later[p] = past[p]
    <3>1. q + 1 \in Int /\ \A p \in q - n + 1 .. q : p \in Int /\ p <= q
      BY <1>1
    <3> QED
      BY <3>1, Heard
  <2> HIDE DEF n, q, ring, past, later, v
  <2>6. Remembers(ring, n, q, past)
    BY <2>2, <2>3 DEF Remembers
  <2>7. Remembers([ring EXCEPT ![q % n] = v], n, q + 1, later)
    BY <1>1, <2>4, <2>5, <2>6, RingWrite
  <2>8. /\ bands'[c][b] \in [0 .. n - 1 -> Int]
        /\ \A p \in (q + 1) - n + 1 .. q + 1 : bands'[c][b][(p - 1) % n] = later[p]
    BY <2>1, <2>7 DEF Remembers
  <2>9. \A p \in (q + 1) - n + 1 .. q + 1 : p \in Int
    BY <1>1
  <2> QED
    BY <2>8, <2>9 DEF later
<1>3. bands' \in [Channel -> [Band -> [0 .. n - 1 -> Int]]]
  <2>1. bands' = [c \in Channel |-> [b \in Band |-> bands'[c][b]]]
    BY DEF HearQuantum
  <2> QED
    BY <1>2, <2>1
<1> QED
  BY <1>1, <1>2, <1>3 DEF BandsRemember

\* The ring of the energies, and what was in the slot that is overwritten.
LEMMA HearEnergies ==
    ASSUME DetectorTyped, EnergiesRemember, NEW sound \in Sounds, HearQuantum(sound)
    PROVE  /\ EnergiesRemember'
           /\ energies' \in [Channel -> [0 .. EnergySlots - 1 -> Int]]
           /\ EnergyCursor \in 0 .. EnergySlots - 1
           /\ \A c \in Channel :
                 energies[c][EnergyCursor] = EnergyAt(Quanta + 1 - EnergySlots, c)
<1> DEFINE n == EnergySlots
           q == Quanta
<1>1. n \in Nat \ {0} /\ q \in Nat /\ Quanta' = q + 1
  BY Slots, Heard
<1>2. ASSUME NEW c \in Channel
      PROVE  /\ energies'[c] \in [0 .. n - 1 -> Int]
             /\ \A p \in (q + 1) - n + 1 .. q + 1 :
                   energies'[c][(p - 1) % n] = EnergyAt(p, c)'
             /\ energies[c][q % n] = EnergyAt(q + 1 - n, c)
  <2> DEFINE ring == energies[c]
             past == [p \in Int |-> EnergyAt(p, c)]
             later == [p \in Int |-> EnergyAt(p, c)']
             v == sound[c].energy
  <2>1. energies'[c] = [ring EXCEPT ![q % n] = v]
    BY DEF HearQuantum, EnergyCursor
  <2>2. ring \in [0 .. n - 1 -> Int]
    BY DEF DetectorTyped
  <2>3. \A p \in q - n + 1 .. q : ring[(p - 1) % n] = past[p]
    BY <1>1 DEF EnergiesRemember
  <2>4. v \in Int
    <3>1. sound \in [Channel -> [energy : Int, levels : [Band -> Int]]]
      BY DetectorAssumption DEF Channel, Band
    <3> QED
      BY <3>1
  <2>5. later[q + 1] = v /\ \A p \in q - n + 1 .. q : later[p] = past[p]
    <3>1. q + 1 \in Int /\ \A p \in q - n + 1 .. q : p \in Int /\ p <= q
      BY <1>1
    <3> QED
      BY <3>1, Heard
  <2> HIDE DEF n, q, ring, past, later, v
  <2>6. Remembers(ring, n, q, past)
    BY <2>2, <2>3 DEF Remembers
  <2>7. Remembers([ring EXCEPT ![q % n] = v], n, q + 1, later)
    BY <1>1, <2>4, <2>5, <2>6, RingWrite
  <2>8. /\ energies'[c] \in [0 .. n - 1 -> Int]
        /\ \A p \in (q + 1) - n + 1 .. q + 1 : energies'[c][(p - 1) % n] = later[p]
    BY <2>1, <2>7 DEF Remembers
  <2>9. (\A p \in (q + 1) - n + 1 .. q + 1 : p \in Int) /\ q + 1 - n \in Int
    BY <1>1
  <2>10. ring[q % n] = past[q + 1 - n]
    BY <1>1, <2>6, RingOldest
  <2> QED
    BY <2>8, <2>9, <2>10 DEF later, past, ring
<1>3. energies' \in [Channel -> [0 .. n - 1 -> Int]]
  <2>1. energies' = [c \in Channel |-> energies'[c]]
    BY DEF HearQuantum
  <2> QED
    BY <1>2, <2>1
<1>4. q % n \in 0 .. n - 1
  BY <1>1, DivideInt
<1> QED
  BY <1>1, <1>2, <1>3, <1>4 DEF EnergiesRemember, EnergyCursor

\* The remainder before this one, and how far it goes back.
LEMMA RemainderBefore ==
    ASSUME NEW n \in Nat \ {0}, NEW q \in Nat \ {0}
    PROVE  /\ (q - 1) % n = IF q % n = 0 THEN n - 1 ELSE (q % n) - 1
           /\ (q - 1) % n <= q - 1
           /\ q % n = 0 => q >= n
<1>1. /\ q \div n \in Int /\ q % n \in 0 .. n - 1
      /\ q = n * (q \div n) + (q % n)
  BY DivideInt
<1>2. PICK d \in Int : d = q \div n
  BY <1>1
<1>3. PICK r \in 0 .. n - 1 : r = q % n
  BY <1>1
<1>4. q = n * d + r
  BY <1>1, <1>2, <1>3
<1>5. PICK a \in Int : a = q - 1 /\ a >= 0
  OBVIOUS
<1>6. ASSUME r = 0 PROVE a % n = n - 1 /\ q >= n
  <2>1. n * (d - 1) = n * d - n
    BY <1>2
  <2>2. a = n * (d - 1) + (n - 1)
    BY <1>4, <1>5, <1>6, <2>1
  <2>3. d - 1 \in Int /\ n - 1 \in 0 .. n - 1
    BY <1>2
  <2>4. a % n = n - 1
    BY <1>5, <2>2, <2>3, RemainderUnique
  <2>5. d >= 1
    <3>1. CASE d <= 0
      <4>1. n * d <= 0
        BY <3>1
      <4> QED
        BY <1>4, <1>6, <4>1
    <3> QED
      BY <3>1
  <2>6. n * d >= n
    BY <2>5
  <2> QED
    BY <1>4, <1>6, <2>4, <2>6
<1>7. ASSUME r # 0 PROVE a % n = r - 1
  <2>1. a = n * d + (r - 1)
    <3>1. n * d \in Int
      OBVIOUS
    <3> QED
      BY <1>4, <1>5, <3>1
  <2>2. r - 1 \in 0 .. n - 1
    BY <1>7
  <2> QED
    BY <1>5, <2>1, <2>2, RemainderUnique
<1>8. a % n <= a
  <2>1. /\ a \div n \in Int /\ a % n \in 0 .. n - 1
        /\ a = n * (a \div n) + (a % n)
    BY <1>5, DivideInt
  <2>2. a \div n >= 0
    <3>1. CASE a \div n <= -1
      <4>1. n * (a \div n) <= -n
        BY <2>1, <3>1
      <4>2. n * (a \div n) \in Int
        BY <2>1
      <4> QED
        BY <1>5, <2>1, <4>1, <4>2
    <3> QED
      BY <2>1, <3>1
  <2>3. n * (a \div n) >= 0
    BY <2>1, <2>2
  <2>4. n * (a \div n) \in Int
    BY <2>1
  <2> QED
    BY <2>1, <2>3, <2>4
<1> QED
  BY <1>3, <1>5, <1>6, <1>7, <1>8

\* The two sums, and what the floor is averaged over.
LEMMA HearSums ==
    ASSUME DetectorTyped, EnergiesRemember, SumsRemember,
           NEW sound \in Sounds, HearQuantum(sound)
    PROVE  /\ SumsRemember'
           /\ sums' \in [Channel -> [last : Int, sum : Int]]
           /\ averaged' \in [Channel -> Int]
           /\ \A c \in Channel :
                 averaged'[c] = EnergyOf(heard', c, Quanta')
                                 - EnergyOf(heard', c, Max({0, Quanta' - EnergySlots - 1}))
<1> DEFINE n == EnergySlots
           q == Quanta
           back == IF q - n >= 0 THEN q - n ELSE 0
           forth == IF q + 1 - n >= 0 THEN q + 1 - n ELSE 0
<1>1. n \in Nat \ {0} /\ q \in Nat /\ Quanta' = q + 1
  BY Slots, Heard
<1>2. /\ Max({0, Quanta - EnergySlots}) = back
      /\ Max({0, Quanta' - EnergySlots - 1}) = back
      /\ Max({0, Quanta' - EnergySlots}) = forth
  <2>1. ASSUME NEW x \in Int PROVE Max({0, x}) = IF x >= 0 THEN x ELSE 0
    BY GreatestOfTwo
  <2>2. q - n \in Int /\ (q + 1) - n - 1 = q - n /\ q + 1 - n \in Int
    BY <1>1
  <2> QED
    BY <1>1, <2>1, <2>2
<1>3. back \in 0 .. q /\ forth \in 0 .. q /\ LapStart \in 0 .. q
  <2>1. back \in 0 .. q /\ forth \in 0 .. q
    BY <1>1
  <2>2. CASE q = 0
    BY <2>1, <2>2 DEF LapStart
  <2>3. CASE q # 0
    <3>1. (q - 1) % n <= q - 1
      BY <1>1, <2>3, RemainderBefore
    <3>2. (q - 1) % n \in 0 .. n - 1
      <4>1. q - 1 \in Int
        BY <1>1
      <4> QED
        BY <1>1, <4>1, DivideInt
    <3>3. LapStart = q - 1 - ((q - 1) % n)
      BY <2>3 DEF LapStart
    <3> QED
      BY <1>1, <2>1, <3>1, <3>2, <3>3
  <2> QED
    BY <2>2, <2>3
<1>4. q % n = 0 => LapStart = back
  <2> SUFFICES ASSUME q % n = 0 PROVE LapStart = back
    OBVIOUS
  <2>1. CASE q = 0
    BY <1>1, <2>1 DEF LapStart
  <2>2. CASE q # 0
    <3>1. (q - 1) % n = n - 1 /\ q >= n
      BY <1>1, <2>2, RemainderBefore
    <3>2. LapStart = q - 1 - ((q - 1) % n)
      BY <2>2 DEF LapStart
    <3> QED
      BY <1>1, <3>1, <3>2
  <2> QED
    BY <2>1, <2>2
<1>5. LapStart' = q - (q % n)
  <2>1. LapStart' = (q + 1) - 1 - (((q + 1) - 1) % n)
    BY <1>1 DEF LapStart
  <2>2. (q + 1) - 1 = q
    BY <1>1
  <2> QED
    BY <2>1, <2>2
<1>6. q % n # 0 => LapStart' = LapStart
  <2> SUFFICES ASSUME q % n # 0 PROVE LapStart' = LapStart
    OBVIOUS
  <2>1. q # 0
    <3>1. 0 = n * 0 + 0 /\ 0 \in 0 .. n - 1 /\ 0 \in Int
      BY <1>1
    <3>2. 0 % n = 0
      BY <1>1, <3>1, RemainderUnique
    <3> QED
      BY <3>2
  <2>2. (q - 1) % n = (q % n) - 1
    BY <1>1, <2>1, RemainderBefore
  <2>3. LapStart = q - 1 - ((q - 1) % n)
    BY <2>1 DEF LapStart
  <2>4. q % n \in 0 .. n - 1
    BY <1>1, DivideInt
  <2> QED
    BY <1>1, <1>5, <2>2, <2>3, <2>4
<1>7. ASSUME NEW c \in Channel
      PROVE  LET e == sound[c].energy
                 source == EnergySource(sums[c], e)
             IN  /\ source \in Int /\ averaged'[c] = source
                 /\ sums'[c] \in [last : Int, sum : Int]
                 /\ source = EnergyOf(heard', c, Quanta') - EnergyOf(heard', c, back)
                 /\ sums'[c].last = EnergyOf(heard', c, Quanta')
                                     - EnergyOf(heard', c, forth)
                 /\ sums'[c].sum = EnergyOf(heard', c, Quanta')
                                     - EnergyOf(heard', c, LapStart')
  <2> DEFINE e == sound[c].energy
             source == EnergySource(sums[c], e)
             old == energies[c][EnergyCursor]
             T(k) == EnergyOf(heard, c, k)
             U(k) == EnergyOf(heard', c, k)
  <2>1. e \in Int
    <3>1. sound \in [Channel -> [energy : Int, levels : [Band -> Int]]]
      BY DetectorAssumption DEF Channel, Band
    <3> QED
      BY <3>1
  <2>2. /\ sums'[c].last = source - old
        /\ sums'[c].sum = IF q % n # 0 THEN sums[c].sum + e ELSE e
        /\ sums'[c] = [last |-> source - old,
                       sum |-> IF q % n # 0 THEN sums[c].sum + e ELSE e]
        /\ averaged'[c] = source
    BY DEF HearQuantum, EnergyCursor
  <2>3. source = IF q % n # 0 THEN sums[c].last + e ELSE sums[c].sum + e
    BY DEF EnergySource, EnergyCursor
  <2>4. sums[c].last = T(q) - T(back) /\ sums[c].sum = T(q) - T(LapStart)
    BY <1>2 DEF SumsRemember
  <2>5. /\ heard \in Seq(Sounds) /\ Len(heard) = q
        /\ \A k \in 0 .. q : T(k) \in Int
        /\ \A k \in 0 .. q : U(k) = T(k)
        /\ U(q + 1) = U(q) + e
    <3>1. heard \in Seq(Sounds) /\ Len(heard) = q /\ heard' = Append(heard, sound)
      BY DEF DetectorTyped, Quanta, HearQuantum
    <3>2. \A k \in 0 .. q : T(k) \in Int
      BY <3>1, EnergySteps
    <3>3. \A k \in 0 .. q : U(k) = T(k)
      BY <3>1, EnergyAppended
    <3>4. heard' \in Seq(Sounds) /\ Len(heard') = q + 1 /\ heard'[q + 1] = sound
      BY <1>1, Heard DEF Quanta
    <3>5. U(q + 1) = U((q + 1) - 1) + heard'[q + 1][c].energy
      <4>1. q + 1 \in 1 .. Len(heard')
        BY <1>1, <3>4
      <4> QED
        BY <3>4, <4>1, EnergySteps
    <3>6. (q + 1) - 1 = q
      BY <1>1
    <3> QED
      BY <3>1, <3>2, <3>3, <3>4, <3>5, <3>6
  <2>6. old \in Int /\ T(forth) = T(back) + old
    <3>1. old = EnergyAt(q + 1 - n, c)
      BY HearEnergies
    <3>2. CASE q + 1 - n < 1
      <4>1. old = 0
        BY <3>1, <3>2 DEF EnergyAt
      <4>2. back = 0 /\ forth = 0
        BY <1>1, <3>2
      <4> QED
        BY <1>3, <2>5, <4>1, <4>2
    <3>3. CASE ~(q + 1 - n < 1)
      <4>1. old = heard[q + 1 - n][c].energy
        BY <3>1, <3>3 DEF EnergyAt
      <4>2. q + 1 - n \in 1 .. Len(heard) /\ (q + 1 - n) - 1 = q - n
            /\ back = q - n /\ forth = q + 1 - n
        BY <1>1, <2>5, <3>3
      <4>3. T(q + 1 - n) = T((q + 1 - n) - 1) + heard[q + 1 - n][c].energy
        BY <2>5, <4>2, EnergySteps
      <4>4. old \in Int
        BY <2>5, <4>1, <4>2, HeardSound
      <4> QED
        BY <4>1, <4>2, <4>3, <4>4
    <3> QED
      BY <3>2, <3>3
  <2>7. T(q) \in Int /\ T(back) \in Int /\ T(LapStart) \in Int /\ T(forth) \in Int
        /\ U(q) = T(q) /\ U(back) = T(back) /\ U(LapStart) = T(LapStart)
        /\ U(forth) = T(forth)
    <3>1. q \in 0 .. q
      BY <1>1
    <3> QED
      BY <1>3, <2>5, <3>1
  <2> HIDE DEF e, source, old, T, U, back, forth, q, n
  <2>8. source \in Int /\ source = U(q + 1) - U(back)
    BY <1>4, <2>1, <2>3, <2>4, <2>5, <2>7
  <2>9. source - old = U(q + 1) - U(forth) /\ source - old \in Int
    BY <2>6, <2>7, <2>8, <2>1, <2>5
  <2>10. CASE q % n # 0
    <3>1. U(LapStart') = T(LapStart)
      BY <1>6, <2>7, <2>10
    <3>2. sums'[c].sum = U(q + 1) - U(LapStart') /\ sums'[c].sum \in Int
      BY <2>1, <2>2, <2>4, <2>5, <2>7, <2>10, <3>1
    <3> QED
      BY <1>1, <2>2, <2>8, <2>9, <2>10, <3>2 DEF e, source, T, U
  <2>11. CASE q % n = 0
    <3>1. LapStart' = q
      BY <1>1, <1>5, <2>11
    <3>2. sums'[c].sum = U(q + 1) - U(LapStart') /\ sums'[c].sum \in Int
      BY <2>1, <2>2, <2>5, <2>7, <2>11, <3>1
    <3> QED
      BY <1>1, <2>2, <2>8, <2>9, <2>11, <3>2 DEF e, source, T, U
  <2> QED
    BY <2>10, <2>11
<1>8. SumsRemember'
  BY <1>2, <1>7 DEF SumsRemember
<1>9. /\ sums' \in [Channel -> [last : Int, sum : Int]]
      /\ averaged' \in [Channel -> Int]
  <2>1. sums' = [c \in Channel |-> sums'[c]] /\ averaged' = [c \in Channel |-> averaged'[c]]
    BY DEF HearQuantum
  <2>2. ASSUME NEW c \in Channel
        PROVE  sums'[c] \in [last : Int, sum : Int] /\ averaged'[c] \in Int
    BY <1>7
  <2> QED
    BY <2>1, <2>2
<1> QED
  BY <1>2, <1>7, <1>8, <1>9

\* A rise sets bits 1 and 4 together, in any band.
LEMMA WordBits ==
    ASSUME NEW sound, NEW window
    PROVE  LET word == FlagWord(sound, window)
               flags(c, b) == BandFlags(bands[c][b], sound[c].levels[b], window)
           IN  /\ word \in SUBSET {1, 2, 4}
               /\ 4 \in word <=> 1 \in word
               /\ 1 \in word <=> \E c \in Channel, b \in Band : 1 \in flags(c, b)
               /\ 2 \in word <=> \E c \in Channel, b \in Band : 2 \in flags(c, b)
<1> DEFINE word == FlagWord(sound, window)
           flags(c, b) == BandFlags(bands[c][b], sound[c].levels[b], window)
<1>1. ASSUME NEW c \in Channel, NEW b \in Band
      PROVE  flags(c, b) \in SUBSET {1, 2, 4} /\ (4 \in flags(c, b) <=> 1 \in flags(c, b))
  BY DEF BandFlags
<1>2. word = UNION {flags(c, b) : c \in Channel, b \in Band}
  BY DEF FlagWord
<1> HIDE DEF word, flags
<1>3. \A x : x \in word <=> \E c \in Channel, b \in Band : x \in flags(c, b)
  BY <1>2
<1>4. word \in SUBSET {1, 2, 4}
  BY <1>1, <1>3
<1>5. 4 \in word <=> 1 \in word
  BY <1>1, <1>3
<1> QED
  BY <1>3, <1>4, <1>5 DEF word, flags

\* The window after a quantum, whether it had a rise or not.
LEMMA HearWindow ==
    ASSUME DetectorTyped, WindowRemembers, NEW sound \in Sounds, HearQuantum(sound)
    PROVE  /\ WindowRemembers'
           /\ cooldown' \in Int /\ cooldown' >= -1
           /\ WindowOf(Quanta)' = HistoryWindow
           /\ HistoryWindow \in 0 .. QuietLimit
<1> DEFINE q == Quanta
           last == Max(RisesBefore(q + 1))
           word == FlagWord(sound, HistoryWindow)
           least(x) == IF x <= QuietLimit THEN x ELSE QuietLimit
<1>1. q \in Nat /\ Quanta' = q + 1 /\ QuietLimit \in Nat
  BY Heard, Slots
<1>2. /\ last \in RisesBefore(q + 1) /\ last \in -1 .. q
      /\ \A p \in RisesBefore(q + 1) : p <= last
  <2>1. q + 1 \in Nat \ {0} /\ (q + 1) - 1 = q
    BY <1>1
  <2>2. last \in -1 .. (q + 1) - 1
    BY <2>1, LastRise
  <2> QED
    BY <2>1, <2>2, LastRise
<1>3. \A x \in Int : Min({x, QuietLimit}) = least(x)
  BY <1>1, LeastOfTwo
<1>4. HistoryWindow = least(q - last) /\ WindowOf(q + 1) = least(q - last)
  <2>1. WindowOf(q + 1) = Min({(q + 1) - 1 - last, QuietLimit})
    BY DEF WindowOf, QuietBefore, RisesBefore
  <2>2. (q + 1) - 1 - last = q - last /\ q - last \in Int
    BY <1>1, <1>2
  <2> QED
    BY <1>3, <2>1, <2>2 DEF WindowRemembers
<1>5. HistoryWindow \in 0 .. QuietLimit
  BY <1>1, <1>2, <1>4
<1>6. /\ \A p \in 1 .. q : words'[p] = words[p]
      /\ words'[q + 1] = word
  BY <1>1, Heard
<1>7. WindowOf(Quanta)' = HistoryWindow
  <2>1. WindowOf(Quanta)' = Min({(q + 1) - 1
             - Max({-1} \cup {p \in 1 .. (q + 1) - 1 : 4 \in words'[p]}), QuietLimit})
    BY <1>1 DEF WindowOf, QuietBefore
  <2>2. {p \in 1 .. (q + 1) - 1 : 4 \in words'[p]} = {p \in 1 .. (q + 1) - 1 : 4 \in words[p]}
    <3>1. 1 .. (q + 1) - 1 = 1 .. q
      BY <1>1
    <3> QED
      BY <1>6, <3>1
  <2>3. WindowOf(Quanta)' = WindowOf(q + 1)
    BY <2>1, <2>2 DEF WindowOf, QuietBefore
  <2> QED
    BY <1>4, <2>3
<1> DEFINE later == Max({-1} \cup {p \in 1 .. q + 1 : 4 \in words'[p]})
<1>8. WindowOf(Quanta + 1)' = Min({(q + 1) - later, QuietLimit})
  <2>1. WindowOf(Quanta + 1)' = Min({((q + 1) + 1) - 1
             - Max({-1} \cup {p \in 1 .. ((q + 1) + 1) - 1 : 4 \in words'[p]}), QuietLimit})
    BY <1>1 DEF WindowOf, QuietBefore
  <2>2. 1 .. ((q + 1) + 1) - 1 = 1 .. q + 1
    <3>1. ((q + 1) + 1) - 1 = q + 1
      BY <1>1
    <3> QED
      BY <3>1
  <2>3. WindowOf(Quanta + 1)' = Min({((q + 1) + 1) - 1 - later, QuietLimit})
    BY <2>1, <2>2
  <2>4. ((q + 1) + 1) - 1 = q + 1
    BY <1>1
  <2> QED
    BY <2>3, <2>4
<1>9. HistoryWindow' = Min({cooldown' + 1, QuietLimit})
  BY DEF HistoryWindow
<1>10. cooldown' = IF 4 \in word THEN -1 ELSE HistoryWindow
  BY DEF HearQuantum
<1>11. RisesBefore(q + 1) = {-1} \cup {p \in 1 .. q : 4 \in words[p]}
  <2>1. (q + 1) - 1 = q
    BY <1>1
  <2> QED
    BY <2>1 DEF RisesBefore
<1> HIDE DEF q, word, last
<1>12. CASE 4 \in word
  <2> DEFINE rises == {-1} \cup {p \in 1 .. q + 1 : 4 \in words'[p]}
  <2>1. q + 1 \in rises /\ rises \in SUBSET Int /\ \A p \in rises : p <= q + 1
    BY <1>1, <1>6, <1>12
  <2>2. later = q + 1
    BY <2>1, GreatestIs
  <2>3. WindowOf(Quanta + 1)' = least(0)
    <3>1. (q + 1) - later = 0
      BY <1>1, <2>2
    <3> QED
      BY <1>3, <1>8, <3>1
  <2>4. HistoryWindow' = least(0)
    BY <1>3, <1>9, <1>10, <1>12
  <2> QED
    BY <1>5, <1>7, <1>10, <1>12, <2>3, <2>4 DEF WindowRemembers
<1>13. CASE ~(4 \in word)
  <2>1. {p \in 1 .. q + 1 : 4 \in words'[p]} = {p \in 1 .. q : 4 \in words[p]}
    <3>1. \A p : p \in 1 .. q + 1 <=> p \in 1 .. q \/ p = q + 1
      BY <1>1
    <3> QED
      BY <1>6, <1>13, <3>1
  <2>2. later = last
    BY <1>11, <2>1 DEF last
  <2>3. WindowOf(Quanta + 1)' = least((q + 1) - last)
    <3>1. (q + 1) - last \in Int
      BY <1>1, <1>2
    <3> QED
      BY <1>3, <1>8, <2>2, <3>1
  <2>4. HistoryWindow' = least(HistoryWindow + 1)
    <3>1. HistoryWindow + 1 \in Int /\ cooldown' = HistoryWindow
      BY <1>1, <1>5, <1>10, <1>13
    <3> QED
      BY <1>3, <1>9, <3>1
  <2>5. least(HistoryWindow + 1) = least((q + 1) - last)
    BY <1>1, <1>2, <1>4
  <2> QED
    BY <1>1, <1>5, <1>7, <1>10, <1>13, <2>3, <2>4, <2>5 DEF WindowRemembers
<1> QED
  BY <1>12, <1>13

\* What the code reads in the ring of a band is what was heard when.
LEMMA HearBand ==
    ASSUME DetectorTyped, BandsRemember, WindowRemembers,
           NEW sound \in Sounds, HearQuantum(sound), NEW c \in Channel, NEW b \in Band
    PROVE  LET ring == bands[c][b]
           IN  /\ Levels(Quanta, c, b, 0, 1)'
                     = {sound[c].levels[b], ring[(BandCursor - 1) % BandSlots]}
               /\ Levels(Quanta, c, b, 2, Reach(WindowOf(Quanta)) + 1)'
                     = {ring[slot] : slot \in HistorySlots(HistoryWindow)}
<1> DEFINE ring == bands[c][b]
           n == BandSlots
           q == Quanta
           past == [p \in Int |-> LevelAt(p, c, b)]
           reach == Reach(HistoryWindow)
<1>1. n \in Nat \ {0} /\ q \in Nat /\ Quanta' = q + 1
  BY Slots, Heard
<1>2. reach \in Nat /\ reach + 1 <= n /\ 2 <= n /\ Reach(WindowOf(Quanta))' = reach
  <2>1. HistoryWindow \in 0 .. QuietLimit /\ WindowOf(Quanta)' = HistoryWindow
    BY HearWindow
  <2>2. reach \in Nat /\ reach + 1 <= n
    BY <2>1, Slots
  <2>3. 2 <= n
    BY DetectorAssumption
  <2>4. Reach(WindowOf(Quanta))' = Reach(WindowOf(Quanta)')
    BY DEF Reach
  <2> QED
    BY <2>1, <2>2, <2>3, <2>4
<1>3. Remembers(ring, n, q, past)
  <2>1. ring \in [0 .. n - 1 -> Int]
    BY DEF DetectorTyped
  <2>2. \A p \in q - n + 1 .. q : ring[(p - 1) % n] = past[p]
    BY <1>1 DEF BandsRemember
  <2> QED
    BY <2>1, <2>2 DEF Remembers
<1>4. ASSUME NEW k \in 1 .. n
      PROVE  ring[(BandCursor - k) % n] = past[q + 1 - k]
  <2>1. n \in Nat \ {0} /\ q \in Nat /\ k \in 1 .. n
    BY <1>1
  <2> HIDE DEF ring, past, n, q
  <2>2. ReadsBack(ring, n, q, past)
    BY ONLY <1>3, <2>1, RingRead
  <2>3. ring[((q % n) - k) % n] = past[q + 1 - k]
    BY ONLY <2>1, <2>2 DEF ReadsBack
  <2> QED
    BY <2>3 DEF BandCursor, n, q
<1>5. ASSUME NEW k \in 1 .. n, NEW p \in Int, p = q + 1 - k
      PROVE  LevelAt(p, c, b)' = ring[(BandCursor - k) % n]
  <2>1. p <= q
    BY <1>1, <1>5
  <2>2. LevelAt(p, c, b)' = LevelAt(p, c, b)
    BY <2>1, Heard
  <2> QED
    BY <1>4, <1>5, <2>2
<1>6. ASSUME NEW from \in Int, NEW to \in Int
      PROVE  \A x : x \in {LevelAt(p, c, b) : p \in Quanta - to .. Quanta - from}'
                <=> \E p \in q + 1 - to .. q + 1 - from : x = LevelAt(p, c, b)'
  BY <1>1
<1>7. Levels(Quanta, c, b, 0, 1)'
         = {sound[c].levels[b], ring[(BandCursor - 1) % BandSlots]}
  <2>1. \A x : x \in Levels(Quanta, c, b, 0, 1)'
                <=> \E p \in q + 1 - 1 .. q + 1 - 0 : x = LevelAt(p, c, b)'
    <3>1. 0 \in Int /\ 1 \in Int
      OBVIOUS
    <3> QED
      BY <1>6, <3>1, Zenon DEF Levels
  <2>2. \A p : p \in q + 1 - 1 .. q + 1 - 0 <=> p = q \/ p = q + 1
    BY <1>1
  <2>3. \A p \in Int : p = q + 1 => LevelAt(p, c, b)' = sound[c].levels[b]
    BY Heard
  <2>4. \A p \in Int : p = q => LevelAt(p, c, b)' = ring[(BandCursor - 1) % n]
    <3>1. 1 \in 1 .. n /\ q = q + 1 - 1
      BY <1>1
    <3> QED
      BY <1>5, <3>1
  <2>5. q \in Int /\ q + 1 \in Int
    BY <1>1
  <2> QED
    BY <2>1, <2>2, <2>3, <2>4, <2>5
<1>8. Levels(Quanta, c, b, 2, Reach(WindowOf(Quanta)) + 1)'
         = {ring[slot] : slot \in HistorySlots(HistoryWindow)}
  <2>1. \A x : x \in Levels(Quanta, c, b, 2, Reach(WindowOf(Quanta)) + 1)'
                <=> \E p \in q + 1 - (reach + 1) .. q + 1 - 2 : x = LevelAt(p, c, b)'
    BY <1>2, <1>6 DEF Levels
  <2>2. HistorySlots(HistoryWindow) = {(BandCursor - 2 - step) % n : step \in 0 .. reach - 1}
    BY DEF HistorySlots
  <2>3. BandCursor \in Int
    <3>1. q % n \in 0 .. n - 1
      BY <1>1, DivideInt
    <3> QED
      BY <3>1 DEF BandCursor
  <2>4. ASSUME NEW step \in 0 .. reach - 1, NEW p \in Int, p = q + 1 - (2 + step)
        PROVE  LevelAt(p, c, b)' = ring[(BandCursor - 2 - step) % n]
    <3>1. 2 + step \in 1 .. n
      BY <1>1, <1>2
    <3>2. BandCursor - (2 + step) = BandCursor - 2 - step
      BY <1>1, <1>2, <2>3
    <3> QED
      BY <1>5, <2>4, <3>1, <3>2
  <2>5. ASSUME NEW x, NEW p \in q + 1 - (reach + 1) .. q + 1 - 2, x = LevelAt(p, c, b)'
        PROVE  x \in {ring[slot] : slot \in HistorySlots(HistoryWindow)}
    <3>1. PICK step \in 0 .. reach - 1 : p = q + 1 - (2 + step)
      <4>1. (q - 1) - p \in 0 .. reach - 1 /\ p = q + 1 - (2 + ((q - 1) - p))
        BY <1>1, <1>2
      <4> QED
        BY <4>1
    <3>2. p \in Int
      BY <1>1, <1>2
    <3>3. x = ring[(BandCursor - 2 - step) % n]
      BY <2>4, <2>5, <3>1, <3>2
    <3> QED
      BY <2>2, <3>3
  <2>6. ASSUME NEW step \in 0 .. reach - 1
        PROVE  \E p \in q + 1 - (reach + 1) .. q + 1 - 2 :
                  ring[(BandCursor - 2 - step) % n] = LevelAt(p, c, b)'
    <3>1. PICK p \in Int : p = q + 1 - (2 + step)
      BY <1>1, <1>2
    <3>2. p \in q + 1 - (reach + 1) .. q + 1 - 2
      BY <1>1, <1>2, <3>1
    <3> QED
      BY <2>4, <3>1, <3>2
  <2> QED
    BY <2>1, <2>2, <2>5, <2>6
<1> QED
  BY <1>7, <1>8

\* The word of a quantum is that of everything heard.
LEMMA HearWord ==
    ASSUME DetectorTyped, BandsRemember, WindowRemembers,
           NEW sound \in Sounds, HearQuantum(sound)
    PROVE  LET word == FlagWord(sound, HistoryWindow)
           IN  /\ 1 \in word <=> \E c \in Channel, b \in Band : Rises(Quanta, c, b)'
               /\ 2 \in word <=> \E c \in Channel, b \in Band : Falls(Quanta, c, b)'
<1> DEFINE flags(c, b) == BandFlags(bands[c][b], sound[c].levels[b], HistoryWindow)
<1>1. CarryLeft(WindowOf(Quanta))' = CarryLeft(HistoryWindow)
  <2>1. WindowOf(Quanta)' = HistoryWindow
    BY HearWindow
  <2> QED
    BY <2>1 DEF CarryLeft
<1>2. ASSUME NEW c \in Channel, NEW b \in Band
      PROVE  /\ 1 \in flags(c, b) <=> Rises(Quanta, c, b)'
             /\ 2 \in flags(c, b) <=> Falls(Quanta, c, b)'
  <2> DEFINE near == {sound[c].levels[b], bands[c][b][(BandCursor - 1) % BandSlots]}
             far == {bands[c][b][slot] : slot \in HistorySlots(HistoryWindow)}
             carry == CarryLeft(HistoryWindow)
             rises == RiseOver + carry < Max(near) - Max(far)
             falls == FallUnder - carry > Min(near) - Min(far)
  <2>1. /\ Levels(Quanta, c, b, 0, 1)' = near
        /\ Levels(Quanta, c, b, 2, Reach(WindowOf(Quanta)) + 1)' = far
    BY HearBand
  <2>2. Rises(Quanta, c, b)' <=> rises
    BY <1>1, <2>1 DEF Rises
  <2>3. Falls(Quanta, c, b)' <=> falls
    BY <1>1, <2>1 DEF Falls
  <2>4. flags(c, b) = (IF rises THEN {1, 4} ELSE {}) \cup (IF falls THEN {2} ELSE {})
    BY DEF BandFlags
  <2> HIDE DEF rises, falls, flags
  <2>5. (1 \in flags(c, b) <=> rises) /\ (2 \in flags(c, b) <=> falls)
    BY <2>4
  <2> QED
    BY <2>2, <2>3, <2>5
<1>3. /\ 1 \in FlagWord(sound, HistoryWindow)
            <=> \E c \in Channel, b \in Band : 1 \in flags(c, b)
      /\ 2 \in FlagWord(sound, HistoryWindow)
            <=> \E c \in Channel, b \in Band : 2 \in flags(c, b)
  BY WordBits
<1> HIDE DEF flags
<1> QED
  BY <1>2, <1>3

-----------------------------------------------------------------------------
(* The detector.                                                           *)

LEMMA DetectorStarts == DetectorInit => DetectorInv
<1> SUFFICES ASSUME DetectorInit PROVE DetectorInv
  OBVIOUS
<1> USE DEF DetectorInit
<1>1. Quanta = 0 /\ heard \in Seq(Sounds)
  BY DEF Quanta
<1>2. 0 % BandSlots = 0 /\ 0 % EnergySlots = 0 /\ 0 \in Int
  <2>1. ASSUME NEW n \in Nat \ {0} PROVE 0 % n = 0
    <3>1. 0 = n * 0 + 0 /\ 0 \in 0 .. n - 1 /\ 0 \in Int
      OBVIOUS
    <3> QED
      BY <3>1, RemainderUnique
  <2> QED
    BY <2>1, Slots
<1>3. DetectorTyped
  <2>1. words \in Seq(SUBSET {1, 2, 4}) /\ Len(words) = Len(heard)
    OBVIOUS
  <2> QED
    BY <1>1, <2>1 DEF DetectorTyped
<1>4. BandsRemember
  <2> SUFFICES ASSUME NEW c \in Channel, NEW b \in Band,
                      NEW p \in Quanta - BandSlots + 1 .. Quanta
               PROVE  bands[c][b][(p - 1) % BandSlots] = LevelAt(p, c, b)
    BY DEF BandsRemember
  <2>1. BandSlots \in Nat \ {0} /\ p < 1 /\ p - 1 \in Int
    BY <1>1, Slots
  <2>2. (p - 1) % BandSlots \in 0 .. BandSlots - 1
    BY <2>1, DivideInt
  <2> QED
    BY <2>1, <2>2 DEF LevelAt
<1>5. EnergiesRemember
  <2> SUFFICES ASSUME NEW c \in Channel, NEW p \in Quanta - EnergySlots + 1 .. Quanta
               PROVE  energies[c][(p - 1) % EnergySlots] = EnergyAt(p, c)
    BY DEF EnergiesRemember
  <2>1. EnergySlots \in Nat \ {0} /\ p < 1 /\ p - 1 \in Int
    BY <1>1, Slots
  <2>2. (p - 1) % EnergySlots \in 0 .. EnergySlots - 1
    BY <2>1, DivideInt
  <2> QED
    BY <2>1, <2>2 DEF EnergyAt
<1>6. SumsRemember
  <2>1. Max({0, Quanta - EnergySlots}) = 0
    <3>1. Quanta - EnergySlots \in Int /\ Quanta - EnergySlots < 0
      BY <1>1, Slots
    <3> QED
      BY <3>1, GreatestOfTwo
  <2>2. LapStart = 0
    BY <1>1 DEF LapStart
  <2>3. \A c \in Channel : EnergyOf(heard, c, 0) = 0
    BY <1>1, EnergySteps
  <2> QED
    BY <1>1, <2>1, <2>2, <2>3 DEF SumsRemember
<1>7. WindowRemembers
  <2>1. Max({-1} \cup {p \in 1 .. (Quanta + 1) - 1 : 4 \in words[p]}) = -1
    <3>1. {-1} \cup {p \in 1 .. (Quanta + 1) - 1 : 4 \in words[p]} = {-1}
      BY <1>1
    <3>2. Max({-1, -1}) = -1
      BY GreatestOfTwo
    <3> QED
      BY <3>1, <3>2
  <2>2. QuietBefore(Quanta + 1) = 1
    BY <1>1, <2>1 DEF QuietBefore
  <2>3. cooldown + 1 = 1
    OBVIOUS
  <2> QED
    BY <2>2, <2>3 DEF WindowRemembers, HistoryWindow, WindowOf
<1>8. RingsRememberThePast
  BY <1>1 DEF RingsRememberThePast
<1> QED
  BY <1>3, <1>4, <1>5, <1>6, <1>7, <1>8 DEF DetectorInv

LEMMA DetectorSteps == DetectorInv /\ [DetectorNext]_detectorVars => DetectorInv'
<1> SUFFICES ASSUME DetectorInv, [DetectorNext]_detectorVars PROVE DetectorInv'
  OBVIOUS
<1> USE DEF DetectorInv
<1>1. ASSUME NEW sound \in Sounds, HearQuantum(sound) PROVE DetectorInv'
  <2> DEFINE word == FlagWord(sound, HistoryWindow)
  <2>1. BandsRemember' /\ bands' \in [Channel -> [Band -> [0 .. BandSlots - 1 -> Int]]]
    BY <1>1, HearBands
  <2>2. EnergiesRemember' /\ energies' \in [Channel -> [0 .. EnergySlots - 1 -> Int]]
    BY <1>1, HearEnergies
  <2>3. /\ SumsRemember'
        /\ sums' \in [Channel -> [last : Int, sum : Int]] /\ averaged' \in [Channel -> Int]
        /\ \A c \in Channel :
              averaged'[c] = EnergyOf(heard', c, Quanta')
                              - EnergyOf(heard', c, Max({0, Quanta' - EnergySlots - 1}))
    BY <1>1, HearSums
  <2>4. WindowRemembers' /\ cooldown' \in Int /\ cooldown' >= -1
    BY <1>1, HearWindow
  <2>5. /\ word \in SUBSET {1, 2, 4}
        /\ 4 \in word <=> 1 \in word
    BY WordBits
  <2>6. /\ heard' \in Seq(Sounds) /\ Quanta \in Nat /\ Quanta' = Quanta + 1
        /\ words' = Append(words, word)
        /\ Len(words') = Quanta + 1 /\ words'[Quanta + 1] = word
    BY <1>1, Heard
  <2>7. DetectorTyped'
    <3>1. words' \in Seq(SUBSET {1, 2, 4})
      BY <2>5, <2>6, AppendProperties DEF DetectorTyped
    <3>2. Len(words') = Len(heard')
      BY <2>6 DEF Quanta
    <3> QED
      BY <2>1, <2>2, <2>3, <2>4, <2>6, <3>1, <3>2 DEF DetectorTyped
  <2>8. RingsRememberThePast'
    <3>1. words'[Quanta'] = word
      BY <2>6
    <3>2. /\ 1 \in word <=> \E c \in Channel, b \in Band : Rises(Quanta, c, b)'
          /\ 2 \in word <=> \E c \in Channel, b \in Band : Falls(Quanta, c, b)'
      BY <1>1, HearWord
    <3> HIDE DEF word
    <3> QED
      BY <2>3, <2>5, <3>1, <3>2 DEF RingsRememberThePast
  <2> QED
    BY <2>1, <2>2, <2>3, <2>4, <2>7, <2>8
<1>2. CASE UNCHANGED detectorVars
  <2>1. /\ UNCHANGED <<cooldown, bands, energies, sums, averaged, heard, words>>
        /\ Quanta' = Quanta
    BY <1>2 DEF detectorVars, Quanta
  <2>2. DetectorTyped'
    BY <2>1 DEF DetectorTyped
  <2>3. BandsRemember' /\ EnergiesRemember'
    BY <2>1 DEF BandsRemember, EnergiesRemember, LevelAt, EnergyAt
  <2>4. SumsRemember'
    BY <2>1 DEF SumsRemember, LapStart
  <2>5. WindowRemembers'
    BY <2>1 DEF WindowRemembers, HistoryWindow, WindowOf, QuietBefore
  <2>6. RingsRememberThePast'
    <3>1. WindowOf(Quanta)' = WindowOf(Quanta)
      BY <2>1 DEF WindowOf, QuietBefore
    <3>2. ASSUME NEW c \in Channel, NEW b \in Band, NEW from, NEW to
          PROVE  Levels(Quanta, c, b, from, to)' = Levels(Quanta, c, b, from, to)
      BY <2>1 DEF Levels, LevelAt
    <3>3. ASSUME NEW c \in Channel, NEW b \in Band
          PROVE  /\ Rises(Quanta, c, b)' <=> Rises(Quanta, c, b)
                 /\ Falls(Quanta, c, b)' <=> Falls(Quanta, c, b)
      <4>1. Levels(Quanta, c, b, 0, 1)' = Levels(Quanta, c, b, 0, 1)
        BY <3>2
      <4>2. Levels(Quanta, c, b, 2, Reach(WindowOf(Quanta)) + 1)'
              = Levels(Quanta, c, b, 2, Reach(WindowOf(Quanta)) + 1)
        BY <2>1, <3>1 DEF Levels, LevelAt, Reach
      <4>3. CarryLeft(WindowOf(Quanta))' = CarryLeft(WindowOf(Quanta))
        BY <3>1 DEF CarryLeft
      <4> QED
        BY <4>1, <4>2, <4>3 DEF Rises, Falls
    <3> QED
      BY <2>1, <3>3 DEF RingsRememberThePast
  <2> QED
    BY <2>2, <2>3, <2>4, <2>5, <2>6
<1> QED
  BY <1>1, <1>2 DEF DetectorNext

\* RingsRememberThePast holds all along: whatever the channels hear, for as long as
\* they hear it, for rings and quiet limits of any size that fit, every flag word is
\* that of the whole history and the floor is averaged over the last energies
\* (detector.rs:75-106, 184-200 and selector.rs:119-125).
THEOREM DetectorRemembers == DetectorSpec => []RingsRememberThePast
<1>1. DetectorInv => RingsRememberThePast
  BY DEF DetectorInv
<1> QED
  BY <1>1, DetectorStarts, DetectorSteps, PTL DEF DetectorSpec

=============================================================================
