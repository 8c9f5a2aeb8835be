--------------------------- MODULE FrameAnalysis ----------------------------
(***************************************************************************)
(* The psychoacoustic analysis of one block after the other, channel after *)
(* channel: analyze_long_frame and analyze_short_frame                     *)
(* (crates/wem-analysis/src/psychoacoustics/pipeline.rs) as a build        *)
(* without the `parallel` feature runs them.                               *)
(***************************************************************************)
EXTENDS PsyState, FiniteSets

CONSTANTS Channels,     \* how many
          Loud,         \* bound: the channels that may be loud
          Faults,       \* bound: the channels a wave may fail from; 0 is none
          Level,        \* the spectrum peak of a loud one, against 0
          Decay,        \* what the peak loses from block to block
          MaxBlocks,    \* bound: blocks analysed
          LongAt        \* bound: which of them may be long

ASSUME AnalysisAssumption == Channels \in Nat \ {0}

Lines == 1 .. Channels

VARIABLES block,        \* blocks begun
          input,        \* the window being analysed, and the jobs it makes fail
          phase,        \* "idle", "transform", "shape" or "failed"
          local,        \* channel_specmax of the block
          peak,         \* SpectrumPeakState.value
          state,        \* ShortPsyAnalyzer.channels
          temporal,     \* ShortPsyAnalyzer.temporal
          answer        \* the rows of the last block, or the error of a channel

analysisVars == <<block, input, phase, local, peak, state, temporal, answer>>

NoInput == [mode |-> 0, variant |-> 0, following |-> 0, loud |-> 0, deaf |-> 0, flat |-> 0]

AnalysisInit ==
    /\ block = 0 /\ input = NoInput /\ phase = "idle"
    /\ local = [c \in Lines |-> 0] /\ peak = 0
    /\ state = [c \in Lines |-> FreshChannel]
    /\ temporal = FreshTemporal
    /\ answer = <<>>

\* A wave of channel jobs: the first error in channel order, or all results.
Failing(results) == {c \in Lines : "error" \in DOMAIN results[c]}
Collected(results) ==
    [error |-> IF Failing(results) = {} THEN 0
               ELSE CHOOSE c \in Failing(results) : \A d \in Failing(results) : c <= d,
     rows |-> results]

FailsFrom(first, c) == first # 0 /\ c >= first

TransformJob(c) ==
    IF FailsFrom(input.deaf, c) THEN [error |-> c]
    ELSE [level |-> IF input.loud = c THEN Level ELSE 0]

\* What a channel's second job is made of.
ShapeJob(c) ==
    IF FailsFrom(input.flat, c) THEN [error |-> c]
    ELSE [channel |-> c, local |-> local[c], peak |-> peak,
          near |-> state[c].near, far |-> state[c].far]

Highest(S) == CHOOSE x \in S : \A y \in S : y <= x

\* The peak of the stream fades, and rises with the loudest channel.
PeakAfter(levels) ==
    Highest({peak - Decay} \cup {levels[c] : c \in Lines})

\* A block is begun: its mode is the one the block before was followed by.
BeginBlock ==
    /\ phase = "idle" /\ block < MaxBlocks
    /\ block' = block + 1
    /\ input' \in [mode : {0, 1}, variant : {0, 1}, following : {0, 1},
                   loud : Loud, deaf : Faults, flat : Faults]
    /\ input'.deaf = 0 \/ input'.flat = 0
    /\ block > 0 => input'.mode = input.following
    /\ input'.mode = 1 => block' \in LongAt
    /\ input'.following = 1 => block' + 1 \in LongAt
    /\ phase' = "transform"
    /\ UNCHANGED <<local, peak, state, temporal, answer>>

\* Mutant of Refuse: the wave is run again instead.
RetryWave(channel) == answer' = <<phase, channel>> /\ UNCHANGED phase

\* The block fails with the error of a channel: a defect, the encode is over.
Refuse(channel) == answer' = <<phase, channel>> /\ phase' = "failed"

\* The first wave, and the peak of the block folded into that of the stream.
TakeTransforms(collected) ==
    IF collected.error # 0
    THEN Refuse(collected.error) /\ UNCHANGED <<local, peak>>
    ELSE /\ local' = [c \in Lines |-> collected.rows[c].level]
         /\ peak' = PeakAfter(local')
         /\ phase' = "shape"
         /\ UNCHANGED answer

\* The second wave; the curves and counters of the stream are written when all
\* of it is back.
TakeLongShapes(collected) ==
    IF collected.error # 0
    THEN Refuse(collected.error) /\ UNCHANGED <<state, temporal>>
    ELSE /\ answer' = collected.rows
         /\ state' = [c \in Lines |-> AfterLong(state[c], block, input.following)]
         /\ temporal' = AdvanceTemporal(temporal, Transition(1, input.variant))
         /\ phase' = "idle"

\* The channels of a short block one by one, each leaving its curves before the
\* next is looked at.
ShapeShort ==
    LET transition == Transition(0, input.variant)
        kernel == TemporalKernel(temporal, transition)
        Row(c) == [channel |-> c, local |-> local[c], peak |-> peak,
                   near |-> state[c].near, kernel |-> kernel,
                   history |-> HistorySource(state[c], temporal)]
        done == IF input.flat = 0 THEN Lines ELSE 1 .. input.flat - 1
    IN  /\ state' = [c \in Lines |->
                       IF c \in done
                       THEN AfterShort(state[c], block, input.following, kernel)
                       ELSE state[c]]
        /\ IF input.flat = 0
           THEN /\ answer' = [c \in Lines |-> Row(c)]
                /\ temporal' = AdvanceTemporal(temporal, transition)
                /\ phase' = "idle"
           ELSE Refuse(input.flat) /\ UNCHANGED temporal

\* Blocks are short where the mode is 0; those never use the pool.
TransformBlock ==
    /\ phase = "transform"
    /\ TakeTransforms(Collected([c \in Lines |-> TransformJob(c)]))
    /\ UNCHANGED <<block, input, state, temporal>>

ShapeLongBlock ==
    /\ phase = "shape" /\ input.mode = 1
    /\ TakeLongShapes(Collected([c \in Lines |-> ShapeJob(c)]))
    /\ UNCHANGED <<block, input, local, peak>>

ShapeShortBlock ==
    /\ phase = "shape" /\ input.mode = 0
    /\ ShapeShort
    /\ UNCHANGED <<block, input, local, peak>>

AnalysisNext == BeginBlock \/ TransformBlock \/ ShapeLongBlock \/ ShapeShortBlock

AnalysisSpec == AnalysisInit /\ [][AnalysisNext]_analysisVars

-----------------------------------------------------------------------------
\* A block reads only what the block before it wrote, at its own scale: a long
\* one all its bins, a short one the first ones, and a history that a run of
\* other blocks has left behind is never taken up again (short.rs:199-232,
\* 367-400, envelope.rs:160-183).
LongScale == {"fresh", "long", "spread"}
ShortScale == {"fresh", "short", "min"}

ReadsPrecedingBlock ==
    phase \in {"transform", "shape"} =>
        \A c \in Lines :
            /\ state[c].near.block = block - 1
            /\ input.mode = 1 =>
                 /\ state[c].far.block = block - 1
                 /\ {state[c].near.scale, state[c].far.scale} \subseteq LongScale
            /\ input.mode = 0 =>
                 /\ state[c].near.scale \in ShortScale
                 /\ TemporalKernel(temporal, input.variant).active =>
                        HistorySource(state[c], temporal) = block - 1

\* A run of steady short blocks holds the floor less and less: from one block
\* of it to the next, the bias grows and the chase shrinks, never below zero,
\* through the plateau at the eighth (temporal.rs:121-151).
Kernel == TemporalKernel(temporal, 0)
RunEasesOff ==
    [][temporal'.previous = 0 /\ temporal'.run > temporal.run =>
          /\ Kernel'.bias >= Kernel.bias
          /\ Kernel'.chase \in 0 .. Kernel.chase
          /\ Kernel'.lower > 0]_temporal

=============================================================================
