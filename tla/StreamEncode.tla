---------------------------- MODULE StreamEncode ----------------------------
(***************************************************************************)
(* A streaming encode session (crates/wem-core/src/stream.rs) with the PCM *)
(* feeder it owns (crates/wem-analysis/src/preprocessing/streaming.rs).    *)
(*                                                                         *)
(* Samples are counted, not stored.  What a frame is encoded from is       *)
(* recorded in place of its packet: its plan, its transition code and, for *)
(* a frame that reaches past the end of the source, the training window of *)
(* the predicted samples and how many of them it reads.                    *)
(***************************************************************************)
EXTENDS AnalysisSession

CONSTANTS MinFrames,     \* MIN_PCM_FRAMES, and STREAM_PRIME_BATCH
          Lookahead,     \* STREAM_LOOKAHEAD
          RingKeep,      \* STREAM_RING_KEEP
          StreamTail,    \* STREAM_TAIL_SAMPLES
          TailContext,   \* TAIL_CONTEXT
          Chunks,        \* bound: the sizes of a pushed chunk
          MaxFrames      \* bound: the length of a source

ASSUME StreamAssumption ==
    /\ MinFrames \in Nat /\ Lookahead \in Nat /\ RingKeep \in Nat
    /\ StreamTail \in Nat /\ TailContext \in Nat /\ MaxFrames \in Nat
    /\ Chunks \subseteq Nat \ {0}
    /\ Long <= MinFrames /\ MinFrames <= RingKeep

\* How the fixed sizes of the stream lie to each other.  Quarter blocks are
\* whole hops; the look-ahead covers the boundary of a long block's scan and
\* the three hops the detector lags behind (stream.rs:75-83); the ring holds
\* the look-ahead and half a long block (streaming.rs:42-48); a block gives the
\* tail more samples to train on than it predicts from.
ASSUME GeometryAssumption ==
    /\ (Short \div 4) % Hop = 0 /\ (Long \div 4) % Hop = 0
    /\ 2 * Short <= Long
    /\ 3 * (Long \div 4) + Short \div 4 + 3 * Hop <= Lookahead
    /\ Lookahead + LongHalf <= RingKeep
    /\ TailContext + Short \div 4 < Long \div 4 + 2 * Hop
    /\ TailContext < Long

VARIABLES pc,          \* where the session is in a call
          total,       \* source samples pushed
          retained,    \* of them, the samples still in the ring
          extracted,   \* quanta_extracted_through
          training,    \* training window of the tail, NoTail before finish
          modes,       \* decided modes
          planner,     \* planner_state
          plans,       \* emitted frame plans
          pending,     \* centre of the decision awaiting its plan, or NoCentre
          frames,      \* frames analyzed and packed
          handed       \* packets the pushes have returned

feederVars == <<total, retained, extracted, training>>
planVars == <<modes, planner, plans, pending>>
streamVars == <<pc, feederVars, planVars, frames, handed>>
vars == <<sessionVars, streamVars>>

NoTail == 0
NoCentre == -1

Init ==
    /\ SessionInit
    /\ pc = "idle"
    /\ total = 0 /\ retained = 0 /\ extracted = 0 /\ training = NoTail
    /\ modes = <<>> /\ plans = <<>> /\ pending = NoCentre
    /\ planner = FreshPlanner(0)
    /\ frames = <<>> /\ handed = 0

-----------------------------------------------------------------------------
\* The feeder.

Primed == total >= MinFrames

\* detector_stream_length
DetectorStream ==
    IF ~Primed THEN 0
    ELSE LongHalf + total + IF training # NoTail THEN StreamTail ELSE 0

QuantumComplete == extracted * Hop + Window <= DetectorStream

\* The source samples of an interval of the timeline are all in the ring.
Retained(from, to) ==
    \A i \in Greatest(from, 0) .. Least(to, total) - 1 : i >= total - retained

\* detector_quantum can build the next quantum.
QuantumAtHand ==
    LET from == extracted * Hop - LongHalf
    IN  Retained(from, from + Window)

\* frame_raw_rows can build a frame.
FrameAtHand(plan) ==
    LET from == plan.start - LongHalf
        to == plan.end - LongHalf
    IN  /\ Primed
        /\ Retained(from, to)
        /\ to <= total \/ training # NoTail

\* Mutant of Settle: the ring keeps one block less.
SettleShort == retained' = Least(retained, RingKeep - Long)

Settle == retained' = Least(retained, RingKeep)

\* Mutant of PushChunk: the ring is cut before the quanta are built.
PushEvicting(n) ==
    /\ pc = "idle"
    /\ total + n <= MaxFrames
    /\ total' = total + n
    /\ retained' = Least(retained + n, RingKeep)
    /\ pc' = "ingest"
    /\ UNCHANGED <<sessionVars, extracted, training, planVars, frames, handed>>

PushChunk(n) ==
    /\ pc = "idle"
    /\ total + n <= MaxFrames
    /\ total' = total + n
    /\ retained' = retained + n
    /\ pc' = "ingest"
    /\ UNCHANGED <<sessionVars, extracted, training, planVars, frames, handed>>

\* A completed quantum that cannot be built is passed over.
IngestQuantum(flags) ==
    /\ pc \in {"ingest", "tailIngest"}
    /\ QuantumComplete
    /\ extracted' = extracted + 1
    /\ IF QuantumAtHand THEN Ingest(flags) ELSE UNCHANGED sessionVars
    /\ UNCHANGED <<pc, total, retained, training, planVars, frames, handed>>

QuantaIngested ==
    /\ pc \in {"ingest", "tailIngest"}
    /\ ~QuantumComplete
    /\ pc' = IF pc = "ingest" THEN "pump" ELSE "tailScan"
    /\ UNCHANGED <<sessionVars, feederVars, planVars, frames, handed>>

-----------------------------------------------------------------------------
\* Plans and frames.

AllPlanned == Len(plans) = Len(modes)

AllEmitted == Len(frames) = Len(plans)

\* The first block's planner takes its mode from the first decision.
PlannerState == IF plans = <<>> THEN FreshPlanner(modes[1]) ELSE planner

\* emit_plan; the checks it makes answer an internal error.
PlanAccepted(state, following) ==
    /\ Len(plans) < Len(modes)
    /\ pending # NoCentre
    /\ state.current = modes[Len(plans) + 1] /\ state.emitted = Len(plans)
    /\ ~Rejected(AppendSamples(state, following), following)

EmitPlan(following, next) ==
    LET state == PlannerState
    IN  IF PlanAccepted(state, following)
        THEN /\ planner' = AfterBlock(AppendSamples(state, following), following)
             /\ plans' = Append(plans, FramePlan(state, following))
             /\ pending' = NoCentre
             /\ pc' = next
             /\ UNCHANGED <<modes>>
        ELSE pc' = "failed" /\ UNCHANGED planVars

\* What the samples past the end of the source are.
Past(plan) ==
    LET past == (WindowEnd(plan) - LongHalf) - total
    IN  IF past > 0
        THEN [trained |-> training, predicted |-> Least(past, Long)]
        ELSE [trained |-> 0, predicted |-> 0]

\* consume_analysis_window: frames come in order, each of the mode and after
\* the mode the one before it announced.
InOrder(plan) ==
    /\ plan.index = Len(frames)
    /\ frames # <<>> =>
          LET last == frames[Len(frames)].plan
          IN  plan.previous = last.current /\ plan.current = last.following

EmitFrame ==
    LET plan == plans[Len(frames) + 1]
    IN  /\ pc \in {"pump", "flush"}
        /\ ~AllEmitted
        /\ IF FrameAtHand(plan) /\ InOrder(plan)
           THEN /\ frames' = Append(frames, [plan |-> plan, past |-> Past(plan),
                                             code |-> codes[Len(frames) + 1]])
                /\ pc' = pc
           ELSE pc' = "failed" /\ UNCHANGED frames
        /\ UNCHANGED <<sessionVars, feederVars, planVars, handed>>

\* Mutant of ModeIteration: a scan that answers None is run again.
ModeIterationAgain(eos, rest) ==
    IF pending # NoCentre
    THEN pc' = "failed" /\ UNCHANGED <<sessionVars, planVars>>
    ELSE \/ /\ Decide(eos)
            /\ modes' = Append(modes, currentMode)
            /\ pending' = nextCenter
            /\ UNCHANGED <<pc, planner, plans>>
         \/ /\ ~eos /\ Undecided
            /\ pc' = pc
            /\ UNCHANGED planVars

\* mode_iteration: a scan runs only when no decision awaits its plan; one that
\* answers None leads to `rest`.
ModeIteration(eos, rest) ==
    IF pending # NoCentre
    THEN pc' = "failed" /\ UNCHANGED <<sessionVars, planVars>>
    ELSE \/ /\ Decide(eos)
            /\ modes' = Append(modes, currentMode)
            /\ pending' = nextCenter
            /\ UNCHANGED <<pc, planner, plans>>
         \/ /\ ~eos /\ Undecided
            /\ pc' = rest
            /\ UNCHANGED planVars

\* The mode decided for the block after the last one.
PendingFollowing == currentMode

\* The pending block is centred on a sample of the source received so far.
CentredInSource == pending < total

-----------------------------------------------------------------------------
\* pump: what the samples pushed so far determine.

\* Mutants of ScanSafe: a scan waits for half the look-ahead, and for twice it.
ScanEarly(center) == Primed /\ total >= center + Lookahead \div 2
ScanLate(center) == Primed /\ total >= center + 2 * Lookahead

ScanSafe(center) == Primed /\ total >= center + Lookahead

PumpPlan ==
    /\ pc = "pump" /\ AllEmitted /\ ~AllPlanned
    /\ CentredInSource
    /\ EmitPlan(PendingFollowing, "pump")
    /\ UNCHANGED <<sessionVars, feederVars, frames, handed>>

PumpScan ==
    /\ pc = "pump" /\ AllEmitted /\ AllPlanned
    /\ ScanSafe(nextCenter)
    /\ ModeIteration(FALSE, "settle")
    /\ UNCHANGED <<feederVars, frames, handed>>

\* Nothing more is determined: the ring is cut, the packets are returned.
PumpRests ==
    /\ \/ pc = "settle"
       \/ /\ pc = "pump" /\ AllEmitted
          /\ IF AllPlanned THEN ~ScanSafe(nextCenter) ELSE ~CentredInSource
    /\ Settle
    /\ handed' = Len(frames)
    /\ pc' = "idle"
    /\ UNCHANGED <<sessionVars, total, extracted, training, planVars, frames>>

-----------------------------------------------------------------------------
\* finish.

Finish ==
    /\ pc = "idle"
    /\ pc' = IF total < MinFrames THEN "refused" ELSE "drain"
    /\ UNCHANGED <<sessionVars, feederVars, planVars, frames, handed>>

\* The first loop: what the source alone decides.
DrainPlan ==
    /\ pc = "drain" /\ ~AllPlanned
    /\ IF CentredInSource
       THEN EmitPlan(PendingFollowing, "drain")
       ELSE pc' = "tail" /\ UNCHANGED planVars
    /\ UNCHANGED <<sessionVars, feederVars, frames, handed>>

DrainScan ==
    /\ pc = "drain" /\ AllPlanned
    /\ IF HasSourceFrame(total)
       THEN ModeIteration(FALSE, "tail")
       ELSE pc' = "tail" /\ UNCHANGED <<sessionVars, planVars>>
    /\ UNCHANGED <<feederVars, frames, handed>>

\* The tail is predicted from the samples still in the analysis buffer.
ComputeTail ==
    LET window == Least(Long, LongHalf + total - nextCenter)
    IN  /\ pc = "tail"
        /\ IF TailContext < window /\ window <= total /\ window <= retained
           THEN training' = window /\ pc' = "tailIngest"
           ELSE pc' = "failed" /\ UNCHANGED training
        /\ UNCHANGED <<sessionVars, total, retained, extracted, planVars,
                       frames, handed>>

\* The second loop: the block centred at or past the end is the last one, and
\* is planned as if a long one followed.
TailPlan ==
    /\ pc = "tailScan" /\ ~AllPlanned
    /\ CentredInSource
    /\ EmitPlan(PendingFollowing, "tailScan")
    /\ UNCHANGED <<sessionVars, feederVars, frames, handed>>

\* Mutant of TailTerminal: the last block is planned by the mode scanned last.
TailTerminalScanned ==
    LET k == Len(plans)
        before == IF k > 0 THEN modes[k] ELSE 0
    IN  /\ pc = "tailScan" /\ ~AllPlanned
        /\ ~CentredInSource
        /\ codes' = FinalizedCodes(before, modes[k + 1])
        /\ EmitPlan(PendingFollowing, "flush")
        /\ UNCHANGED <<selectorVars, cursorVars, feederVars, frames, handed>>

TailTerminal ==
    LET k == Len(plans)
        before == IF k > 0 THEN modes[k] ELSE 0
    IN  /\ pc = "tailScan" /\ ~AllPlanned
        /\ ~CentredInSource
        /\ codes' = FinalizedCodes(before, modes[k + 1])
        /\ EmitPlan(1, "flush")
        /\ UNCHANGED <<selectorVars, cursorVars, feederVars, frames, handed>>

TailScan ==
    /\ pc = "tailScan" /\ AllPlanned
    /\ IF HasSourceFrame(total)
       THEN ModeIteration(TRUE, pc)
       ELSE pc' = "flush" /\ UNCHANGED <<sessionVars, planVars>>
    /\ UNCHANGED <<feederVars, frames, handed>>

\* Every mode has its packet: the container is built.
Answer ==
    /\ pc = "flush" /\ AllEmitted
    /\ pc' = IF Len(modes) = Len(frames) THEN "done" ELSE "failed"
    /\ UNCHANGED <<sessionVars, feederVars, planVars, frames, handed>>

\* The steps a call takes once it is made.
Run ==
    \/ QuantaIngested \/ EmitFrame \/ PumpPlan \/ PumpScan \/ PumpRests
    \/ DrainPlan \/ DrainScan \/ ComputeTail
    \/ TailPlan \/ TailTerminal \/ TailScan \/ Answer

Next ==
    \/ \E n \in Chunks : PushChunk(n)
    \/ Finish
    \/ \E flags \in FlagWords : IngestQuantum(flags)
    \/ Run

Spec == Init /\ [][Next]_vars

-----------------------------------------------------------------------------
\* Every variable holds a value of its kind.
TypeOK ==
    /\ SessionTypeOK
    /\ pc \in {"idle", "ingest", "pump", "settle", "drain", "tail", "tailIngest",
               "tailScan", "flush", "done", "refused", "failed"}
    /\ total \in 0 .. MaxFrames /\ retained \in 0 .. total
    /\ extracted \in Nat /\ training \in 0 .. Long
    /\ modes \in Seq(Modes)
    /\ planner.current \in Modes /\ planner.previous \in Modes
    /\ pending \in Nat \cup {NoCentre}
    /\ Len(plans) <= Len(modes) /\ Len(frames) <= Len(plans)
    /\ handed \in 0 .. Len(frames)

\* No order of chunks and no transients reach one of the internal errors: no
\* plan is out of step, no scan runs over a pending plan, no frame reaches
\* samples the ring has let go or the source has not delivered, and the tail
\* always has its training window (stream.rs:219, 246, 260, 268 and 632,
\* streaming.rs:329 and 454).
NoInternalError == pc # "failed"

\* The detector hears every quantum: none is passed over because its samples
\* were evicted, which would shift every later slot of the queue
\* (streaming.rs:240, `if let Some(window)`).
QuantaNeverSkipped == quanta = extracted

\* A scan run by a push always decides: the look-ahead covers the boundary of
\* the scan, so no frame is held back longer (stream.rs:75-83).
LookaheadSuffices == pc # "settle"

\* The planner's timeline and the selector's agree: the frame a plan cuts is
\* centred where the scan that decided its mode was (planner.rs:121, 142 and
\* session.rs:453 keep that centre twice).
PlannerInStep ==
    pending # NoCentre =>
        CentreOf(FramePlan(PlannerState, PendingFollowing)) = pending

\* At most the frames centred in the look-ahead before the end, and one long
\* half-block past it, wait for finish (stream.rs:39-43).
DeferredTailBounded ==
    pc = "done" =>
        Len(frames) - handed <= (Lookahead + LongHalf) \div (Short \div 2)

\* The answer covers the source and no more: the last frame, and no other, is
\* centred at or past the end (stream.rs:359 and 413).
EndsAtSource ==
    pc = "done" =>
        \A k \in DOMAIN frames :
            CentreOf(frames[k].plan) >= total <=> k = Len(frames)

\* Frames a decoder renders from the modes of the packets.
RenderedFrames ==
    LET rendered[k \in DOMAIN frames] ==
          IF k = 1 THEN 0
          ELSE rendered[k - 1] + (BlockSize(frames[k - 1].plan.current)
                                  + BlockSize(frames[k].plan.current)) \div 4
    IN  rendered[Len(frames)]

\* What the packets render covers the declared frame count, and the excess the
\* fmt chunk records is under half a long block: it neither saturates at zero
\* over a source cut short nor overflows its 16 bits (packets.rs:177-197,
\* stream.rs:359 and 413).
RenderedCoversSource ==
    pc = "done" => /\ total <= RenderedFrames
                   /\ RenderedFrames - total < LongHalf

\* A slot of the queue a scan may have read never changes again, so a decision
\* does not depend on how many quanta had been ingested when it was taken
\* (selector.rs:160 and 128-146).
ScannedSlotsFinal ==
    [][\A slot \in 0 .. quanta :
          slot * Hop < Limit => (slot \in queue <=> slot \in queue')]_vars

=============================================================================
